-------------------------- MODULE RymValuesProofs --------------------------
(****************************************************************************)
(* Proofs about RymValues, for every program and every bound.               *)
(*                                                                          *)
(*   1. VInv: the types, and that the frame of an open construct keeps as   *)
(*      many names as it needs (ValuesTyped).                               *)
(*   2. WInv: of two blocks that write a name, the first jumps past the     *)
(*      second (Tidy); what is still to be written has no writer or belongs *)
(*      to one open construct (NamesWrittenOnce).                           *)
(*   3. Good: for each name a set of labels where it has surely been        *)
(*      written (Covers); it is empty for a result that an open construct   *)
(*      still waits for, and is made from the blocks that jump there        *)
(*      (Delivers) when the construct is closed.  The first lemmas say what *)
(*      becomes of the sets in an ordinary step (Onward), in one that goes  *)
(*      on at a pending label (Turned) and in the one that completes a      *)
(*      result (Stored); then follow the actions, one by one, and the end   *)
(*      of a function (OperandsAreDefined).                                 *)
(****************************************************************************)
EXTENDS RymValues, RymLowerProofs

-----------------------------------------------------------------------------
(* Instructions and names.                                                  *)

LEMMA Instrs ==
  /\ \A d \in Nat : \A a \in Seq(Nat) : Write(d, a) \in Instr /\ Write(d, a).dest = d
                                        /\ Write(d, a).args = a
  /\ \A a \in Seq(Nat) : Use(a) \in Instr /\ Use(a).dest = NoName /\ Use(a).args = a
  BY DEF Write, Use, Instr, Name, NoName

(* Short sequences of names and of instructions. *)
LEMMA Few ==
  ASSUME NEW S, NEW x \in S, NEW y \in S, NEW z \in S, NEW w \in S
  PROVE  /\ <<>> \in Seq(S) /\ <<x>> \in Seq(S) /\ <<x, y>> \in Seq(S)
         /\ <<x, y, z>> \in Seq(S) /\ <<x, y, z, w>> \in Seq(S)
  OBVIOUS

LEMMA Joined ==
  ASSUME NEW S, NEW s \in Seq(S), NEW t \in Seq(S)
  PROVE  s \o t \in Seq(S)
  OBVIOUS

(* The operand has a name, and the fresh names behind it have others. *)
LEMMA Operand ==
  ASSUME ValueTypeOK
  PROVE  /\ Opd \in Nat /\ OpdCode \in Seq(Instr)
         /\ \A i \in Nat : Later(i) \in Nat /\ Later(i) = Later(0) + i /\ Later(i) >= nextId
         /\ IsLeaf => Opd = nextId /\ Later(0) = nextId + 1
         /\ ~IsLeaf => Opd = val /\ Later(0) = nextId
<1>1. nextId \in Nat /\ val \in Nat \cup {-1}
  BY DEF ValueTypeOK, Name, NoName
<1>2. Write(nextId, <<>>) \in Instr
  BY <1>1, Instrs, EmptyIn
<1>3. OpdCode \in Seq(Instr)
  BY <1>2, EmptyIn, Seq1 DEF OpdCode
<1> QED
  BY <1>1, <1>3 DEF Opd, IsLeaf, Later, NoName

LEMMA Regrouped ==
  ASSUME NEW S, NEW s \in Seq(S), NEW t \in Seq(S), NEW u \in Seq(S)
  PROVE  (s \o t) \o u = s \o (t \o u)
  OBVIOUS

LEMMA OneByOne ==
  ASSUME NEW S, NEW s \in Seq(S), NEW x \in S, NEW y \in S, NEW z \in S
  PROVE  /\ s \o <<x>> \o <<y>> = Append(Append(s, x), y)
         /\ s \o <<x>> \o <<y, z>> = Append(Append(Append(s, x), y), z)
  OBVIOUS

(* What Blocks adds, for one, two and three blocks. *)
LEMMA OneBlock ==
  ASSUME NEW x, NEW start, Blocks(<<x>>, start), code \in Seq(Seq(Instr)), emitted \o x \in Seq(Instr)
  PROVE  code' = Append(code, emitted \o x) /\ emitted' = start
<1>1. code' = code \o <<emitted \o x>> \o <<>> /\ emitted' = start
  BY DEF Blocks
<1> QED
  BY <1>1

LEMMA TwoBlocks ==
  ASSUME NEW x, NEW y \in Seq(Instr), NEW start, Blocks(<<x, y>>, start), code \in Seq(Seq(Instr)),
         emitted \o x \in Seq(Instr)
  PROVE  code' = Append(Append(code, emitted \o x), y) /\ emitted' = start
<1>1. code' = code \o <<emitted \o x>> \o <<y>> /\ emitted' = start
  BY DEF Blocks
<1>2. PICK e \in Seq(Instr) : e = emitted \o x
  OBVIOUS
<1>3. code \o <<e>> \o <<y>> = Append(Append(code, e), y)
  BY OneByOne
<1> QED
  BY <1>1, <1>2, <1>3

LEMMA ThreeBlocks ==
  ASSUME NEW x, NEW y \in Seq(Instr), NEW z \in Seq(Instr), NEW start,
         Blocks(<<x, y, z>>, start), code \in Seq(Seq(Instr)), emitted \o x \in Seq(Instr)
  PROVE  code' = Append(Append(Append(code, emitted \o x), y), z) /\ emitted' = start
<1>1. code' = code \o <<emitted \o x>> \o <<y, z>> /\ emitted' = start
  BY SMTT(30) DEF Blocks
<1>2. PICK e \in Seq(Instr) : e = emitted \o x
  OBVIOUS
<1>3. code \o <<e>> \o <<y, z>> = Append(Append(Append(code, e), y), z)
  <2>1. PICK S : S = Seq(Instr)
    OBVIOUS
  <2>2. code \in Seq(S) /\ e \in S /\ y \in S /\ z \in S
    BY <2>1
  <2> QED
    BY <2>2, OneByOne
<1> QED
  BY <1>1, <1>2, <1>3, Zenon

-----------------------------------------------------------------------------
(* What a list of instructions writes, and reads before it writes it.       *)

Dests(c) == {c[j].dest : j \in DOMAIN c} \ {NoName}

Once(c) == \A j, k \in DOMAIN c : c[j].dest = c[k].dest /\ j # k => c[j].dest = NoName

Reads(c) == UNION {Range(c[k].args) \ {c[j].dest : j \in 1..(k - 1)} : k \in DOMAIN c}

(* List c writes D, each name of it once, and reads at most R.              *)
Chunk(c, D, R) == c \in Seq(Instr) /\ Once(c) /\ Dests(c) = D /\ Reads(c) \subseteq R

LEMMA ReadsAt ==
  ASSUME NEW c, NEW t
  PROVE  t \in Reads(c) <=> \E k \in DOMAIN c : t \in Range(c[k].args)
                                                /\ \A j \in 1..(k - 1) : c[j].dest # t
  BY DEF Reads

LEMMA ChunkNone == Chunk(<<>>, {}, {})
  BY EmptyIn DEF Chunk, Once, Dests, Reads

LEMMA ChunkWrite ==
  ASSUME NEW d \in Nat, NEW a \in Seq(Nat)
  PROVE  Chunk(<<Write(d, a)>>, {d}, Range(a))
<1> DEFINE i == Write(d, a)
<1>1. i \in Instr /\ i.dest = d /\ i.args = a /\ d # NoName
  BY Instrs DEF NoName
<1> HIDE DEF i
<1>2. <<i>> \in Seq(Instr) /\ DOMAIN <<i>> = {1} /\ <<i>>[1] = i
  BY <1>1
<1>3. Once(<<i>>) /\ Dests(<<i>>) = {d}
  BY <1>1, <1>2 DEF Once, Dests
<1>4. Reads(<<i>>) \subseteq Range(a)
  BY <1>1, <1>2 DEF Reads
<1> QED
  BY <1>2, <1>3, <1>4 DEF Chunk, i

LEMMA ChunkUse ==
  ASSUME NEW a \in Seq(Nat)
  PROVE  Chunk(<<Use(a)>>, {}, Range(a))
<1> DEFINE i == Use(a)
<1>1. i \in Instr /\ i.dest = NoName /\ i.args = a
  BY Instrs
<1> HIDE DEF i
<1>2. <<i>> \in Seq(Instr) /\ DOMAIN <<i>> = {1} /\ <<i>>[1] = i
  BY <1>1
<1>3. Once(<<i>>) /\ Dests(<<i>>) = {}
  BY <1>1, <1>2 DEF Once, Dests
<1>4. Reads(<<i>>) \subseteq Range(a)
  BY <1>1, <1>2 DEF Reads
<1> QED
  BY <1>2, <1>3, <1>4 DEF Chunk, i

LEMMA ChunkMore ==
  ASSUME NEW a, NEW D, NEW R, NEW b, NEW E, NEW Q, Chunk(a, D, R), Chunk(b, E, Q), D \cap E = {}
  PROVE  Chunk(a \o b, D \cup E, R \cup (Q \ D))
<1> DEFINE c == a \o b
<1>1. a \in Seq(Instr) /\ b \in Seq(Instr)
  BY DEF Chunk
<1>2. /\ c \in Seq(Instr) /\ Len(c) = Len(a) + Len(b) /\ Len(a) \in Nat /\ Len(b) \in Nat
      /\ DOMAIN a = 1..Len(a) /\ DOMAIN b = 1..Len(b) /\ DOMAIN c = 1..(Len(a) + Len(b))
      /\ \A k \in DOMAIN a : c[k] = a[k]
      /\ \A k \in DOMAIN b : c[k + Len(a)] = b[k]
  BY <1>1
<1> HIDE DEF c
<1>3. \A k \in DOMAIN c : k \in DOMAIN a \/ (k - Len(a) \in DOMAIN b /\ c[k] = b[k - Len(a)] /\ k \notin DOMAIN a)
  <2> TAKE k \in DOMAIN c
  <2> SUFFICES ASSUME k \notin DOMAIN a
               PROVE  k - Len(a) \in DOMAIN b /\ c[k] = b[k - Len(a)]
    OBVIOUS
  <2>1. PICK l : l = k - Len(a)
    OBVIOUS
  <2>2. l \in DOMAIN b /\ l + Len(a) = k
    BY <1>2, <2>1
  <2>3. c[l + Len(a)] = b[l]
    BY <1>2, <2>2
  <2> QED
    BY <2>1, <2>2, <2>3
<1>4. \A k \in DOMAIN a : k \in DOMAIN c
  BY <1>2
<1>5. \A k \in DOMAIN b : k + Len(a) \in DOMAIN c
  BY <1>2
<1>6. Dests(c) = Dests(a) \cup Dests(b)
  <2>1. \A x \in Dests(c) : x \in Dests(a) \cup Dests(b)
    BY <1>2, <1>3 DEF Dests
  <2>2. \A x \in Dests(a) : x \in Dests(c)
    BY <1>2, <1>4 DEF Dests
  <2>3. \A x \in Dests(b) : x \in Dests(c)
    BY <1>2, <1>5 DEF Dests
  <2> QED
    BY <2>1, <2>2, <2>3
<1>7. Once(c)
  <2> SUFFICES ASSUME NEW j \in DOMAIN c, NEW k \in DOMAIN c, c[j].dest = c[k].dest, j # k,
                      c[j].dest # NoName
               PROVE  FALSE
    BY DEF Once
  <2>1. CASE j \in DOMAIN a /\ k \in DOMAIN a
    BY <1>2, <2>1 DEF Chunk, Once
  <2>2. CASE j \notin DOMAIN a /\ k \notin DOMAIN a
    <3>1. j - Len(a) # k - Len(a)
      BY <1>2
    <3>2. /\ j - Len(a) \in DOMAIN b /\ k - Len(a) \in DOMAIN b
          /\ c[j] = b[j - Len(a)] /\ c[k] = b[k - Len(a)]
      BY <1>3, <2>2
    <3>3. PICK p, q : p = j - Len(a) /\ q = k - Len(a)
      OBVIOUS
    <3> QED
      BY <3>1, <3>2, <3>3 DEF Chunk, Once
  <2>3. \A x \in DOMAIN a, y \in DOMAIN b : a[x].dest = b[y].dest => a[x].dest = NoName
    BY DEF Chunk, Dests
  <2>4. CASE j \in DOMAIN a /\ k \notin DOMAIN a
    BY <1>2, <1>3, <2>3, <2>4
  <2>5. CASE j \notin DOMAIN a /\ k \in DOMAIN a
    BY <1>2, <1>3, <2>3, <2>5
  <2> QED
    BY <2>1, <2>2, <2>4, <2>5
<1>8. Reads(c) \subseteq R \cup (Q \ D)
  <2> SUFFICES ASSUME NEW t \in Reads(c) PROVE t \in R \cup (Q \ D)
    OBVIOUS
  <2>1. PICK k \in DOMAIN c : t \in Range(c[k].args) /\ \A j \in 1..(k - 1) : c[j].dest # t
    BY ReadsAt
  <2>2. CASE k \in DOMAIN a
    <3>1. \A j \in 1..(k - 1) : j \in DOMAIN a
      BY <1>2, <2>2
    <3>2. t \in Range(a[k].args) /\ \A j \in 1..(k - 1) : a[j].dest # t
      BY <1>2, <2>1, <2>2, <3>1
    <3>3. t \in Reads(a)
      BY <2>2, <3>2, ReadsAt
    <3> QED
      BY <3>3 DEF Chunk
  <2>3. CASE k \notin DOMAIN a
    <3>1. PICK l : l = k - Len(a)
      OBVIOUS
    <3>2. l \in DOMAIN b /\ c[k] = b[l] /\ k \in Nat /\ k > Len(a) /\ l \in Nat
      BY <1>2, <1>3, <2>3, <3>1
    <3>3. \A j \in 1..(l - 1) : b[j].dest # t
      <4> TAKE j \in 1..(l - 1)
      <4>1. j \in DOMAIN b /\ j + Len(a) \in 1..(k - 1)
        BY <1>2, <3>1, <3>2
      <4>2. c[j + Len(a)] = b[j]
        BY <1>2, <4>1
      <4> QED
        BY <2>1, <4>1, <4>2
    <3>4. t \in Reads(b)
      BY <2>1, <3>2, <3>3, ReadsAt
    <3>5. \A j \in DOMAIN a : a[j].dest # t
      <4> TAKE j \in DOMAIN a
      <4>1. j \in 1..(k - 1)
        BY <1>2, <3>2
      <4> QED
        BY <1>2, <2>1, <4>1
    <3>6. t \notin D
      BY <3>5 DEF Chunk, Dests
    <3> QED
      BY <3>4, <3>6 DEF Chunk
  <2> QED
    BY <2>2, <2>3
<1>9. c \in Seq(Instr) /\ Dests(c) = D \cup E
  BY <1>2, <1>6 DEF Chunk
<1> QED
  BY <1>7, <1>8, <1>9 DEF Chunk, c

LEMMA ChunkSame ==
  ASSUME NEW c, NEW D, NEW R, NEW E, NEW Q, Chunk(c, D, R), D = E, R \subseteq Q
  PROVE  Chunk(c, E, Q)
  BY DEF Chunk

LEMMA ChunkPut ==
  ASSUME NEW c, NEW D, NEW R, Chunk(c, D, R), NEW d \in Nat, d \notin D, NEW a \in Seq(Nat)
  PROVE  Chunk(c \o <<Write(d, a)>>, D \cup {d}, R \cup (Range(a) \ D))
<1>1. Chunk(<<Write(d, a)>>, {d}, Range(a)) /\ D \cap {d} = {}
  BY ChunkWrite
<1> QED
  BY <1>1, ChunkMore

LEMMA ChunkRead ==
  ASSUME NEW c, NEW D, NEW R, Chunk(c, D, R), NEW a \in Seq(Nat)
  PROVE  Chunk(c \o <<Use(a)>>, D, R \cup (Range(a) \ D))
<1>1. Chunk(<<Use(a)>>, {}, Range(a)) /\ D \cap {} = {} /\ D \cup {} = D
  BY ChunkUse
<1>2. Chunk(c \o <<Use(a)>>, D \cup {}, R \cup (Range(a) \ D))
  BY <1>1, ChunkMore
<1> QED
  BY <1>1, <1>2

LEMMA Apart2 ==
  ASSUME NEW S, NEW x \in S, NEW y \in S
  PROVE  <<x, y>> = <<x>> \o <<y>>
<1>1. <<x, y>> = Append(<<x>>, y) /\ <<x>> \in Seq(S)
  OBVIOUS
<1>2. Append(<<x>>, y) = <<x>> \o <<y>>
  BY <1>1
<1> QED
  BY <1>1, <1>2, Zenon

LEMMA Apart3 ==
  ASSUME NEW S, NEW x \in S, NEW y \in S, NEW z \in S
  PROVE  <<x, y, z>> = <<x, y>> \o <<z>>
<1>1. <<x, y, z>> = Append(<<x, y>>, z) /\ <<x, y>> \in Seq(S)
  OBVIOUS
<1>2. Append(<<x, y>>, z) = <<x, y>> \o <<z>>
  BY <1>1
<1> QED
  BY <1>1, <1>2, Zenon

LEMMA FromNothing == ASSUME NEW S, NEW c \in Seq(S) PROVE <<>> \o c = c
  OBVIOUS

(* The name a leaf is given, or the one that is there already.              *)
Leaf == IF IsLeaf THEN {nextId} ELSE {}
Past == IF IsLeaf THEN {} ELSE {val}

LEMMA OpdChunk ==
  ASSUME ValueTypeOK
  PROVE  /\ Chunk(OpdCode, Leaf, {}) /\ {Opd} \ Leaf = Past /\ Opd \in Leaf \cup Past
         /\ Leaf \subseteq Nat /\ Past \subseteq Nat /\ \A t \in Leaf : t = nextId /\ t < Later(0)
<1>1. nextId \in Nat /\ val \in Nat \cup {NoName}
  BY DEF ValueTypeOK, Name
<1>2. CASE IsLeaf
  <2>1. <<>> \in Seq(Nat) /\ Range(<<>>) = {}
    BY EmptyIn, Range0
  <2>2. Chunk(<<Write(nextId, <<>>)>>, {nextId}, {})
    BY <1>1, <2>1, ChunkWrite
  <2>3. Later(0) = nextId + 1
    BY <1>2, Operand
  <2> QED
    BY <1>1, <1>2, <2>2, <2>3 DEF OpdCode, Leaf, Past, Opd
<1>3. CASE ~IsLeaf
  BY <1>1, <1>3, ChunkNone DEF OpdCode, Leaf, Past, Opd, IsLeaf
<1> QED
  BY <1>2, <1>3

(* Reading the operand behind the code that computes it.                    *)
LEMMA UseOpd ==
  ASSUME ValueTypeOK
  PROVE  Chunk(OpdCode \o <<Use(<<Opd>>)>>, Leaf, Past)
<1>1. Opd \in Nat /\ <<Opd>> \in Seq(Nat) /\ Range(<<Opd>>) = {Opd}
  BY Operand, Range1, Seq1
<1>2. Chunk(OpdCode \o <<Use(<<Opd>>)>>, Leaf, {} \cup ({Opd} \ Leaf))
  BY <1>1, OpdChunk, ChunkRead
<1> QED
  BY <1>2, OpdChunk, ChunkSame

LEMMA WriteOpd ==
  ASSUME ValueTypeOK, NEW d \in Nat, d \notin Leaf
  PROVE  Chunk(OpdCode \o <<Write(d, <<Opd>>)>>, Leaf \cup {d}, Past)
<1>1. Opd \in Nat /\ <<Opd>> \in Seq(Nat) /\ Range(<<Opd>>) = {Opd}
  BY Operand, Range1, Seq1
<1>2. Chunk(OpdCode \o <<Write(d, <<Opd>>)>>, Leaf \cup {d}, {} \cup ({Opd} \ Leaf))
  BY <1>1, OpdChunk, ChunkPut
<1> QED
  BY <1>2, OpdChunk, ChunkSame

LEMMA OperateChunk ==
  ASSUME ValueTypeOK, NEW h \in Nat
  PROVE  Chunk(OpdCode \o <<Write(Later(0), <<h, Opd>>)>>, Leaf \cup {Later(0)}, Past \cup {h})
<1>1. Opd \in Nat /\ <<h, Opd>> \in Seq(Nat) /\ Range(<<h, Opd>>) = {h, Opd}
  BY Operand, Range2, Seq2
<1>2. Later(0) \in Nat /\ Later(0) \notin Leaf
  BY Operand, OpdChunk
<1>3. Chunk(OpdCode \o <<Write(Later(0), <<h, Opd>>)>>, Leaf \cup {Later(0)},
            {} \cup ({h, Opd} \ Leaf))
  BY <1>1, <1>2, OpdChunk, ChunkPut
<1>4. {} \cup ({h, Opd} \ Leaf) \subseteq Past \cup {h}
  BY OpdChunk
<1> QED
  BY <1>3, <1>4, ChunkSame

(* Two and three instructions in a row.                                     *)
LEMMA TwoChunk ==
  ASSUME NEW p \in Nat, NEW a \in Seq(Nat), NEW q \in Nat, NEW b \in Seq(Nat), p # q
  PROVE  /\ Chunk(<<Write(p, a), Write(q, b)>>, {p, q}, Range(a) \cup (Range(b) \ {p}))
         /\ Chunk(<<Write(p, a), Write(q, b), Use(<<q>>)>>, {p, q},
                  Range(a) \cup (Range(b) \ {p}))
<1> DEFINE i == Write(p, a)  j == Write(q, b)  k == Use(<<q>>)
<1>1. <<q>> \in Seq(Nat) /\ Range(<<q>>) = {q}
  BY Seq1, Range1
<1>2. i \in Instr /\ j \in Instr /\ k \in Instr
  BY <1>1, Instrs
<1>3. Chunk(<<i>>, {p}, Range(a))
  BY ChunkWrite
<1>4. Chunk(<<i>> \o <<j>>, {p} \cup {q}, Range(a) \cup (Range(b) \ {p}))
  <2>1. \A c : Chunk(c, {p}, Range(a)) => Chunk(c \o <<j>>, {p} \cup {q}, Range(a) \cup (Range(b) \ {p}))
    BY ChunkPut
  <2> QED
    BY <1>3, <2>1
<1>5. Chunk((<<i>> \o <<j>>) \o <<k>>, {p} \cup {q},
            Range(a) \cup (Range(b) \ {p}) \cup ({q} \ ({p} \cup {q})))
  <2>1. \A c, D, R : Chunk(c, D, R) => Chunk(c \o <<k>>, D, R \cup ({q} \ D))
    BY <1>1, ChunkRead
  <2> QED
    BY <1>4, <2>1
<1> HIDE DEF i, j, k
<1>6. <<i, j>> = <<i>> \o <<j>> /\ <<i, j, k>> = (<<i>> \o <<j>>) \o <<k>>
  <2>1. <<i, j>> = <<i>> \o <<j>>
    BY <1>2, Apart2, Zenon
  <2>2. <<i, j, k>> = <<i, j>> \o <<k>>
    BY <1>2, Apart3, Zenon
  <2> QED
    BY <2>1, <2>2, Zenon
<1>7. Chunk(<<i, j>>, {p} \cup {q}, Range(a) \cup (Range(b) \ {p}))
  BY <1>4, <1>6
<1>8. Chunk(<<i, j, k>>, {p} \cup {q},
            Range(a) \cup (Range(b) \ {p}) \cup ({q} \ ({p} \cup {q})))
  BY <1>5, <1>6
<1>9. {p} \cup {q} = {p, q}
  OBVIOUS
<1>10. Chunk(<<i, j, k>>, {p, q}, Range(a) \cup (Range(b) \ {p}))
  BY <1>8, <1>9, ChunkSame
<1>11. Chunk(<<i, j>>, {p, q}, Range(a) \cup (Range(b) \ {p}))
  BY <1>7, <1>9
<1> QED
  BY <1>10, <1>11 DEF i, j, k

(* Three writes and, at the end of a block, the read of the last. *)
LEMMA ThreeChunk ==
  ASSUME NEW p \in Nat, NEW a \in Seq(Nat), NEW q \in Nat, NEW b \in Seq(Nat), NEW r \in Nat,
         NEW c \in Seq(Nat), p # q, p # r, q # r
  PROVE  /\ Chunk(<<Write(p, a), Write(q, b), Write(r, c)>>, {p, q, r},
                  Range(a) \cup (Range(b) \ {p}) \cup (Range(c) \ {p, q}))
         /\ Chunk(<<Write(p, a), Write(q, b), Write(r, c), Use(<<r>>)>>, {p, q, r},
                  Range(a) \cup (Range(b) \ {p}) \cup (Range(c) \ {p, q}))
<1> DEFINE i == Write(p, a)  j == Write(q, b)  k == Write(r, c)  l == Use(<<r>>)
           X == Range(a) \cup (Range(b) \ {p})
           Y == X \cup (Range(c) \ {p, q})
<1>1. <<r>> \in Seq(Nat) /\ Range(<<r>>) = {r}
  BY Seq1, Range1
<1>2. i \in Instr /\ j \in Instr /\ k \in Instr /\ l \in Instr
  BY <1>1, Instrs
<1>3. Chunk(<<i, j>>, {p, q}, X)
  BY TwoChunk
<1>4. Chunk(<<i, j>> \o <<k>>, {p, q} \cup {r}, Y)
  <2>1. \A e, D, R : Chunk(e, D, R) /\ r \notin D
                       => Chunk(e \o <<k>>, D \cup {r}, R \cup (Range(c) \ D))
    BY ChunkPut
  <2> QED
    BY <1>3, <2>1
<1>5. Chunk((<<i, j>> \o <<k>>) \o <<l>>, {p, q} \cup {r}, Y \cup ({r} \ ({p, q} \cup {r})))
  <2>1. \A e, D, R : Chunk(e, D, R) => Chunk(e \o <<l>>, D, R \cup ({r} \ D))
    BY <1>1, ChunkRead
  <2> QED
    BY <1>4, <2>1
<1> HIDE DEF i, j, k, l, X, Y
<1>6. <<i, j, k>> = <<i, j>> \o <<k>> /\ <<i, j, k, l>> = (<<i, j>> \o <<k>>) \o <<l>>
  <2>1. <<i, j, k>> = <<i, j>> \o <<k>>
    BY <1>2, Apart3, Zenon
  <2>2. <<i, j, k, l>> = <<i, j, k>> \o <<l>>
    <3>1. <<i, j, k, l>> = Append(<<i, j, k>>, l) /\ <<i, j, k>> \in Seq(Instr)
      BY <1>2
    <3>2. Append(<<i, j, k>>, l) = <<i, j, k>> \o <<l>>
      BY <1>2, <3>1
    <3> QED
      BY <3>1, <3>2, Zenon
  <2> QED
    BY <2>1, <2>2, Zenon
<1>9. {p, q} \cup {r} = {p, q, r} /\ Y \cup ({r} \ ({p, q} \cup {r})) = Y
  OBVIOUS
<1>10. Chunk(<<i, j, k, l>>, {p, q, r}, Y)
  BY <1>5, <1>6, <1>9
<1>11. Chunk(<<i, j, k>>, {p, q, r}, Y)
  BY <1>4, <1>6, <1>9
<1> QED
  BY <1>10, <1>11 DEF i, j, k, l, X, Y

-----------------------------------------------------------------------------
(* What each construct emits.                                               *)

(* The operand's code, then code that may read the operand.                 *)
LEMMA BehindOpd ==
  ASSUME ValueTypeOK, NEW c, NEW D, NEW R, Chunk(c, D, R), D \cap Leaf = {}
  PROVE  Chunk(OpdCode \o c, Leaf \cup D, R \ Leaf)
<1>1. Chunk(OpdCode \o c, Leaf \cup D, {} \cup (R \ Leaf))
  BY OpdChunk, ChunkMore
<1> QED
  BY <1>1, ChunkSame

LEMMA Fresh ==
  ASSUME ValueTypeOK
  PROVE  /\ Later(0) \in Nat /\ Later(1) = Later(0) + 1 /\ Later(2) = Later(0) + 2
         /\ Later(3) = Later(0) + 3 /\ Later(4) = Later(0) + 4 /\ Later(5) = Later(0) + 5
         /\ Later(6) = Later(0) + 6 /\ Later(7) = Later(0) + 7 /\ Later(8) = Later(0) + 8
         /\ Later(0) >= nextId /\ nextId \in Nat /\ Opd \in Nat /\ (Opd = nextId \/ Opd = val)
         /\ \A t \in Leaf : t = nextId /\ t < Later(0)
<1>1. nextId \in Nat
  BY DEF ValueTypeOK
<1>2. Opd \in Nat /\ (Opd = nextId \/ Opd = val)
  BY Operand DEF Opd
<1>3. \A t \in Leaf : t = nextId /\ t < Later(0)
  BY OpdChunk
<1> QED
  BY <1>1, <1>2, <1>3 DEF Later

LEMMA UnwrapChunk ==
  ASSUME ValueTypeOK
  PROVE  Chunk(Unwrap, Leaf \cup {Later(0), Later(2), Later(3)}, Past)
<1> DEFINE L == Later(0)  L2 == Later(2)  L3 == Later(3)  o == Opd
<1>1. /\ L \in Nat /\ L2 = L + 2 /\ L3 = L + 3 /\ o \in Nat /\ \A t \in Leaf : t < L
  BY Fresh
<1> HIDE DEF L, L2, L3, o
<1>2. /\ <<o>> \in Seq(Nat) /\ <<>> \in Seq(Nat) /\ <<L, L2>> \in Seq(Nat)
      /\ Range(<<o>>) = {o} /\ Range(<<>>) = {} /\ Range(<<L, L2>>) = {L, L2}
      /\ L2 \in Nat /\ L3 \in Nat /\ L # L2 /\ L # L3 /\ L2 # L3
  BY <1>1, Few, Range0, Range1, Range2
<1>3. Chunk(<<Write(L, <<o>>), Write(L2, <<>>), Write(L3, <<L, L2>>), Use(<<L3>>)>>,
            {L, L2, L3}, {o} \cup ({} \ {L}) \cup ({L, L2} \ {L, L2}))
  <2>1. Chunk(<<Write(L, <<o>>), Write(L2, <<>>), Write(L3, <<L, L2>>), Use(<<L3>>)>>,
              {L, L2, L3}, Range(<<o>>) \cup (Range(<<>>) \ {L}) \cup (Range(<<L, L2>>) \ {L, L2}))
    BY <1>1, <1>2, ThreeChunk
  <2> QED
    BY <1>2, <2>1
<1>4. {L, L2, L3} \cap Leaf = {}
  BY <1>1
<1>5. Chunk(Unwrap, Leaf \cup {L, L2, L3}, ({o} \cup ({} \ {L}) \cup ({L, L2} \ {L, L2})) \ Leaf)
  BY <1>3, <1>4, BehindOpd DEF Unwrap, L, L2, L3, o
<1>6. ({o} \cup ({} \ {L}) \cup ({L, L2} \ {L, L2})) \ Leaf \subseteq Past
  BY OpdChunk DEF o
<1> QED
  BY <1>5, <1>6, ChunkSame DEF L, L2, L3

LEMMA PayloadChunk ==
  ASSUME ValueTypeOK
  PROVE  Chunk(GetPayload, {Later(1)}, {Opd})
<1>1. Opd \in Nat /\ <<Opd>> \in Seq(Nat) /\ Range(<<Opd>>) = {Opd} /\ Later(1) \in Nat
  BY Operand, Range1, Seq1
<1> QED
  BY <1>1, ChunkWrite DEF GetPayload

LEMMA ErrChunk ==
  ASSUME ValueTypeOK
  PROVE  /\ Chunk(<<Use(<<Opd>>)>>, {}, {Opd})
         /\ Chunk(ErrZero(Later(1)), {Later(1)}, {})
<1>1. Opd \in Nat /\ <<Opd>> \in Seq(Nat) /\ Range(<<Opd>>) = {Opd} /\ Later(1) \in Nat
  BY Operand, Range1, Seq1
<1>2. <<>> \in Seq(Nat) /\ Range(<<>>) = {}
  BY EmptyIn, Range0
<1>3. Chunk(ErrZero(Later(1)), {Later(1)}, {})
  BY <1>1, <1>2, ChunkWrite DEF ErrZero
<1> QED
  BY <1>1, <1>3, ChunkUse

LEMMA ResultChunk ==
  ASSUME ValueTypeOK, NEW d \in Nat, d \notin Leaf
  PROVE  Chunk(StoreResult(d), Leaf \cup {d}, Past) /\ Chunk(StoreThen(d), Leaf \cup {d}, Past)
  BY WriteOpd DEF StoreResult, StoreThen

(* The names a pattern's test and its arm's first instruction write. *)
Tested(pat, n) == IF pat = "wild" THEN {} ELSE {n, n + 1}
Loaded(pat, n) == IF pat = "variant" THEN {n + 2} ELSE {}

LEMMA TestChunk ==
  ASSUME NEW pat, NEW n \in Nat, NEW subj \in Nat, NEW tag \in Nat
  PROVE  /\ Chunk(Test(pat, n, subj, tag), Tested(pat, n), {subj, tag})
         /\ Chunk(ArmStart(pat, n, subj), Loaded(pat, n), {subj})
<1> DEFINE a == IF pat = "lit" THEN <<subj, n>> ELSE <<tag, n>>
<1>1. /\ <<>> \in Seq(Nat) /\ Range(<<>>) = {} /\ a \in Seq(Nat) /\ n + 1 \in Nat /\ n + 2 \in Nat
      /\ <<subj>> \in Seq(Nat) /\ Range(<<subj>>) = {subj}
  BY Few, Range0, Range1
<1>2. Range(a) \subseteq {subj, tag, n}
  <2>1. Range(<<subj, n>>) = {subj, n} /\ Range(<<tag, n>>) = {tag, n}
    BY Range2
  <2> QED
    BY <2>1
<1> HIDE DEF a
<1>3. Chunk(Test(pat, n, subj, tag), Tested(pat, n), {subj, tag})
  <2>1. CASE pat = "wild"
    <3>1. Test(pat, n, subj, tag) = <<>> /\ Tested(pat, n) = {}
      BY <2>1 DEF Test, Tested
    <3>2. Chunk(<<>>, {}, {subj, tag})
      BY ChunkNone, ChunkSame
    <3> QED
      BY <3>1, <3>2
  <2>2. CASE pat # "wild"
    <3>1. PICK m \in Nat : m = n + 1 /\ m # n
      BY <1>1
    <3>2. Chunk(<<Write(n, <<>>), Write(m, a), Use(<<m>>)>>, {n, m}, {} \cup (Range(a) \ {n}))
      BY <1>1, <3>1, TwoChunk
    <3>3. Test(pat, n, subj, tag) = <<Write(n, <<>>), Write(m, a), Use(<<m>>)>>
          /\ Tested(pat, n) = {n, m}
      BY <2>2, <3>1 DEF Test, Tested, a
    <3>4. {} \cup (Range(a) \ {n}) \subseteq {subj, tag}
      BY <1>2
    <3> QED
      BY <3>2, <3>3, <3>4, ChunkSame
  <2> QED
    BY <2>1, <2>2
<1>4. Chunk(ArmStart(pat, n, subj), Loaded(pat, n), {subj})
  <2>1. CASE pat = "variant"
    <3>1. Chunk(<<Write(n + 2, <<subj>>)>>, {n + 2}, {subj})
      <4>1. PICK m \in Nat : m = n + 2
        BY <1>1
      <4>2. Chunk(<<Write(m, <<subj>>)>>, {m}, {subj})
        BY <1>1, <4>1, ChunkWrite
      <4> QED
        BY <4>1, <4>2
    <3> QED
      BY <2>1, <3>1 DEF ArmStart, Loaded
  <2>2. CASE pat # "variant"
    <3>1. Chunk(<<>>, {}, {subj})
      BY ChunkNone, ChunkSame
    <3> QED
      BY <2>2, <3>1 DEF ArmStart, Loaded
  <2> QED
    BY <2>1, <2>2
<1> QED
  BY <1>3, <1>4

(* Behind the operand and its tag, a match tests its first pattern. *)
LEMMA MatchChunk ==
  ASSUME ValueTypeOK, NEW pat
  PROVE  Chunk(OpdCode \o <<Write(Later(1), <<Opd>>)>> \o Test(pat, Later(2), Opd, Later(1)),
               Leaf \cup {Later(1)} \cup Tested(pat, Later(2)), Past)
<1> DEFINE L1 == Later(1)  L2 == Later(2)  o == Opd
           a == OpdCode \o <<Write(L1, <<o>>)>>
<1>1. /\ L1 \in Nat /\ L2 \in Nat /\ L2 = L1 + 1 /\ o \in Nat /\ \A t \in Leaf : t < L1
  BY Fresh
<1>2. Chunk(a, Leaf \cup {L1}, Past)
  <2>1. L1 \notin Leaf
    BY <1>1
  <2> QED
    BY <1>1, <2>1, WriteOpd
<1> HIDE DEF a, L1, L2, o
<1>3. Chunk(Test(pat, L2, o, L1), Tested(pat, L2), {o, L1})
  BY <1>1, TestChunk
<1>4. (Leaf \cup {L1}) \cap Tested(pat, L2) = {}
  BY <1>1 DEF Tested
<1>5. Chunk(a \o Test(pat, L2, o, L1), Leaf \cup {L1} \cup Tested(pat, L2),
            Past \cup ({o, L1} \ (Leaf \cup {L1})))
  BY <1>2, <1>3, <1>4, ChunkMore
<1>6. Past \cup ({o, L1} \ (Leaf \cup {L1})) \subseteq Past
  BY OpdChunk DEF o
<1>7. Chunk(a \o Test(pat, L2, o, L1), Leaf \cup {L1} \cup Tested(pat, L2), Past)
  BY <1>5, <1>6, ChunkSame
<1> QED
  BY <1>7 DEF a, L1, L2, o

LEMMA ReadBackChunk ==
  ASSUME NEW s \in Seq(Nat)
  PROVE  Chunk(ReadBack(s), {}, Range(s))
<1>1. CASE s = <<>>
  <2>1. Range(s) = {}
    BY <1>1, Range0
  <2> QED
    BY <1>1, <2>1, ChunkNone DEF ReadBack
<1>2. CASE s # <<>>
  BY <1>2, ChunkUse DEF ReadBack
<1> QED
  BY <1>1, <1>2

(* The end of a for loop's body. *)
LEMMA StepChunk ==
  ASSUME NEW n \in Nat, NEW i \in Nat, NEW c \in Nat, i < n
  PROVE  Chunk(<<Write(n, <<>>), Write(n + 1, <<c, n>>), Write(i, <<n + 1>>)>>,
               {n, n + 1, i}, {c})
<1>1. PICK m \in Nat : m = n + 1
  OBVIOUS
<1>2. /\ <<>> \in Seq(Nat) /\ <<c, n>> \in Seq(Nat) /\ <<m>> \in Seq(Nat)
      /\ Range(<<>>) = {} /\ Range(<<c, n>>) = {c, n} /\ Range(<<m>>) = {m}
      /\ n # m /\ n # i /\ m # i
  BY <1>1, Few, Range0, Range1, Range2
<1>3. Chunk(<<Write(n, <<>>), Write(m, <<c, n>>), Write(i, <<m>>)>>,
            {n, m, i}, {} \cup ({c, n} \ {n}) \cup ({m} \ {n, m}))
  BY <1>2, ThreeChunk
<1>4. Chunk(<<Write(n, <<>>), Write(m, <<c, n>>), Write(i, <<m>>)>>, {n, m, i}, {c})
  BY <1>3, ChunkSame
<1> QED
  BY <1>1, <1>4

(* The condition of a for loop, on names p, q and r. *)
LEMMA CondChunk ==
  ASSUME NEW p \in Nat, NEW q \in Nat, NEW r \in Nat, p # q, p # r, q # r, NEW i \in Nat, NEW e \in Nat,
         e # p
  PROVE  Chunk(<<Write(p, <<i>>), Write(q, <<e>>), Write(r, <<p, q>>), Use(<<r>>)>>,
               {p, q, r}, {i, e})
<1>1. /\ <<i>> \in Seq(Nat) /\ <<e>> \in Seq(Nat) /\ <<p, q>> \in Seq(Nat)
      /\ Range(<<i>>) = {i} /\ Range(<<e>>) = {e} /\ Range(<<p, q>>) = {p, q}
  BY Few, Range1, Range2
<1>2. Chunk(<<Write(p, <<i>>), Write(q, <<e>>), Write(r, <<p, q>>), Use(<<r>>)>>,
            {p, q, r}, Range(<<i>>) \cup (Range(<<e>>) \ {p}) \cup (Range(<<p, q>>) \ {p, q}))
  BY <1>1, ThreeChunk
<1>3. Range(<<i>>) \cup (Range(<<e>>) \ {p}) \cup (Range(<<p, q>>) \ {p, q}) \subseteq {i, e}
  BY <1>1
<1> QED
  BY <1>2, <1>3, ChunkSame

(* The bodies of the two blocks a for loop over a range finishes.           *)
RangeInit(h) == OpdCode \o <<Write(Later(0), <<h>>), Write(Later(1), <<Opd>>)>>
RangeCond == << Write(Later(2), <<Later(0)>>), Write(Later(3), <<Later(1)>>),
                Write(Later(4), <<Later(2), Later(3)>>), Use(<<Later(4)>>) >>

LEMMA RangeChunks ==
  ASSUME ValueTypeOK, NEW h \in Nat
  PROVE  /\ Chunk(RangeInit(h), Leaf \cup {Later(0), Later(1)}, Past \cup {h})
         /\ Chunk(RangeCond, {Later(2), Later(3), Later(4)}, {Later(0), Later(1)})
         /\ Chunk(<<Use(<<Later(2)>>)>>, {}, {Later(2)})
<1> DEFINE L == Later(0)  L1 == Later(1)  L2 == Later(2)  L3 == Later(3)  L4 == Later(4)  o == Opd
<1>1. /\ L \in Nat /\ L1 = L + 1 /\ L2 = L + 2 /\ L3 = L + 3 /\ L4 = L + 4 /\ o \in Nat
      /\ \A t \in Leaf : t < L
  BY Fresh
<1> HIDE DEF L, L1, L2, L3, L4, o
<1>2. /\ <<h>> \in Seq(Nat) /\ <<o>> \in Seq(Nat) /\ <<L2>> \in Seq(Nat)
      /\ Range(<<h>>) = {h} /\ Range(<<o>>) = {o} /\ Range(<<L2>>) = {L2}
      /\ L1 \in Nat /\ L2 \in Nat /\ L3 \in Nat /\ L4 \in Nat /\ L # L1
      /\ L2 # L3 /\ L2 # L4 /\ L3 # L4 /\ L1 # L2
  BY <1>1, Few, Range1
<1>3. Chunk(<<Write(L, <<h>>), Write(L1, <<o>>)>>, {L, L1}, Range(<<h>>) \cup (Range(<<o>>) \ {L}))
  BY <1>1, <1>2, TwoChunk
<1>4. {L, L1} \cap Leaf = {}
  BY <1>1
<1>5. Chunk(RangeInit(h), Leaf \cup {L, L1}, (Range(<<h>>) \cup (Range(<<o>>) \ {L})) \ Leaf)
  BY <1>3, <1>4, BehindOpd DEF RangeInit, L, L1, o
<1>6. (Range(<<h>>) \cup (Range(<<o>>) \ {L})) \ Leaf \subseteq Past \cup {h}
  BY <1>2, OpdChunk DEF o
<1>7. Chunk(RangeInit(h), Leaf \cup {L, L1}, Past \cup {h})
  BY <1>5, <1>6, ChunkSame
<1>8. Chunk(RangeCond, {L2, L3, L4}, {L, L1})
  BY <1>1, <1>2, CondChunk DEF RangeCond, L, L1, L2, L3, L4
<1>9. Chunk(<<Use(<<L2>>)>>, {}, {L2})
  BY <1>2, ChunkUse
<1> QED
  BY <1>7, <1>8, <1>9 DEF L, L1, L2, L3, L4

(* Those of a for loop over a slice, and how its body begins.               *)
SliceInit == OpdCode \o << Write(Later(1), <<>>), Write(Later(0), <<Later(1)>>),
                           Write(Later(2), <<Opd>>) >>
SliceCond == << Write(Later(3), <<Later(0)>>), Write(Later(4), <<Later(2)>>),
                Write(Later(5), <<Later(3), Later(4)>>), Use(<<Later(5)>>) >>
SliceBody == << Write(Later(6), <<Opd>>), Write(Later(7), <<Later(6), Later(3)>>),
                Use(<<Later(7)>>) >>

LEMMA SliceChunks ==
  ASSUME ValueTypeOK
  PROVE  /\ Chunk(SliceInit, Leaf \cup {Later(0), Later(1), Later(2)}, Past)
         /\ Chunk(SliceCond, {Later(3), Later(4), Later(5)}, {Later(0), Later(2)})
         /\ Chunk(SliceBody, {Later(6), Later(7)}, {Opd, Later(3)})
<1> DEFINE L == Later(0)  L1 == Later(1)  L2 == Later(2)  L3 == Later(3)  L4 == Later(4)
           L5 == Later(5)  L6 == Later(6)  L7 == Later(7)  o == Opd
<1>1. /\ L \in Nat /\ L1 = L + 1 /\ L2 = L + 2 /\ L3 = L + 3 /\ L4 = L + 4 /\ L5 = L + 5
      /\ L6 = L + 6 /\ L7 = L + 7 /\ o \in Nat /\ \A t \in Leaf : t < L
  BY Fresh
<1> HIDE DEF L, L1, L2, L3, L4, L5, L6, L7, o
<1>2. /\ L1 \in Nat /\ L2 \in Nat /\ L3 \in Nat /\ L4 \in Nat /\ L5 \in Nat /\ L6 \in Nat
      /\ L7 \in Nat /\ L # L1 /\ L # L2 /\ L1 # L2 /\ L3 # L4 /\ L3 # L5 /\ L4 # L5 /\ L2 # L3
      /\ L6 # L7 /\ L3 # L6
  BY <1>1
<1>3. /\ <<>> \in Seq(Nat) /\ <<L1>> \in Seq(Nat) /\ <<o>> \in Seq(Nat) /\ <<L6, L3>> \in Seq(Nat)
      /\ Range(<<>>) = {} /\ Range(<<L1>>) = {L1} /\ Range(<<o>>) = {o}
      /\ Range(<<L6, L3>>) = {L6, L3}
  BY <1>1, <1>2, Few, Range0, Range1, Range2
<1>4. Chunk(<<Write(L1, <<>>), Write(L, <<L1>>), Write(L2, <<o>>)>>, {L1, L, L2},
            Range(<<>>) \cup (Range(<<L1>>) \ {L1}) \cup (Range(<<o>>) \ {L1, L}))
  BY <1>1, <1>2, <1>3, ThreeChunk
<1>5. {L1, L, L2} \cap Leaf = {} /\ {L1, L, L2} = {L, L1, L2}
  BY <1>1
<1>6. Chunk(SliceInit, Leaf \cup {L1, L, L2},
            (Range(<<>>) \cup (Range(<<L1>>) \ {L1}) \cup (Range(<<o>>) \ {L1, L})) \ Leaf)
  BY <1>4, <1>5, BehindOpd DEF SliceInit, L, L1, L2, o
<1>7. (Range(<<>>) \cup (Range(<<L1>>) \ {L1}) \cup (Range(<<o>>) \ {L1, L})) \ Leaf \subseteq Past
  BY <1>3, OpdChunk DEF o
<1>8. Leaf \cup {L1, L, L2} = Leaf \cup {L, L1, L2}
  BY <1>5
<1>9. Chunk(SliceInit, Leaf \cup {L, L1, L2}, Past)
  <2> DEFINE X == (Range(<<>>) \cup (Range(<<L1>>) \ {L1}) \cup (Range(<<o>>) \ {L1, L})) \ Leaf
  <2>1. X \subseteq Past
    BY <1>7
  <2>2. Chunk(SliceInit, Leaf \cup {L1, L, L2}, X)
    BY <1>6
  <2> HIDE DEF X
  <2> QED
    BY <2>1, <2>2, <1>8, ChunkSame
<1>10. Chunk(SliceCond, {L3, L4, L5}, {L, L2})
  BY <1>1, <1>2, CondChunk DEF SliceCond, L, L2, L3, L4, L5
<1>11. Chunk(SliceBody, {L6, L7}, {o, L3})
  <2>1. Chunk(<<Write(L6, <<o>>), Write(L7, <<L6, L3>>), Use(<<L7>>)>>, {L6, L7},
              Range(<<o>>) \cup (Range(<<L6, L3>>) \ {L6}))
    BY <1>1, <1>2, <1>3, TwoChunk
  <2>2. Range(<<o>>) \cup (Range(<<L6, L3>>) \ {L6}) \subseteq {o, L3}
    BY <1>3
  <2> QED
    BY <2>1, <2>2, ChunkSame DEF SliceBody, L3, L6, L7, o
<1> QED
  BY <1>9, <1>10, <1>11 DEF L, L1, L2, L3, L4, L5, L6, L7, o

-----------------------------------------------------------------------------
(* Types: one list of names for each open activation, as long as its kind   *)
(* of construct needs it, and one of instructions for each finished block.  *)

Needs(kind) == IF kind = "arm" THEN 3
               ELSE IF kind = "for" THEN 2
               ELSE IF kind \in {"then", "else", "default"} THEN 1 ELSE 0

Fits(kp, st) ==
  kp \in Seq(Seq(Nat)) /\ Len(kp) = Len(st)
  /\ \A i \in 1..Len(st) : Len(kp[i]) >= Needs(st[i].kind)

VInv == ValueTypeOK /\ Fits(keep, stack) /\ Len(code) = Len(blocks)

LEMMA FitsPush ==
  ASSUME NEW kp, NEW st \in Seq(Frame), Fits(kp, st), NEW f \in Frame, NEW ks \in Seq(Nat),
         Len(ks) >= Needs(f.kind)
  PROVE  Fits(Append(kp, ks), Append(st, f))
<1> DEFINE a == Append(kp, ks)  b == Append(st, f)
<1>1. /\ a \in Seq(Seq(Nat)) /\ Len(a) = Len(kp) + 1 /\ Len(b) = Len(st) + 1
      /\ Len(kp) = Len(st) /\ Len(st) \in Nat
      /\ \A i \in 1..Len(st) : a[i] = kp[i] /\ b[i] = st[i]
      /\ a[Len(st) + 1] = ks /\ b[Len(st) + 1] = f
  BY DEF Fits
<1> HIDE DEF a, b
<1>2. \A i \in 1..Len(b) : Len(a[i]) >= Needs(b[i].kind)
  <2> TAKE i \in 1..Len(b)
  <2>1. CASE i \in 1..Len(st)
    BY <1>1, <2>1 DEF Fits
  <2>2. CASE i = Len(st) + 1
    BY <1>1, <2>2
  <2> QED
    BY <1>1, <2>1, <2>2
<1> QED
  BY <1>1, <1>2 DEF Fits, a, b

LEMMA FitsPop ==
  ASSUME NEW kp, NEW st \in Seq(Frame), Fits(kp, st), st # <<>>
  PROVE  Fits(SubSeq(kp, 1, Len(kp) - 1), SubSeq(st, 1, Len(st) - 1))
<1> DEFINE a == SubSeq(kp, 1, Len(kp) - 1)  b == SubSeq(st, 1, Len(st) - 1)
<1>1. Len(kp) = Len(st) /\ kp \in Seq(Seq(Nat)) /\ Len(st) \in Nat \ {0}
  BY DEF Fits
<1>2. /\ a \in Seq(Seq(Nat)) /\ Len(a) = Len(st) - 1 /\ Len(b) = Len(st) - 1
      /\ \A i \in 1..(Len(st) - 1) : a[i] = kp[i] /\ b[i] = st[i]
  BY <1>1
<1> HIDE DEF a, b
<1>3. \A i \in 1..Len(b) : Len(a[i]) >= Needs(b[i].kind)
  <2> TAKE i \in 1..Len(b)
  <2>1. i \in 1..(Len(st) - 1) /\ i \in 1..Len(st)
    BY <1>1, <1>2
  <2>2. a[i] = kp[i] /\ b[i] = st[i] /\ Len(kp[i]) >= Needs(st[i].kind)
    BY <1>2, <2>1 DEF Fits
  <2> QED
    BY <2>2
<1> QED
  BY <1>2, <1>3 DEF Fits, a, b

(* No frame needs more names than it did. *)
LEMMA FitsSame ==
  ASSUME NEW kp, NEW st, Fits(kp, st), NEW new, Len(new) = Len(st),
         \A i \in 1..Len(st) : Needs(new[i].kind) <= Needs(st[i].kind)
  PROVE  Fits(kp, new)
<1>1. \A i \in 1..Len(st) : Len(kp[i]) \in Nat /\ Needs(new[i].kind) \in Nat
                            /\ Needs(st[i].kind) \in Nat
  BY DEF Fits, Needs
<1> QED
  BY <1>1 DEF Fits

LEMMA FitsTop ==
  ASSUME TypeInv, VInv, stack # <<>>
  PROVE  /\ Kept \in Seq(Nat) /\ Len(Kept) >= Needs(Top.kind) /\ Len(keep) = Len(stack)
         /\ Needs(Top.kind) >= 1 => Kept[1] \in Nat
         /\ Needs(Top.kind) >= 2 => Kept[2] \in Nat
         /\ Needs(Top.kind) >= 3 => Kept[3] \in Nat
<1>1. Len(stack) \in 1..Len(stack) /\ Len(keep) = Len(stack) /\ keep \in Seq(Seq(Nat))
  BY DEF TypeInv, TypeOK, VInv, Fits
<1>2. Kept \in Seq(Nat)
  BY <1>1 DEF Kept
<1>3. Len(Kept) >= Needs(Top.kind) /\ Needs(Top.kind) \in Nat
  <2>1. Needs(Top.kind) \in Nat
    BY DEF Needs
  <2>2. Len(keep[Len(keep)]) >= Needs(stack[Len(stack)].kind)
    BY <1>1 DEF VInv, Fits
  <2> QED
    BY <2>1, <2>2 DEF Kept, Top
<1> QED
  BY <1>1, <1>2, <1>3, SMTT(30)

(* One, two and three finished blocks, and what the one begun starts with.  *)
Adds(y, b, s) ==
  blocks' = Append(blocks, b) /\ code' = Append(code, emitted \o y) /\ emitted' = s
Adds2(y, b, y2, b2, s) ==
  /\ blocks' = Append(Append(blocks, b), b2)
  /\ code' = Append(Append(code, emitted \o y), y2) /\ emitted' = s
Adds3(y, b, y2, b2, y3, b3, s) ==
  /\ blocks' = Append(Append(Append(blocks, b), b2), b3)
  /\ code' = Append(Append(Append(code, emitted \o y), y2), y3) /\ emitted' = s

CodeOK == code \in Seq(Seq(Instr)) /\ emitted \in Seq(Instr) /\ Len(code) = Len(blocks)
NamesOK == nextId \in Nat /\ val \in Nat \cup {NoName} /\ held \in Seq([name : Nat, depth : Nat])

LEMMA VInvParts == /\ VInv => CodeOK /\ NamesOK /\ Fits(keep, stack)
                   /\ CodeOK' /\ NamesOK' /\ Fits(keep, stack)' => VInv'
  BY DEF VInv, CodeOK, NamesOK, Fits, ValueTypeOK, Name

LEMMA AddsCode ==
  ASSUME CodeOK, TypeInv, NEW y \in Seq(Instr), NEW b, NEW s \in Seq(Instr), Adds(y, b, s)
  PROVE  CodeOK'
<1>1. blocks \in Seq(Block) /\ emitted \o y \in Seq(Instr)
  BY DEF TypeInv, TypeOK, CodeOK
<1>2. code' \in Seq(Seq(Instr)) /\ Len(code') = Len(code) + 1 /\ Len(blocks') = Len(blocks) + 1
  BY <1>1 DEF CodeOK, Adds
<1> QED
  BY <1>2 DEF CodeOK, Adds

LEMMA AddsCode2 ==
  ASSUME CodeOK, TypeInv, NEW y \in Seq(Instr), NEW b, NEW s \in Seq(Instr), NEW y2 \in Seq(Instr),
         NEW b2, Adds2(y, b, y2, b2, s)
  PROVE  CodeOK'
<1>1. blocks \in Seq(Block) /\ emitted \o y \in Seq(Instr)
  BY DEF TypeInv, TypeOK, CodeOK
<1>2. PICK c, d : c = Append(code, emitted \o y) /\ d = Append(blocks, b)
  OBVIOUS
<1>3. c \in Seq(Seq(Instr)) /\ Len(c) = Len(d)
  BY <1>1, <1>2 DEF CodeOK
<1>4. code' = Append(c, y2) /\ blocks' = Append(d, b2) /\ Len(d) = Len(blocks) + 1
  BY <1>1, <1>2 DEF Adds2
<1>5. code' \in Seq(Seq(Instr)) /\ Len(code') = Len(c) + 1
  BY <1>3, <1>4
<1>6. Len(blocks') = Len(d) + 1
  BY <1>1, <1>2, <1>4
<1> QED
  BY <1>3, <1>5, <1>6 DEF CodeOK, Adds2

LEMMA AddsCode3 ==
  ASSUME CodeOK, TypeInv, NEW y \in Seq(Instr), NEW b, NEW s \in Seq(Instr), NEW y2 \in Seq(Instr),
         NEW b2, NEW y3 \in Seq(Instr), NEW b3, Adds3(y, b, y2, b2, y3, b3, s)
  PROVE  CodeOK'
<1>1. blocks \in Seq(Block) /\ emitted \o y \in Seq(Instr)
  BY DEF TypeInv, TypeOK, CodeOK
<1>2. PICK c, d : c = Append(Append(code, emitted \o y), y2) /\ d = Append(Append(blocks, b), b2)
  OBVIOUS
<1>3. c \in Seq(Seq(Instr)) /\ Len(c) = Len(code) + 2 /\ Len(d) = Len(blocks) + 2
  BY <1>1, <1>2 DEF CodeOK
<1>4. code' = Append(c, y3) /\ blocks' = Append(d, b3)
  BY <1>2 DEF Adds3
<1>5. code' \in Seq(Seq(Instr)) /\ Len(code') = Len(c) + 1
  BY <1>3, <1>4
<1>6. Len(blocks') = Len(d) + 1
  BY <1>1, <1>2, <1>4
<1> QED
  BY <1>3, <1>5, <1>6 DEF CodeOK, Adds3

-----------------------------------------------------------------------------
(* What each action does to the blocks, the instructions and the frames.    *)

LEMMA Adds1Is ==
  ASSUME CodeOK, NEW y \in Seq(Instr), NEW b, NEW s, Blocks(<<y>>, s), blocks' = Append(blocks, b)
  PROVE  Adds(y, b, s)
<1>1. emitted \o y \in Seq(Instr)
  BY DEF CodeOK
<1> QED
  BY <1>1, OneBlock DEF CodeOK, Adds

LEMMA Adds2Is ==
  ASSUME CodeOK, TypeInv, NEW y \in Seq(Instr), NEW y2 \in Seq(Instr), NEW b, NEW b2, NEW s,
         Blocks(<<y, y2>>, s), blocks' = blocks \o <<b, b2>>
  PROVE  Adds2(y, b, y2, b2, s)
<1>1. emitted \o y \in Seq(Instr)
  BY DEF CodeOK
<1>2. code' = Append(Append(code, emitted \o y), y2) /\ emitted' = s
  BY <1>1, TwoBlocks DEF CodeOK
<1>3. blocks \o <<b, b2>> = Append(Append(blocks, b), b2)
  BY DEF TypeInv, TypeOK
<1> QED
  BY <1>2, <1>3 DEF Adds2

LEMMA Adds3Is ==
  ASSUME CodeOK, TypeInv, NEW y \in Seq(Instr), NEW y2 \in Seq(Instr), NEW y3 \in Seq(Instr),
         NEW b, NEW b2, NEW b3, NEW s,
         Blocks(<<y, y2, y3>>, s), blocks' = blocks \o <<b, b2, b3>>
  PROVE  Adds3(y, b, y2, b2, y3, b3, s)
<1>1. emitted \o y \in Seq(Instr)
  BY DEF CodeOK
<1>2. code' = Append(Append(Append(code, emitted \o y), y2), y3) /\ emitted' = s
  BY <1>1, ThreeBlocks DEF CodeOK
<1>3. blocks \o <<b, b2, b3>> = Append(Append(Append(blocks, b), b2), b3)
  BY SMTT(30) DEF TypeInv, TypeOK
<1> QED
  BY <1>2, <1>3 DEF Adds3

(* e.or_return, e.or_panic and e.or_zero. *)
LEMMA OrOpAdds ==
  ASSUME TypeInv, VInv, NEW c, NEW term, NEW to, OrOp(c, term, to),
         NEW err \in Seq(Instr), ValueOrOp(err)
  PROVE  /\ Adds3(Unwrap, Finished("branch", <<nextBlock, nextBlock + 1>>),
                  GetPayload, BB(nextBlock, <<>>, "jump", <<nextBlock + 2>>, live),
                  err, BB(nextBlock + 1, <<>>, term, to, live), <<>>)
         /\ currentLabel' = nextBlock + 2 /\ nextBlock' = nextBlock + 3
         /\ stack' = stack /\ keep' = keep /\ held' = held
         /\ nextId' = Later(4) /\ val' = Later(1) /\ done' = done /\ done = FALSE
         /\ deferred' = deferred /\ loopStack' = loopStack
<1>1. Unwrap \in Seq(Instr) /\ GetPayload \in Seq(Instr) /\ CodeOK
  BY UnwrapChunk, PayloadChunk, VInvParts DEF Chunk, VInv
<1>2. blocks' = blocks \o << Finished("branch", <<nextBlock, nextBlock + 1>>),
                   BB(nextBlock, <<>>, "jump", <<nextBlock + 2>>, live),
                   BB(nextBlock + 1, <<>>, term, to, live) >>
  BY DEF OrOp
<1>3. Adds3(Unwrap, Finished("branch", <<nextBlock, nextBlock + 1>>),
            GetPayload, BB(nextBlock, <<>>, "jump", <<nextBlock + 2>>, live),
            err, BB(nextBlock + 1, <<>>, term, to, live), <<>>)
  BY <1>1, <1>2, Adds3Is DEF ValueOrOp
<1>4. ~done /\ done \in BOOLEAN
  BY DEF OrOp, CanOpen, TypeInv, TypeOK
<1> QED
  BY <1>3, <1>4 DEF OrOp, ValueOrOp, Took, Becomes, Unchanged_fn

LEMMA OrElseAdds ==
  ASSUME TypeInv, VInv, ValueOpenOrElse
  PROVE  /\ Adds2(Unwrap, Finished("branch", <<nextBlock, nextBlock + 1>>),
                  GetPayload, BB(nextBlock, <<>>, "jump", <<nextBlock + 2>>, live), <<>>)
         /\ currentLabel' = nextBlock + 1 /\ nextBlock' = nextBlock + 3
         /\ stack' = Append(stack, NewFrame("default", <<nextBlock + 2>>, NoLabel, live))
         /\ keep' = Append(keep, <<Later(1)>>) /\ held' = held
         /\ nextId' = Later(4) /\ val' = NoName /\ done' = done /\ done = FALSE
         /\ deferred' = deferred /\ loopStack' = loopStack
<1>1. Unwrap \in Seq(Instr) /\ GetPayload \in Seq(Instr) /\ CodeOK
  BY UnwrapChunk, PayloadChunk, VInvParts DEF Chunk, VInv
<1>2. blocks' = blocks \o << Finished("branch", <<nextBlock, nextBlock + 1>>),
                             BB(nextBlock, <<>>, "jump", <<nextBlock + 2>>, live) >>
  BY DEF ValueOpenOrElse, OpenOrElse
<1>3. Adds2(Unwrap, Finished("branch", <<nextBlock, nextBlock + 1>>),
            GetPayload, BB(nextBlock, <<>>, "jump", <<nextBlock + 2>>, live), <<>>)
  BY <1>1, <1>2, Adds2Is DEF ValueOpenOrElse
<1>4. ~done /\ done \in BOOLEAN
  BY DEF ValueOpenOrElse, OpenOrElse, CanOpen, TypeInv, TypeOK
<1> QED
  BY <1>3, <1>4 DEF ValueOpenOrElse, OpenOrElse, Push, Keep, Took, Becomes, Unchanged_fn

LEMMA IfAdds ==
  ASSUME TypeInv, VInv, ValueOpenIf
  PROVE  /\ Adds(OpdCode \o <<Use(<<Opd>>)>>, Finished("branch", <<nextBlock, nextBlock + 1>>), <<>>)
         /\ currentLabel' = nextBlock /\ nextBlock' = nextBlock + 3
         /\ stack' = Append(stack, NewFrame("then", <<nextBlock + 1, nextBlock + 2>>, NoLabel, FALSE))
         /\ keep' = Append(keep, <<Later(0)>>) /\ held' = held
         /\ nextId' = Later(1) /\ val' = NoName /\ done' = done /\ done = FALSE
         /\ deferred' = deferred /\ loopStack' = loopStack
<1>1. OpdCode \o <<Use(<<Opd>>)>> \in Seq(Instr) /\ CodeOK
  BY UseOpd, VInvParts DEF Chunk, VInv
<1>2. blocks' = Append(blocks, Finished("branch", <<nextBlock, nextBlock + 1>>))
  BY DEF ValueOpenIf, OpenIf, Switch
<1>3. Adds(OpdCode \o <<Use(<<Opd>>)>>, Finished("branch", <<nextBlock, nextBlock + 1>>), <<>>)
  BY <1>1, <1>2, Adds1Is DEF ValueOpenIf
<1>4. ~done /\ done \in BOOLEAN
  BY DEF ValueOpenIf, OpenIf, CanOpen, TypeInv, TypeOK
<1> QED
  BY <1>3, <1>4 DEF ValueOpenIf, OpenIf, Switch, Push, Keep, Took, Becomes, Unchanged_fn

(* A frame that keeps its result is there as long as the code needs it. *)
LEMMA ResultThere ==
  ASSUME TypeInv, VInv, NEW kinds, TopIs(kinds), \A k \in kinds : Needs(k) >= 1
  PROVE  /\ Kept[1] \in Nat /\ stack # <<>> /\ Top.kind \in kinds /\ Top \in Frame /\ FrameOK(Top)
         /\ Len(keep) = Len(stack) /\ Len(stack) \in 1..Len(stack)
<1>1. stack # <<>> /\ Top.kind \in kinds
  BY DEF TopIs
<1>2. Len(stack) \in 1..Len(stack) /\ Len(keep) = Len(stack)
  BY <1>1 DEF TypeInv, TypeOK, VInv, Fits
<1>3. Top \in Frame /\ FrameOK(Top)
  BY <1>1, <1>2 DEF Top, TypeInv, TypeOK, Shape, StackOK
<1> QED
  BY <1>1, <1>2, <1>3, FitsTop

LEMMA StoreType ==
  ASSUME ValueTypeOK, NEW d \in Nat
  PROVE  StoreResult(d) \in Seq(Instr) /\ StoreThen(d) = StoreResult(d)
<1>1. Opd \in Nat /\ OpdCode \in Seq(Instr)
  BY Operand
<1>2. <<Write(d, <<Opd>>)>> \in Seq(Instr)
  BY <1>1, Seq1, Instrs
<1> QED
  BY <1>1, <1>2, Joined DEF StoreResult, StoreThen

LEMMA CloseThenAdds ==
  ASSUME TypeInv, VInv, ValueCloseThen
  PROVE  /\ Adds(StoreResult(Kept[1]), Finished("jump", <<Merge(Top)>>), <<>>)
         /\ currentLabel' = Top.todo[1] /\ nextBlock' = nextBlock
         /\ stack' = [stack EXCEPT ![Len(stack)] =
                        [Top EXCEPT !.kind = "else", !.todo = Tail(@), !.exit = live]]
         /\ keep' = keep /\ held' = held
         /\ nextId' = Later(0) /\ val' = NoName /\ done' = done
         /\ deferred' = deferred /\ loopStack' = loopStack
<1>1. TopIs({"then"})
  BY DEF ValueCloseThen, CloseThen
<1>2. Kept[1] \in Nat /\ CodeOK /\ ValueTypeOK
  BY <1>1, ResultThere, VInvParts DEF Needs, VInv
<1>4. StoreResult(Kept[1]) \in Seq(Instr) /\ StoreThen(Kept[1]) = StoreResult(Kept[1])
  BY <1>2, StoreType
<1>5. blocks' = Append(blocks, Finished("jump", <<Merge(Top)>>))
  BY DEF ValueCloseThen, CloseThen, Switch
<1>6. Adds(StoreResult(Kept[1]), Finished("jump", <<Merge(Top)>>), <<>>)
  BY <1>2, <1>4, <1>5, Adds1Is DEF ValueCloseThen
<1> QED
  BY <1>6 DEF ValueCloseThen, CloseThen, Switch, ReplaceTop, Took, Becomes, Unchanged_fn

MatchCode(pat) ==
  OpdCode \o <<Write(Later(1), <<Opd>>)>> \o Test(pat, Later(2), Opd, Later(1))

MatchFrame(n, wild) ==
  [NewFrame("arm", MatchTodo(n), NoLabel, FALSE) EXCEPT !.fall = live /\ ~wild]

LEMMA MatchAdds ==
  ASSUME TypeInv, VInv, NEW n, NEW pat, ValueOpenMatch(n, pat)
  PROVE  /\ Adds(MatchCode(pat),
                 Finished(DispatchTerm(pat = "wild"),
                          DispatchTo(pat = "wild", nextBlock + 1, MatchTodo(n)[1])),
                 ArmStart(pat, Later(2), Opd))
         /\ currentLabel' = nextBlock + 1 /\ nextBlock' = nextBlock + 2 * n
         /\ stack' = Append(stack, MatchFrame(n, pat = "wild"))
         /\ keep' = Append(keep, <<Later(0), Later(1), Opd>>) /\ held' = held
         /\ nextId' = Later(2 + ArmNames(pat)) /\ val' = NoName /\ done' = done /\ done = FALSE
         /\ deferred' = deferred /\ loopStack' = loopStack
         /\ LastArmOK(pat, n = 1)
<1>1. MatchCode(pat) \in Seq(Instr) /\ CodeOK
  BY MatchChunk, VInvParts DEF Chunk, VInv, MatchCode
<1>2. blocks' = Append(blocks, Finished(DispatchTerm(pat = "wild"),
                         DispatchTo(pat = "wild", nextBlock + 1, MatchTodo(n)[1])))
  BY DEF ValueOpenMatch, OpenMatch, Switch
<1>3. Blocks(<<MatchCode(pat)>>, ArmStart(pat, Later(2), Opd))
  BY DEF ValueOpenMatch, MatchCode
<1>4. ~done /\ done \in BOOLEAN
  BY DEF ValueOpenMatch, OpenMatch, CanOpen, TypeInv, TypeOK
<1> QED
  BY <1>1, <1>2, <1>3, <1>4, Adds1Is
     DEF ValueOpenMatch, OpenMatch, Switch, Push, Keep, Took, Becomes, Unchanged_fn, MatchFrame

LEMMA ArmAdds ==
  ASSUME TypeInv, VInv, NEW pat, ValueNextArm(pat)
  PROVE  /\ Adds2(StoreResult(Kept[1]), Finished("jump", <<Merge(Top)>>),
                  Test(pat, Later(0), Kept[3], Kept[2]),
                  BB(Top.todo[1], <<>>, DispatchTerm(pat = "wild"),
                     DispatchTo(pat = "wild", Top.todo[2], Top.todo[3]), Top.fall),
                  ArmStart(pat, Later(0), Kept[3]))
         /\ currentLabel' = Top.todo[2] /\ nextBlock' = nextBlock
         /\ stack' = [stack EXCEPT ![Len(stack)] =
                        [Top EXCEPT !.todo = Tail(Tail(@)), !.exit = @ \/ live,
                                    !.fall = @ /\ ~(pat = "wild")]]
         /\ keep' = keep /\ held' = held
         /\ nextId' = Later(ArmNames(pat)) /\ val' = NoName /\ done' = done
         /\ deferred' = deferred /\ loopStack' = loopStack
         /\ Top.kind = "arm" /\ Len(Top.todo) >= 3 /\ Complete
         /\ LastArmOK(pat, Len(Top.todo) = 3)
<1>1. TopIs({"arm"})
  BY DEF ValueNextArm, NextArm
<1>2. Kept[1] \in Nat /\ CodeOK /\ ValueTypeOK /\ Kept[2] \in Nat /\ Kept[3] \in Nat /\ Top.kind = "arm"
  BY <1>1, ResultThere, FitsTop, VInvParts DEF Needs, VInv
<1>3. Later(0) \in Nat
  BY <1>2, Fresh
<1>4. /\ StoreResult(Kept[1]) \in Seq(Instr)
      /\ Test(pat, Later(0), Kept[3], Kept[2]) \in Seq(Instr)
  <2>1. Chunk(Test(pat, Later(0), Kept[3], Kept[2]), Tested(pat, Later(0)), {Kept[3], Kept[2]})
    BY <1>2, <1>3, TestChunk, Zenon
  <2> QED
    BY <1>2, <2>1, StoreType DEF Chunk
<1>5. blocks' = blocks \o << Finished("jump", <<Merge(Top)>>),
                  BB(Top.todo[1], <<>>, DispatchTerm(pat = "wild"),
                     DispatchTo(pat = "wild", Top.todo[2], Top.todo[3]), Top.fall) >>
  BY DEF ValueNextArm, NextArm
<1>6. Adds2(StoreResult(Kept[1]), Finished("jump", <<Merge(Top)>>),
                  Test(pat, Later(0), Kept[3], Kept[2]),
                  BB(Top.todo[1], <<>>, DispatchTerm(pat = "wild"),
                     DispatchTo(pat = "wild", Top.todo[2], Top.todo[3]), Top.fall),
                  ArmStart(pat, Later(0), Kept[3]))
  BY <1>2, <1>4, <1>5, Adds2Is DEF ValueNextArm
<1> QED
  BY <1>2, <1>6 DEF ValueNextArm, NextArm, ReplaceTop, Took, Becomes, Unchanged_fn

LEMMA CloseExprAdds ==
  ASSUME TypeInv, VInv, ValueCloseExpr
  PROVE  /\ Adds(StoreResult(Kept[1]), Finished("jump", <<Merge(Top)>>), <<>>)
         /\ currentLabel' = Merge(Top) /\ nextBlock' = nextBlock
         /\ stack' = SubSeq(stack, 1, Len(stack) - 1)
         /\ keep' = SubSeq(keep, 1, Len(keep) - 1) /\ held' = held
         /\ nextId' = Later(0) /\ val' = Kept[1] /\ Kept[1] \in Nat /\ done' = done
         /\ deferred' = deferred /\ loopStack' = loopStack
         /\ TopIs({"else", "default", "arm"}) /\ Complete /\ Len(Top.todo) = 1
<1>1. TopIs({"else", "default", "arm"})
  BY DEF ValueCloseExpr, CloseExpr
<1>2. Kept[1] \in Nat /\ CodeOK /\ ValueTypeOK
  BY <1>1, ResultThere, VInvParts DEF Needs, VInv
<1>3. StoreResult(Kept[1]) \in Seq(Instr)
  BY <1>2, StoreType
<1>4. blocks' = Append(blocks, Finished("jump", <<Merge(Top)>>))
  BY DEF ValueCloseExpr, CloseExpr, Switch
<1>5. Adds(StoreResult(Kept[1]), Finished("jump", <<Merge(Top)>>), <<>>)
  BY <1>2, <1>3, <1>4, Adds1Is DEF ValueCloseExpr
<1> QED
  BY <1>1, <1>2, <1>5 DEF ValueCloseExpr, CloseExpr, Switch, Pop, Drop, Took, Becomes, Unchanged_fn

(* A return that does not flush, and the end of one that does.              *)
LEMMA ReturnAdds ==
  ASSUME TypeInv, VInv, NEW names \in Seq(Nat), NEW l, Switch("return", <<>>, l), ReturnBlock(names)
  PROVE  Adds(ReadBack(names), Finished("return", <<>>), <<>>) /\ currentLabel' = l
         /\ val' = NoName /\ nextId' = nextId /\ held' = held
<1>1. ReadBack(names) \in Seq(Instr) /\ CodeOK
  BY ReadBackChunk, VInvParts DEF Chunk, VInv
<1>2. Adds(ReadBack(names), Finished("return", <<>>), <<>>)
  BY <1>1, Adds1Is DEF ReturnBlock, Switch
<1> QED
  BY <1>2 DEF ReturnBlock, Switch, Becomes

LEMMA JumpAdds ==
  ASSUME TypeInv, VInv, NEW b, NEW s, Blocks(<<<<>>>>, s), blocks' = Append(blocks, b)
  PROVE  Adds(<<>>, b, s)
<1>1. <<>> \in Seq(Instr) /\ CodeOK
  BY EmptyIn, VInvParts
<1> QED
  BY <1>1, Adds1Is

LEMMA CondAdds ==
  ASSUME TypeInv, VInv, ValueCloseWhileCond
  PROVE  /\ Adds(OpdCode \o <<Use(<<Opd>>)>>, Finished("branch", Top.todo), <<>>)
         /\ currentLabel' = Top.todo[1] /\ nextBlock' = nextBlock
         /\ stack' = [stack EXCEPT ![Len(stack)] =
                        [Top EXCEPT !.kind = "while", !.todo = Tail(@), !.exit = live]]
         /\ keep' = keep /\ held' = held
         /\ nextId' = Later(0) /\ val' = NoName /\ done' = done
         /\ deferred' = deferred /\ EnterLoop(Merge(Top), Top.head)
         /\ TopIs({"cond"}) /\ Complete
<1>1. OpdCode \o <<Use(<<Opd>>)>> \in Seq(Instr) /\ CodeOK
  BY UseOpd, VInvParts DEF Chunk, VInv
<1>2. blocks' = Append(blocks, Finished("branch", Top.todo))
  BY DEF ValueCloseWhileCond, CloseWhileCond, Switch
<1>3. Adds(OpdCode \o <<Use(<<Opd>>)>>, Finished("branch", Top.todo), <<>>)
  BY <1>1, <1>2, Adds1Is DEF ValueCloseWhileCond
<1> QED
  BY <1>3 DEF ValueCloseWhileCond, CloseWhileCond, Switch, ReplaceTop, Took, Becomes, Unchanged_fn

(* A for loop over a range, whose start h was held, and over a slice.       *)
ForBlocks(y, y2, s) ==
  Adds2(y, BB(currentLabel, Append(instrs, Ev("init", nextBlock)), "jump", <<nextBlock>>, live),
        y2, BB(nextBlock, <<>>, "lt", <<nextBlock + 1, nextBlock + 2>>, live), s)

LEMMA ForAdds ==
  ASSUME TypeInv, VInv, ValueOpenFor
  PROVE  /\ \/ /\ HeldHere /\ held[Len(held)].name \in Nat
               /\ held' = Front(held)
               /\ ForBlocks(RangeInit(held[Len(held)].name), RangeCond, <<Use(<<Later(2)>>)>>)
               /\ keep' = Append(keep, <<Later(0), Later(2)>>) /\ nextId' = Later(5)
            \/ /\ Complete /\ held' = held
               /\ ForBlocks(SliceInit, SliceCond, SliceBody)
               /\ keep' = Append(keep, <<Later(0), Later(3)>>) /\ nextId' = Later(8)
         /\ currentLabel' = nextBlock + 1 /\ nextBlock' = nextBlock + 3
         /\ stack' = Append(stack, NewFrame("for", <<nextBlock + 2>>, nextBlock, live))
         /\ val' = NoName /\ done' = done /\ done = FALSE /\ stack = <<>>
         /\ deferred' = deferred /\ EnterLoop(nextBlock + 2, nextBlock)
<1>1. CodeOK /\ ValueTypeOK
  BY VInvParts DEF VInv
<1>2. blocks' = blocks \o
         << BB(currentLabel, Append(instrs, Ev("init", nextBlock)), "jump", <<nextBlock>>, live),
            BB(nextBlock, <<>>, "lt", <<nextBlock + 1, nextBlock + 2>>, live) >>
  BY DEF ValueOpenFor, OpenFor
<1>3. ~done /\ done \in BOOLEAN
  BY DEF ValueOpenFor, OpenFor, CanOpen, TypeInv, TypeOK
<1>4. ASSUME ForRange
      PROVE  /\ HeldHere /\ held[Len(held)].name \in Nat /\ held' = Front(held)
             /\ ForBlocks(RangeInit(held[Len(held)].name), RangeCond, <<Use(<<Later(2)>>)>>)
             /\ keep' = Append(keep, <<Later(0), Later(2)>>) /\ nextId' = Later(5)
  <2>1. held # <<>> /\ held \in Seq([name : Nat, depth : Nat])
    BY <1>1, <1>4 DEF ForRange, HeldHere, ValueTypeOK, Name
  <2>2. PICK h : h = held[Len(held)].name
    OBVIOUS
  <2>3. h \in Nat
    <3>1. held[Len(held)] \in [name : Nat, depth : Nat]
      BY <2>1, LastIn
    <3> QED
      BY <2>2, <3>1
  <2>4. RangeInit(h) \in Seq(Instr) /\ RangeCond \in Seq(Instr)
    BY <1>1, <2>3, RangeChunks DEF Chunk
  <2>5. Blocks(<<RangeInit(h), RangeCond>>, <<Use(<<Later(2)>>)>>)
    BY <1>4, <2>2 DEF ForRange, RangeInit, RangeCond
  <2>6. ForBlocks(RangeInit(h), RangeCond, <<Use(<<Later(2)>>)>>)
    BY <1>1, <1>2, <2>4, <2>5, Adds2Is DEF ForBlocks
  <2> QED
    BY <1>4, <2>2, <2>3, <2>6 DEF ForRange, Keep, Took
<1>5. ASSUME ForSlice
      PROVE  /\ Complete /\ held' = held
             /\ ForBlocks(SliceInit, SliceCond, SliceBody)
             /\ keep' = Append(keep, <<Later(0), Later(3)>>) /\ nextId' = Later(8)
  <2>1. SliceInit \in Seq(Instr) /\ SliceCond \in Seq(Instr)
    BY <1>1, SliceChunks DEF Chunk
  <2>2. Blocks(<<SliceInit, SliceCond>>, SliceBody)
    BY <1>5 DEF ForSlice, SliceInit, SliceCond, SliceBody
  <2>3. ForBlocks(SliceInit, SliceCond, SliceBody)
    BY <1>1, <1>2, <2>1, <2>2, Adds2Is DEF ForBlocks
  <2> QED
    BY <1>5, <2>3 DEF ForSlice, Keep, Took
<1>6. ForRange \/ ForSlice
  BY DEF ValueOpenFor
<1> QED
  BY <1>3, <1>4, <1>5, <1>6
     DEF ValueOpenFor, OpenFor, AtLoopStmt, Push, Becomes, Unchanged_fn

LEMMA LoopAdds ==
  ASSUME TypeInv, VInv, ValueOpenWhile \/ ValueOpenLoop
  PROVE  /\ Adds(<<>>, Finished("jump", <<nextBlock>>), <<>>)
         /\ currentLabel' = nextBlock
         /\ \/ /\ ValueOpenWhile /\ nextBlock' = nextBlock + 3 /\ loopStack' = loopStack
               /\ stack' = Append(stack, NewFrame("cond", <<nextBlock + 1, nextBlock + 2>>,
                                                  nextBlock, FALSE))
            \/ /\ ValueOpenLoop /\ nextBlock' = nextBlock + 2 /\ EnterLoop(nextBlock + 1, nextBlock)
               /\ stack' = Append(stack, NewFrame("loop", <<nextBlock + 1>>, nextBlock, FALSE))
         /\ keep' = Append(keep, <<>>) /\ held' = held
         /\ nextId' = nextId /\ val' = val /\ val = NoName /\ done' = done /\ done = FALSE
         /\ deferred' = deferred /\ stack = <<>> /\ Complete
<1>1. Blocks(<<<<>>>>, <<>>) /\ blocks' = Append(blocks, Finished("jump", <<nextBlock>>))
  BY DEF ValueOpenWhile, OpenWhile, ValueOpenLoop, OpenLoop, Switch
<1>2. Adds(<<>>, Finished("jump", <<nextBlock>>), <<>>)
  BY <1>1, JumpAdds
<1>3. ~done /\ done \in BOOLEAN /\ stack = <<>>
  BY DEF ValueOpenWhile, OpenWhile, ValueOpenLoop, OpenLoop, CanOpen, TypeInv, TypeOK, AtLoopStmt
<1>4. CASE ValueOpenWhile
  BY <1>2, <1>3, <1>4 DEF ValueOpenWhile, OpenWhile, Switch, Push, Keep, Idle, Unchanged_fn
<1>5. CASE ValueOpenLoop
  BY <1>2, <1>3, <1>5 DEF ValueOpenLoop, OpenLoop, Switch, Push, Keep, Idle, Unchanged_fn
<1> QED
  BY <1>4, <1>5

(* break and continue. *)
LEMMA OutAdds ==
  ASSUME TypeInv, VInv, ValueBreak \/ ValueContinue
  PROVE  \E l : /\ Adds(<<>>, Finished("jump", <<l>>), <<>>)
                /\ loopStack # <<>>
                /\ l \in {loopStack[Len(loopStack)].brk, loopStack[Len(loopStack)].cont}
                /\ currentLabel' = nextBlock /\ nextBlock' = nextBlock + 1
                /\ \/ stack' = stack
                   \/ \E i \in DOMAIN stack : stack' = [stack EXCEPT ![i].exit = @ \/ live]
                /\ keep' = keep /\ held' = held
                /\ nextId' = nextId /\ val' = val /\ val = NoName /\ done' = done /\ done = FALSE
                /\ deferred' = deferred /\ loopStack' = loopStack /\ Complete
<1>1. ~done /\ done \in BOOLEAN
  BY DEF ValueBreak, LowerBreak, ValueContinue, LowerContinue, CanOpen, TypeInv, TypeOK
<1>2. CASE ValueBreak
  <2>1. PICK l : l = loopStack[Len(loopStack)].brk
    OBVIOUS
  <2>2. Blocks(<<<<>>>>, <<>>) /\ blocks' = Append(blocks, Finished("jump", <<l>>))
    BY <1>2, <2>1 DEF ValueBreak, LowerBreak, JumpOut, Switch, JumpBlock
  <2>3. Adds(<<>>, Finished("jump", <<l>>), <<>>)
    BY <2>2, JumpAdds
  <2>4. \E i \in DOMAIN stack : stack' = [stack EXCEPT ![i].exit = @ \/ live]
    BY <1>2 DEF ValueBreak, LowerBreak
  <2> QED
    BY <1>1, <1>2, <2>1, <2>3, <2>4
       DEF ValueBreak, LowerBreak, JumpOut, Switch, JumpBlock, Idle, Unchanged_fn
<1>3. CASE ValueContinue
  <2>1. PICK l : l = loopStack[Len(loopStack)].cont
    OBVIOUS
  <2>2. Blocks(<<<<>>>>, <<>>) /\ blocks' = Append(blocks, Finished("jump", <<l>>))
    BY <1>3, <2>1 DEF ValueContinue, LowerContinue, JumpOut, Switch, JumpBlock
  <2>3. Adds(<<>>, Finished("jump", <<l>>), <<>>)
    BY <2>2, JumpAdds
  <2> QED
    BY <1>1, <1>3, <2>1, <2>3
       DEF ValueContinue, LowerContinue, JumpOut, Switch, JumpBlock, Idle, Unchanged_fn
<1> QED
  BY <1>2, <1>3

LEMMA StepType ==
  ASSUME TypeInv, VInv, stack # <<>>
  PROVE  Step \in Seq(Instr)
<1>1. CASE Top.kind # "for"
  BY <1>1, EmptyIn DEF Step
<1>2. CASE Top.kind = "for"
  <2>1. Kept[1] \in Nat /\ Kept[2] \in Nat /\ nextId \in Nat /\ nextId + 1 \in Nat
    BY <1>2, FitsTop, VInvParts DEF Needs, NamesOK
  <2>2. PICK m \in Nat : m = nextId + 1
    BY <2>1
  <2>3. <<Kept[2], nextId>> \in Seq(Nat) /\ <<m>> \in Seq(Nat) /\ <<>> \in Seq(Nat)
    BY <2>1, <2>2, Few
  <2>4. /\ Write(nextId, <<>>) \in Instr /\ Write(m, <<Kept[2], nextId>>) \in Instr
        /\ Write(Kept[1], <<m>>) \in Instr
    BY <2>1, <2>2, <2>3, Instrs
  <2>5. Step = <<Write(nextId, <<>>), Write(m, <<Kept[2], nextId>>), Write(Kept[1], <<m>>)>>
    BY <1>2, <2>2 DEF Step
  <2> QED
    BY <2>4, <2>5
<1> QED
  BY <1>1, <1>2

LEMMA CloseLoopAdds ==
  ASSUME TypeInv, VInv, ValueCloseLoop
  PROVE  /\ Adds(Step, BB(currentLabel, instrs \o CounterStep(Top), "jump", <<Top.head>>, live), <<>>)
         /\ currentLabel' = Merge(Top) /\ nextBlock' = nextBlock
         /\ stack' = SubSeq(stack, 1, Len(stack) - 1)
         /\ keep' = SubSeq(keep, 1, Len(keep) - 1) /\ held' = held
         /\ nextId' = nextId + (IF Top.kind = "for" THEN 2 ELSE 0)
         /\ val' = val /\ val = NoName /\ done' = done
         /\ deferred' = deferred /\ LeaveLoop
         /\ TopIs(LoopKinds) /\ Complete
<1>1. TopIs(LoopKinds)
  BY DEF ValueCloseLoop, CloseLoop
<1>2. Step \in Seq(Instr) /\ CodeOK
  BY <1>1, StepType, VInvParts DEF TopIs
<1>3. Adds(Step, BB(currentLabel, instrs \o CounterStep(Top), "jump", <<Top.head>>, live), <<>>)
  BY <1>2, Adds1Is DEF ValueCloseLoop, CloseLoop
<1> QED
  BY <1>1, <1>3 DEF ValueCloseLoop, CloseLoop, Pop, Drop, Idle, Unchanged_fn

-----------------------------------------------------------------------------
(* Every step keeps the types.                                              *)

LEMMA FrameIn ==
  ASSUME TypeInv, TypeInv', NEW f, stack' = Append(stack, f)
  PROVE  f \in Frame
<1>1. stack \in Seq(Frame) /\ stack' \in Seq(Frame)
  BY DEF TypeInv, TypeOK
<1>2. Len(stack) + 1 \in DOMAIN stack' /\ stack'[Len(stack) + 1] = f
  BY <1>1
<1>3. stack'[Len(stack) + 1] \in Frame
  BY <1>1, <1>2
<1> QED
  BY <1>2, <1>3

(* A frame on top, with the names it needs. *)
Pushes(f, ks) ==
  /\ stack' = Append(stack, f) /\ keep' = Append(keep, ks)
  /\ ks \in Seq(Nat) /\ Len(ks) >= Needs(f.kind)

LEMMA KeepPush ==
  ASSUME TypeInv, TypeInv', VInv, NEW f, NEW ks, Pushes(f, ks)
  PROVE  Fits(keep, stack)'
<1>1. f \in Frame /\ stack \in Seq(Frame)
  BY FrameIn DEF TypeInv, TypeOK, Pushes
<1>2. Fits(Append(keep, ks), Append(stack, f))
  BY <1>1, FitsPush DEF VInv, Pushes
<1> QED
  BY <1>2 DEF Pushes

LEMMA FewNames ==
  ASSUME NEW x \in Nat, NEW y \in Nat, NEW z \in Nat
  PROVE  /\ <<>> \in Seq(Nat) /\ <<x>> \in Seq(Nat) /\ <<x, y>> \in Seq(Nat)
         /\ <<x, y, z>> \in Seq(Nat)
         /\ Len(<<x>>) = 1 /\ Len(<<x, y>>) = 2 /\ Len(<<x, y, z>>) = 3
         /\ <<x>>[1] = x /\ <<x, y>>[1] = x /\ <<x, y>>[2] = y
         /\ <<x, y, z>>[1] = x /\ <<x, y, z>>[2] = y /\ <<x, y, z>>[3] = z
  OBVIOUS

LEMMA KeepPop ==
  ASSUME TypeInv, VInv, stack # <<>>, stack' = SubSeq(stack, 1, Len(stack) - 1),
         keep' = SubSeq(keep, 1, Len(keep) - 1)
  PROVE  Fits(keep, stack)'
<1>1. stack \in Seq(Frame)
  BY DEF TypeInv, TypeOK
<1>2. Fits(SubSeq(keep, 1, Len(keep) - 1), SubSeq(stack, 1, Len(stack) - 1))
  BY <1>1, FitsPop DEF VInv
<1> QED
  BY <1>2

(* The frame on top is replaced. *)
TopBecomes(f) == stack' = [stack EXCEPT ![Len(stack)] = f]

LEMMA KeepTop ==
  ASSUME TypeInv, VInv, stack # <<>>, keep' = keep, NEW f, Needs(f.kind) <= Needs(Top.kind),
         TopBecomes(f)
  PROVE  Fits(keep, stack)'
<1>1. stack \in Seq(Frame) /\ Len(stack) \in 1..Len(stack) /\ Len(stack) \in Nat
  BY DEF TypeInv, TypeOK
<1>2. Len(stack') = Len(stack) /\ \A i \in 1..Len(stack) : i # Len(stack) => stack'[i] = stack[i]
  BY <1>1 DEF TopBecomes
<1>3. stack'[Len(stack)] = f
  BY <1>1 DEF TopBecomes
<1>4. ASSUME NEW i \in 1..Len(stack) PROVE Needs(stack'[i].kind) <= Needs(stack[i].kind)
  <2>1. CASE i = Len(stack)
    BY <1>3, <2>1 DEF Top
  <2>2. CASE i # Len(stack)
    <3>1. PICK k : k = stack[i].kind
      OBVIOUS
    <3>2. stack'[i].kind = k
      BY <1>2, <2>2, <3>1
    <3>3. Needs(k) \in Nat
      BY DEF Needs
    <3> QED
      BY <3>1, <3>2, <3>3
  <2> QED
    BY <2>1, <2>2
<1>5. Fits(keep, stack')
  BY <1>2, <1>4, FitsSame DEF VInv
<1> QED
  BY <1>5

LEMMA KeepSame ==
  ASSUME TypeInv, VInv, keep' = keep,
         stack' = stack \/ \E i \in DOMAIN stack : stack' = [stack EXCEPT ![i].exit = @ \/ live]
  PROVE  Fits(keep, stack)'
<1>1. stack \in Seq(Frame)
  BY DEF TypeInv, TypeOK
<1>2. CASE stack' = stack
  BY <1>2 DEF VInv, Fits
<1>3. ASSUME NEW i \in DOMAIN stack, stack' = [stack EXCEPT ![i].exit = @ \/ live]
      PROVE  Fits(keep, stack)'
  <2>1. Len(stack') = Len(stack) /\ \A j \in 1..Len(stack) : j # i => stack'[j] = stack[j]
    BY <1>1, <1>3
  <2>2. stack'[i] = [stack[i] EXCEPT !.exit = @ \/ live] /\ stack[i] \in Frame
    BY <1>1, <1>3
  <2>3. stack'[i].kind = stack[i].kind
    BY <2>2 DEF Frame
  <2>4. \A j \in 1..Len(stack) : Needs(stack'[j].kind) <= Needs(stack[j].kind)
    BY <2>1, <2>3 DEF Needs
  <2>5. Fits(keep, stack')
    BY <2>1, <2>4, FitsSame DEF VInv
  <2> QED
    BY <2>5
<1> QED
  BY <1>2, <1>3

LEMMA HeldMore ==
  ASSUME VInv, TypeInv, NEW n \in Nat, held' = Append(held, [name |-> n, depth |-> Len(stack)])
  PROVE  held' \in Seq([name : Nat, depth : Nat])
<1>1. [name |-> n, depth |-> Len(stack)] \in [name : Nat, depth : Nat]
  BY DEF TypeInv, TypeOK
<1> QED
  BY <1>1, VInvParts DEF NamesOK

LEMMA FrontIn ==
  ASSUME NEW S, NEW s \in Seq(S), s # <<>>
  PROVE  Front(s) \in Seq(S) /\ Len(Front(s)) = Len(s) - 1
         /\ \A i \in 1..(Len(s) - 1) : Front(s)[i] = s[i]
<1>1. Len(s) \in Nat \ {0}
  OBVIOUS
<1>2. Front(s) = SubSeq(s, 1, Len(s) - 1)
  BY DEF Front
<1>3. PICK n \in Nat : n = Len(s) - 1
  BY <1>1
<1>4. SubSeq(s, 1, n) \in Seq(S) /\ Len(SubSeq(s, 1, n)) = n /\ \A i \in 1..n : SubSeq(s, 1, n)[i] = s[i]
  BY <1>1, <1>3
<1> QED
  BY <1>2, <1>3, <1>4

LEMMA HeldLess ==
  ASSUME VInv, HeldHere
  PROVE  /\ Front(held) \in Seq([name : Nat, depth : Nat])
         /\ held[Len(held)].name \in Nat /\ Len(held) \in DOMAIN held
<1>1. held \in Seq([name : Nat, depth : Nat]) /\ held # <<>>
  BY VInvParts DEF NamesOK, HeldHere
<1>2. held[Len(held)] \in [name : Nat, depth : Nat] /\ Len(held) \in DOMAIN held
  BY <1>1, LastIn
<1>4. Front(held) \in Seq([name : Nat, depth : Nat])
  BY <1>1, FrontIn
<1> QED
  BY <1>2, <1>4

LEMMA SameCode ==
  ASSUME VInv, blocks' = blocks, code' = code, emitted' \in Seq(Instr)
  PROVE  CodeOK'
  BY VInvParts DEF CodeOK

LEMMA OrOpTypes ==
  ASSUME TypeInv, VInv, NEW c, NEW term, NEW to, OrOp(c, term, to), NEW err \in Seq(Instr),
         ValueOrOp(err)
  PROVE  VInv'
<1>1. Unwrap \in Seq(Instr) /\ GetPayload \in Seq(Instr) /\ <<>> \in Seq(Instr)
  BY UnwrapChunk, PayloadChunk, EmptyIn DEF Chunk, VInv
<1>2. CodeOK'
  BY <1>1, OrOpAdds, AddsCode3, VInvParts
<1>3. NamesOK'
  <2>1. Later(1) \in Nat /\ Later(4) \in Nat
    BY Operand DEF VInv
  <2> QED
    BY <2>1, OrOpAdds, VInvParts DEF NamesOK
<1>4. Fits(keep, stack)'
  BY OrOpAdds, KeepSame
<1> QED
  BY <1>2, <1>3, <1>4, VInvParts

LEMMA ExprTypes ==
  ASSUME TypeInv, TypeInv', VInv, ValueExpr
  PROVE  VInv'
<1> USE DEF VInv
<1>0. /\ CodeOK /\ NamesOK /\ Fits(keep, stack) /\ OpdCode \in Seq(Instr) /\ Opd \in Nat
      /\ <<>> \in Seq(Instr) /\ stack \in Seq(Frame)
      /\ Later(0) \in Nat /\ Later(1) \in Nat /\ Later(2) \in Nat /\ Later(4) \in Nat
  BY VInvParts, Operand, EmptyIn DEF TypeInv, TypeOK
<1> HIDE DEF VInv
<1>1. ASSUME HoldLeft PROVE VInv'
  <2>1. emitted \in Seq(Instr) /\ emitted' = emitted \o OpdCode
    BY <1>0, <1>1 DEF CodeOK, HoldLeft
  <2>2. emitted' \in Seq(Instr)
    BY <1>0, <2>1, Joined
  <2>3. blocks' = blocks /\ code' = code /\ stack' = stack /\ keep' = keep
    BY <1>1 DEF HoldLeft, vars
  <2>4. CodeOK'
    BY <2>2, <2>3, SameCode
  <2>5. held' \in Seq([name : Nat, depth : Nat])
    BY <1>0, <1>1, HeldMore DEF HoldLeft
  <2>6. NamesOK'
    BY <1>0, <1>1, <2>5 DEF HoldLeft, NamesOK, Took, Becomes
  <2>7. Fits(keep, stack)'
    BY <2>3, KeepSame
  <2> QED
    BY <2>4, <2>6, <2>7, VInvParts
<1>2. ASSUME Operate PROVE VInv'
  <2>1. held[Len(held)].name \in Nat /\ Front(held) \in Seq([name : Nat, depth : Nat])
    BY <1>2, HeldLess DEF Operate
  <2>2. PICK h \in Nat : h = held[Len(held)].name
    BY <2>1
  <2>3. <<Write(Later(0), <<h, Opd>>)>> \in Seq(Instr)
    BY <1>0, Instrs, Seq1, Seq2
  <2>4. emitted' = emitted \o OpdCode \o <<Write(Later(0), <<h, Opd>>)>> /\ emitted \in Seq(Instr)
    BY <1>0, <1>2, <2>2 DEF Operate, CodeOK
  <2>5. emitted' \in Seq(Instr)
    BY <1>0, <2>3, <2>4, Joined
  <2>6. blocks' = blocks /\ code' = code /\ stack' = stack /\ keep' = keep
    BY <1>2 DEF Operate, vars
  <2>7. CodeOK'
    BY <2>5, <2>6, SameCode
  <2>8. NamesOK'
    BY <1>0, <1>2, <2>1 DEF Operate, NamesOK, Took, Becomes
  <2>9. Fits(keep, stack)'
    BY <2>6, KeepSame
  <2> QED
    BY <2>7, <2>8, <2>9, VInvParts
<1>3. ASSUME ValueOrReturn PROVE VInv'
  BY <1>3, ErrChunk, OrOpTypes DEF ValueOrReturn, OrReturn, Chunk, VInv
<1>4. ASSUME ValueOrPanic PROVE VInv'
  BY <1>0, <1>4, OrOpTypes DEF ValueOrPanic, OrPanic
<1>5. ASSUME ValueOrZero PROVE VInv'
  BY <1>5, ErrChunk, OrOpTypes DEF ValueOrZero, OrZero, Chunk, VInv
<1>6. ASSUME ValueOpenOrElse PROVE VInv'
  <2>1. Unwrap \in Seq(Instr) /\ GetPayload \in Seq(Instr)
    BY UnwrapChunk, PayloadChunk DEF Chunk, VInv
  <2>2. CodeOK'
    BY <1>0, <1>6, <2>1, OrElseAdds, AddsCode2
  <2>3. NamesOK'
    BY <1>0, <1>6, OrElseAdds DEF NamesOK
  <2>4. <<Later(1)>> \in Seq(Nat) /\ Len(<<Later(1)>>) = 1
    BY <1>0, FewNames
  <2>5. Fits(keep, stack)'
    <3>1. PICK f : f = NewFrame("default", <<nextBlock + 2>>, NoLabel, live)
      OBVIOUS
    <3>2. Needs(f.kind) = 1
      BY <3>1 DEF Needs, NewFrame
    <3>3. Pushes(f, <<Later(1)>>)
      BY <1>6, <2>4, <3>1, <3>2, OrElseAdds DEF Pushes
    <3> QED
      BY <3>3, KeepPush
  <2> QED
    BY <2>2, <2>3, <2>5, VInvParts
<1>7. ASSUME ValueOpenIf PROVE VInv'
  <2>1. OpdCode \o <<Use(<<Opd>>)>> \in Seq(Instr)
    BY UseOpd DEF Chunk, VInv
  <2>2. CodeOK'
    BY <1>0, <1>7, <2>1, IfAdds, AddsCode
  <2>3. NamesOK'
    BY <1>0, <1>7, IfAdds DEF NamesOK
  <2>4. <<Later(0)>> \in Seq(Nat) /\ Len(<<Later(0)>>) = 1
    BY <1>0, FewNames
  <2>5. Fits(keep, stack)'
    <3>1. PICK f : f = NewFrame("then", <<nextBlock + 1, nextBlock + 2>>, NoLabel, FALSE)
      OBVIOUS
    <3>2. Needs(f.kind) = 1
      BY <3>1 DEF Needs, NewFrame
    <3>3. Pushes(f, <<Later(0)>>)
      <4>1. stack' = Append(stack, f) /\ keep' = Append(keep, <<Later(0)>>)
        BY <1>7, <3>1, IfAdds, Zenon
      <4> QED
        BY <2>4, <3>2, <4>1 DEF Pushes
    <3> QED
      BY <3>3, KeepPush
  <2> QED
    BY <2>2, <2>3, <2>5, VInvParts
<1>8. ASSUME ValueCloseThen PROVE VInv'
  <2>1. TopIs({"then"})
    BY <1>8 DEF ValueCloseThen, CloseThen
  <2>2. Kept[1] \in Nat /\ stack # <<>> /\ Top.kind = "then" /\ Top \in Frame
    BY <2>1, ResultThere DEF Needs
  <2>3. StoreResult(Kept[1]) \in Seq(Instr)
    BY <2>2, StoreType DEF VInv
  <2>4. CodeOK'
    BY <1>0, <1>8, <2>3, CloseThenAdds, AddsCode
  <2>5. NamesOK'
    BY <1>0, <1>8, CloseThenAdds DEF NamesOK
  <2>6. PICK f : f = [Top EXCEPT !.kind = "else", !.todo = Tail(@), !.exit = live]
    OBVIOUS
  <2>7. f.kind = "else"
    BY <2>2, <2>6 DEF Frame
  <2>8. Needs(f.kind) <= Needs(Top.kind)
    BY <2>2, <2>7 DEF Needs
  <2>9. Fits(keep, stack)'
    BY <1>8, <2>2, <2>6, <2>8, CloseThenAdds, KeepTop DEF TopBecomes
  <2> QED
    BY <2>4, <2>5, <2>9, VInvParts
<1>9. ASSUME NEW n \in 1..MaxArms, NEW pat \in Patterns, ValueOpenMatch(n, pat) PROVE VInv'
  <2>1. MatchCode(pat) \in Seq(Instr)
    BY MatchChunk DEF Chunk, VInv, MatchCode
  <2>2. ArmStart(pat, Later(2), Opd) \in Seq(Instr)
    BY <1>0, TestChunk DEF Chunk
  <2>3. CodeOK'
    BY <1>0, <1>9, <2>1, <2>2, MatchAdds, AddsCode
  <2>4. Later(2 + ArmNames(pat)) \in Nat
    BY <1>0 DEF Later, ArmNames, NamesOK
  <2>5. NamesOK'
    <3>1. nextId' = Later(2 + ArmNames(pat)) /\ val' = NoName /\ held' = held
      BY <1>9, MatchAdds, Zenon
    <3> QED
      BY <1>0, <2>4, <3>1 DEF NamesOK
  <2>6. <<Later(0), Later(1), Opd>> \in Seq(Nat) /\ Len(<<Later(0), Later(1), Opd>>) = 3
    BY <1>0, FewNames
  <2>7. Fits(keep, stack)'
    <3>1. PICK f : f = MatchFrame(n, pat = "wild")
      OBVIOUS
    <3>2. Needs(f.kind) = 3
      BY <3>1 DEF Needs, NewFrame, MatchFrame
    <3>3. stack' = Append(stack, f) /\ keep' = Append(keep, <<Later(0), Later(1), Opd>>)
      BY <1>9, <3>1, MatchAdds, Zenon
    <3>4. Pushes(f, <<Later(0), Later(1), Opd>>)
      BY <2>6, <3>2, <3>3 DEF Pushes
    <3> QED
      BY <3>4, KeepPush
  <2> QED
    BY <2>3, <2>5, <2>7, VInvParts
<1>10. ASSUME NEW pat \in Patterns, ValueNextArm(pat) PROVE VInv'
  <2>1. TopIs({"arm"})
    BY <1>10 DEF ValueNextArm, NextArm
  <2>2. /\ Kept[1] \in Nat /\ stack # <<>> /\ Top.kind = "arm" /\ Top \in Frame
        /\ Kept[2] \in Nat /\ Kept[3] \in Nat
    BY <2>1, ResultThere, FitsTop DEF Needs
  <2>3. StoreResult(Kept[1]) \in Seq(Instr)
    BY <2>2, StoreType DEF VInv
  <2>4. Test(pat, Later(0), Kept[3], Kept[2]) \in Seq(Instr)
    <3>1. Chunk(Test(pat, Later(0), Kept[3], Kept[2]), Tested(pat, Later(0)), {Kept[3], Kept[2]})
      BY <1>0, <2>2, TestChunk, Zenon
    <3> QED
      BY <3>1 DEF Chunk
  <2>5. ArmStart(pat, Later(0), Kept[3]) \in Seq(Instr)
    <3>1. Chunk(ArmStart(pat, Later(0), Kept[3]), Loaded(pat, Later(0)), {Kept[3]})
      BY <1>0, <2>2, TestChunk
    <3> QED
      BY <3>1 DEF Chunk
  <2>6. CodeOK'
    BY <1>0, <1>10, <2>3, <2>4, <2>5, ArmAdds, AddsCode2
  <2>7. Later(ArmNames(pat)) \in Nat
    BY <1>0 DEF Later, ArmNames, NamesOK
  <2>8. NamesOK'
    BY <1>0, <1>10, <2>7, ArmAdds DEF NamesOK
  <2>9. PICK f : f = [Top EXCEPT !.todo = Tail(Tail(@)), !.exit = @ \/ live,
                                 !.fall = @ /\ ~(pat = "wild")]
    OBVIOUS
  <2>10. f.kind = Top.kind
    BY <2>2, <2>9 DEF Frame
  <2>11. Needs(f.kind) <= Needs(Top.kind)
    BY <2>10 DEF Needs
  <2>12. Fits(keep, stack)'
    <3>1. TopBecomes(f) /\ keep' = keep
      BY <1>10, <2>9, ArmAdds, Zenon DEF TopBecomes
    <3> QED
      BY <2>2, <2>11, <3>1, KeepTop
  <2> QED
    BY <2>6, <2>8, <2>12, VInvParts
<1>11. ASSUME ValueCloseExpr PROVE VInv'
  <2>1. Kept[1] \in Nat /\ stack # <<>>
    BY <1>11, CloseExprAdds DEF TopIs
  <2>2. StoreResult(Kept[1]) \in Seq(Instr)
    BY <2>1, StoreType DEF VInv
  <2>3. CodeOK'
    BY <1>0, <1>11, <2>2, CloseExprAdds, AddsCode
  <2>4. NamesOK'
    BY <1>0, <1>11, <2>1, CloseExprAdds DEF NamesOK
  <2>5. Fits(keep, stack)'
    BY <1>11, <2>1, CloseExprAdds, KeepPop
  <2> QED
    BY <2>3, <2>4, <2>5, VInvParts
<1>12. ASSUME ValueEmptyMatch PROVE VInv'
  <2>1. <<Write(Later(1), <<Opd>>)>> \in Seq(Instr)
    BY <1>0, Instrs, Seq1
  <2>2. emitted' = emitted \o OpdCode \o <<Write(Later(1), <<Opd>>)>> /\ emitted \in Seq(Instr)
    BY <1>0, <1>12 DEF ValueEmptyMatch, CodeOK
  <2>3. emitted' \in Seq(Instr)
    BY <1>0, <2>1, <2>2, Joined
  <2>4. blocks' = blocks /\ code' = code /\ stack' = stack /\ keep' = keep
    BY <1>12 DEF ValueEmptyMatch, EmptyMatch
  <2>5. CodeOK'
    BY <2>3, <2>4, SameCode
  <2>6. NamesOK'
    BY <1>0, <1>12 DEF ValueEmptyMatch, NamesOK, Took, Becomes
  <2>7. Fits(keep, stack)'
    BY <2>4, KeepSame
  <2> QED
    BY <2>5, <2>6, <2>7, VInvParts
<1> QED
  BY <1>1, <1>2, <1>3, <1>4, <1>5, <1>6, <1>7, <1>8, <1>9, <1>10, <1>11, <1>12 DEF ValueExpr

(* A return's value: nothing or one name. *)
LEMMA ReturnedType == VInv => Returned \in Seq(Nat)
<1>1. ASSUME VInv PROVE <<>> \in Seq(Nat) /\ val \in Nat \cup {NoName}
  BY <1>1, EmptyIn, VInvParts DEF NamesOK
<1> QED
  BY <1>1, Seq1 DEF Returned, IsLeaf

LEMMA FlushTypes ==
  ASSUME TypeInv, VInv, NEW kind \in FlushKinds, BeginFlush(kind), BeginValueFlush, TypeInv',
         blocks' = blocks
  PROVE  VInv'
<1>1. CodeOK'
  BY SameCode, VInvParts DEF BeginValueFlush, CodeOK
<1>2. NamesOK'
  BY VInvParts DEF BeginValueFlush, NamesOK, Becomes
<1>3. Fits(keep, stack)'
  <2>1. PICK f : f = [NewFrame(kind, <<>>, NoLabel, FALSE) EXCEPT !.rest = Reverse(Front(deferred))]
    OBVIOUS
  <2>2. f.kind = kind
    BY <2>1 DEF NewFrame
  <2>3. Needs(f.kind) = 0 /\ Len(Returned) \in Nat /\ Returned \in Seq(Nat)
    BY <2>2, ReturnedType DEF FlushKinds, Needs
  <2>4. stack' = Append(stack, f) /\ keep' = Append(keep, Returned)
    BY <2>1, Zenon DEF BeginFlush, Push, BeginValueFlush, Keep
  <2>5. Pushes(f, Returned)
    BY <2>3, <2>4 DEF Pushes
  <2> QED
    BY <2>5, KeepPush
<1> QED
  BY <1>1, <1>2, <1>3, VInvParts

(* A return's block is finished: nothing is computed, nothing is kept.      *)
LEMMA ReturnTypes ==
  ASSUME TypeInv, VInv, NEW names \in Seq(Nat), NEW l, Switch("return", <<>>, l),
         ReturnBlock(names)
  PROVE  CodeOK' /\ NamesOK'
<1>1. ReadBack(names) \in Seq(Instr) /\ <<>> \in Seq(Instr) /\ CodeOK
  BY ReadBackChunk, EmptyIn, VInvParts DEF Chunk
<1>2. Adds(ReadBack(names), Finished("return", <<>>), <<>>)
      /\ val' = NoName /\ nextId' = nextId /\ held' = held
  BY ReturnAdds
<1>3. CodeOK'
  BY <1>1, <1>2, AddsCode
<1>4. NamesOK'
  BY <1>2, VInvParts DEF NamesOK
<1> QED
  BY <1>3, <1>4

LEMMA StmtTypes ==
  ASSUME TypeInv, TypeInv', VInv, ValueStmt
  PROVE  VInv'
<1>0. /\ CodeOK /\ NamesOK /\ Fits(keep, stack) /\ <<>> \in Seq(Instr) /\ <<>> \in Seq(Nat)
      /\ stack \in Seq(Frame) /\ Returned \in Seq(Nat)
  BY VInvParts, EmptyIn, ReturnedType DEF TypeInv, TypeOK
<1>1. ASSUME StoreValue PROVE VInv'
  <2>1. val \in Nat /\ emitted \in Seq(Instr)
    BY <1>0, <1>1 DEF StoreValue, NamesOK, CodeOK
  <2>2. Use(<<val>>) \in Instr
    BY <2>1, Instrs, Seq1
  <2>3. emitted' \in Seq(Instr)
    BY <1>1, <2>1, <2>2 DEF StoreValue
  <2>4. blocks' = blocks /\ code' = code /\ stack' = stack /\ keep' = keep
    BY <1>1 DEF StoreValue, vars
  <2>5. CodeOK'
    BY <2>3, <2>4, SameCode
  <2>6. NamesOK'
    BY <1>0, <1>1 DEF StoreValue, NamesOK, Becomes
  <2>7. Fits(keep, stack)'
    BY <2>4, KeepSame
  <2> QED
    BY <2>5, <2>6, <2>7, VInvParts
<1>2. ASSUME ValueDefer PROVE VInv'
  <2>1. UNCHANGED <<blocks, code, emitted, keep, stack, nextId, val, held>>
    BY <1>2 DEF ValueDefer, LowerDefer, nameVars
  <2> QED
    BY <2>1 DEF VInv, ValueTypeOK, Fits
<1>3. ASSUME ValueReturn PROVE VInv'
  <2>1. CASE deferred = <<>>
    <3>1. /\ Switch("return", <<>>, nextBlock) /\ ReturnBlock(Returned)
          /\ stack' = stack /\ keep' = keep
      BY <1>3, <2>1 DEF ValueReturn, LowerReturn, FinishReturn
    <3>2. CodeOK' /\ NamesOK'
      BY <1>0, <3>1, ReturnTypes
    <3>3. Fits(keep, stack)'
      BY <3>1, KeepSame
    <3> QED
      BY <3>2, <3>3, VInvParts
  <2>2. CASE deferred # <<>>
    <3>1. BeginFlush("flush_return") /\ BeginValueFlush /\ blocks' = blocks
      BY <1>3, <2>2 DEF ValueReturn, LowerReturn
    <3> QED
      BY <3>1, FlushTypes DEF FlushKinds
  <2> QED
    BY <2>1, <2>2
<1>4. ASSUME ValueFlushNext PROVE VInv'
  <2>1. TopIs(FlushKinds)
    BY <1>4 DEF ValueFlushNext, FlushNext
  <2>2. stack # <<>> /\ Top \in Frame
    BY <1>0, <2>1, LastIn DEF TopIs, Top
  <2>3. PICK f : f = [Top EXCEPT !.rest = Tail(@)]
    OBVIOUS
  <2>4. f.kind = Top.kind
    BY <2>2, <2>3 DEF Frame
  <2>5. Needs(f.kind) <= Needs(Top.kind)
    BY <2>4 DEF Needs
  <2>6. stack' = [stack EXCEPT ![Len(stack)] = f] /\ keep' = keep
    BY <1>4, <2>3 DEF ValueFlushNext, FlushNext, ReplaceTop
  <2>7. Fits(keep, stack)'
    BY <2>2, <2>5, <2>6, KeepTop DEF TopBecomes
  <2>8. blocks' = blocks /\ code' = code /\ emitted' = emitted
    BY <1>4 DEF ValueFlushNext, FlushNext
  <2>9. CodeOK'
    BY <1>0, <2>8, SameCode DEF CodeOK
  <2>10. NamesOK'
    BY <1>0, <1>4 DEF ValueFlushNext, NamesOK, Becomes
  <2> QED
    BY <2>7, <2>9, <2>10, VInvParts
<1>5. ASSUME ValueEndFlushReturn PROVE VInv'
  <2>1. TopIs({"flush_return"}) /\ Switch("return", <<>>, nextBlock) /\ ReturnBlock(Kept)
        /\ stack' = SubSeq(stack, 1, Len(stack) - 1) /\ keep' = SubSeq(keep, 1, Len(keep) - 1)
    BY <1>5 DEF ValueEndFlushReturn, EndFlushReturn, FinishReturn, Pop, Drop
  <2>2. stack # <<>> /\ Kept \in Seq(Nat)
    BY <2>1, FitsTop DEF TopIs
  <2>3. CodeOK' /\ NamesOK'
    BY <2>1, <2>2, ReturnTypes
  <2>4. Fits(keep, stack)'
    BY <2>1, <2>2, KeepPop
  <2> QED
    BY <2>3, <2>4, VInvParts
<1>6. ASSUME ValueBreak \/ ValueContinue PROVE VInv'
  <2>1. PICK l : /\ Adds(<<>>, Finished("jump", <<l>>), <<>>)
                 /\ \/ stack' = stack
                    \/ \E i \in DOMAIN stack : stack' = [stack EXCEPT ![i].exit = @ \/ live]
                 /\ keep' = keep /\ held' = held
                 /\ nextId' = nextId /\ val' = val
    BY <1>6, OutAdds
  <2>2. CodeOK'
    BY <1>0, <2>1, AddsCode
  <2>3. NamesOK'
    BY <1>0, <2>1 DEF NamesOK
  <2>4. Fits(keep, stack)'
    BY <2>1, KeepSame
  <2> QED
    BY <2>2, <2>3, <2>4, VInvParts
<1>7. ASSUME ValueOpenFor PROVE VInv'
  <2>1. /\ Later(0) \in Nat /\ Later(2) \in Nat /\ Later(3) \in Nat /\ Later(5) \in Nat
        /\ Later(8) \in Nat /\ ValueTypeOK
    BY Operand DEF VInv
  <2>2. PICK f : f = NewFrame("for", <<nextBlock + 2>>, nextBlock, live)
    OBVIOUS
  <2>3. Needs(f.kind) = 2
    BY <2>2 DEF NewFrame, Needs
  <2>4. stack' = Append(stack, f) /\ val' = NoName
    BY <1>7, <2>2, ForAdds, Zenon
  <2>5. CASE /\ HeldHere /\ held[Len(held)].name \in Nat
             /\ held' = Front(held)
             /\ ForBlocks(RangeInit(held[Len(held)].name), RangeCond, <<Use(<<Later(2)>>)>>)
             /\ keep' = Append(keep, <<Later(0), Later(2)>>) /\ nextId' = Later(5)
    <3>1. PICK h \in Nat : h = held[Len(held)].name
      BY <2>5
    <3>2. /\ RangeInit(h) \in Seq(Instr) /\ RangeCond \in Seq(Instr)
          /\ <<Use(<<Later(2)>>)>> \in Seq(Instr)
      BY <2>1, RangeChunks DEF Chunk
    <3>3. CodeOK'
      BY <1>0, <2>5, <3>1, <3>2, AddsCode2 DEF ForBlocks
    <3>4. NamesOK'
      BY <1>0, <2>1, <2>4, <2>5, HeldLess DEF NamesOK
    <3>5. Pushes(f, <<Later(0), Later(2)>>)
      BY <2>1, <2>3, <2>4, <2>5, FewNames DEF Pushes
    <3> QED
      BY <3>3, <3>4, <3>5, KeepPush, VInvParts
  <2>6. CASE /\ Complete /\ held' = held
             /\ ForBlocks(SliceInit, SliceCond, SliceBody)
             /\ keep' = Append(keep, <<Later(0), Later(3)>>) /\ nextId' = Later(8)
    <3>2. SliceInit \in Seq(Instr) /\ SliceCond \in Seq(Instr) /\ SliceBody \in Seq(Instr)
      BY <2>1, SliceChunks DEF Chunk
    <3>3. CodeOK'
      BY <1>0, <2>6, <3>2, AddsCode2 DEF ForBlocks
    <3>4. NamesOK'
      BY <1>0, <2>1, <2>4, <2>6 DEF NamesOK
    <3>5. Pushes(f, <<Later(0), Later(3)>>)
      BY <2>1, <2>3, <2>4, <2>6, FewNames DEF Pushes
    <3> QED
      BY <3>3, <3>4, <3>5, KeepPush, VInvParts
  <2> QED
    BY <1>7, <2>5, <2>6, ForAdds
<1>8. ASSUME ValueOpenWhile \/ ValueOpenLoop PROVE VInv'
  <2>1. CodeOK'
    BY <1>0, <1>8, LoopAdds, AddsCode
  <2>2. NamesOK'
    BY <1>0, <1>8, LoopAdds DEF NamesOK
  <2>3. \E f : stack' = Append(stack, f) /\ Needs(f.kind) = 0
    <3>1. /\ NewFrame("cond", <<nextBlock + 1, nextBlock + 2>>, nextBlock, FALSE).kind = "cond"
          /\ NewFrame("loop", <<nextBlock + 1>>, nextBlock, FALSE).kind = "loop"
          /\ Needs("cond") = 0 /\ Needs("loop") = 0
      BY DEF NewFrame, Needs
    <3>2. \/ stack' = Append(stack, NewFrame("cond", <<nextBlock + 1, nextBlock + 2>>, nextBlock, FALSE))
          \/ stack' = Append(stack, NewFrame("loop", <<nextBlock + 1>>, nextBlock, FALSE))
      BY <1>8, LoopAdds, Zenon
    <3> QED
      BY <3>1, <3>2
  <2>4. PICK f : stack' = Append(stack, f) /\ Needs(f.kind) = 0
    BY <2>3
  <2>5. Len(<<>>) = 0 /\ keep' = Append(keep, <<>>)
    BY <1>8, LoopAdds
  <2>6. Pushes(f, <<>>)
    BY <1>0, <2>4, <2>5 DEF Pushes
  <2> QED
    BY <2>1, <2>2, <2>6, KeepPush, VInvParts
<1>9. ASSUME ValueCloseWhileCond PROVE VInv'
  <2>1. TopIs({"cond"})
    BY <1>9, CondAdds
  <2>2. stack # <<>> /\ Top.kind = "cond" /\ Top \in Frame
    BY <1>0, <2>1, LastIn DEF TopIs, Top
  <2>3. OpdCode \o <<Use(<<Opd>>)>> \in Seq(Instr) /\ Later(0) \in Nat
    BY UseOpd, Operand DEF Chunk, VInv
  <2>4. CodeOK'
    BY <1>0, <1>9, <2>3, CondAdds, AddsCode
  <2>5. NamesOK'
    BY <1>0, <1>9, <2>3, CondAdds DEF NamesOK
  <2>6. PICK f : f = [Top EXCEPT !.kind = "while", !.todo = Tail(@), !.exit = live]
    OBVIOUS
  <2>7. f.kind = "while"
    BY <2>2, <2>6 DEF Frame
  <2>8. Needs(f.kind) <= Needs(Top.kind)
    BY <2>2, <2>7 DEF Needs
  <2>9. Fits(keep, stack)'
    BY <1>9, <2>2, <2>6, <2>8, CondAdds, KeepTop DEF TopBecomes
  <2> QED
    BY <2>4, <2>5, <2>9, VInvParts
<1>10. ASSUME ValueCloseLoop PROVE VInv'
  <2>1. stack # <<>>
    BY <1>10, CloseLoopAdds DEF TopIs
  <2>2. Step \in Seq(Instr)
    BY <2>1, StepType
  <2>3. CodeOK'
    BY <1>0, <1>10, <2>2, CloseLoopAdds, AddsCode
  <2>4. NamesOK'
    BY <1>0, <1>10, CloseLoopAdds DEF NamesOK
  <2>5. Fits(keep, stack)'
    BY <1>10, <2>1, CloseLoopAdds, KeepPop
  <2> QED
    BY <2>3, <2>4, <2>5, VInvParts
<1> QED
  BY <1>1, <1>2, <1>3, <1>4, <1>5, <1>6, <1>7, <1>8, <1>9, <1>10 DEF ValueStmt

LEMMA FnTypes ==
  ASSUME TypeInv, TypeInv', VInv, ValueFn
  PROVE  VInv'
<1>0. CodeOK /\ NamesOK /\ <<>> \in Seq(Instr) /\ <<>> \in Seq(Nat) /\ Returned \in Seq(Nat)
  BY VInvParts, EmptyIn, ReturnedType
<1>1. ASSUME ValueEndFn PROVE VInv'
  <2>1. CASE deferred = <<>>
    <3>1. /\ Switch("return", <<>>, NoLabel) /\ ReturnBlock(Returned)
          /\ stack' = stack /\ keep' = keep
      BY <1>1, <2>1 DEF ValueEndFn, EndFn, FinishFn
    <3>2. CodeOK' /\ NamesOK'
      BY <1>0, <3>1, ReturnTypes
    <3>3. Fits(keep, stack)'
      BY <3>1, KeepSame
    <3> QED
      BY <3>2, <3>3, VInvParts
  <2>2. CASE deferred # <<>>
    <3>1. BeginFlush("flush_exit") /\ BeginValueFlush /\ blocks' = blocks
      BY <1>1, <2>2 DEF ValueEndFn, EndFn
    <3> QED
      BY <3>1, FlushTypes DEF FlushKinds
  <2> QED
    BY <2>1, <2>2
<1>2. ASSUME ValueEndFlushExit PROVE VInv'
  <2>1. TopIs({"flush_exit"}) /\ Switch("return", <<>>, NoLabel) /\ ReturnBlock(Kept)
        /\ stack' = SubSeq(stack, 1, Len(stack) - 1) /\ keep' = SubSeq(keep, 1, Len(keep) - 1)
    BY <1>2 DEF ValueEndFlushExit, EndFlushExit, FinishFn, Pop, Drop
  <2>2. stack # <<>> /\ Kept \in Seq(Nat)
    BY <2>1, FitsTop DEF TopIs
  <2>3. CodeOK' /\ NamesOK'
    BY <2>1, <2>2, ReturnTypes
  <2>4. Fits(keep, stack)'
    BY <2>1, <2>2, KeepPop
  <2> QED
    BY <2>3, <2>4, VInvParts
<1>3. ASSUME ValueEndMain PROVE VInv'
  <2>1. Blocks(<<<<>>>>, <<>>) /\ blocks' = Append(blocks, Finished("return", <<>>))
        /\ stack' = stack /\ keep' = keep /\ UNCHANGED <<nextId, val, held>>
    BY <1>3 DEF ValueEndMain, EndMain, FinishFn, Switch, JumpBlock
  <2>2. Adds(<<>>, Finished("return", <<>>), <<>>)
    BY <2>1, JumpAdds
  <2>3. CodeOK'
    BY <1>0, <2>2, AddsCode
  <2>4. NamesOK'
    BY <1>0, <2>1 DEF NamesOK
  <2>5. Fits(keep, stack)'
    BY <2>1, KeepSame
  <2> QED
    BY <2>3, <2>4, <2>5, VInvParts
<1>4. ASSUME ValueResetFn PROVE VInv'
  <2>1. /\ nextId' = 0 /\ val' = NoName /\ held' = <<>> /\ keep' = <<>>
        /\ emitted' = <<>> /\ code' = <<>> /\ blocks' = <<>> /\ stack' = <<>>
    BY <1>4 DEF ValueResetFn, ResetFn
  <2>2. \A S : <<>> \in Seq(S)
    BY EmptyIn
  <2>3. ValueTypeOK'
    BY <2>1, <2>2 DEF ValueTypeOK
  <2>4. Fits(keep, stack)' /\ Len(code') = Len(blocks')
    BY <2>1, <2>2 DEF Fits
  <2> QED
    BY <2>3, <2>4 DEF VInv
<1> QED
  BY <1>1, <1>2, <1>3, <1>4 DEF ValueFn

(* Every step here is one of RymLower's, or leaves the blocks alone.        *)
LEMMA LowerStep == ValueNext => [Next]_vars
<1>1. ValueStmt => [Next]_vars
  BY DEF ValueStmt, StoreValue, ValueDefer, ValueReturn, ValueFlushNext, ValueEndFlushReturn,
         ValueBreak, ValueContinue, ValueOpenFor, ValueOpenWhile, ValueCloseWhileCond,
         ValueOpenLoop, ValueCloseLoop, Next, Stmt
<1>2. ValueExpr => [Next]_vars
  <2>1. ASSUME NEW n \in 1..MaxArms, NEW pat \in Patterns, ValueOpenMatch(n, pat) PROVE [Next]_vars
    <3>1. OpenMatch(n, pat = "wild") /\ (pat = "wild") \in BOOLEAN
      BY <2>1 DEF ValueOpenMatch
    <3>2. \E m \in 1..MaxArms, wild \in BOOLEAN : OpenMatch(m, wild)
      BY <3>1
    <3> QED
      BY <3>2 DEF Next, Expr
  <2>2. ASSUME NEW pat \in Patterns, ValueNextArm(pat) PROVE [Next]_vars
    <3>1. NextArm(pat = "wild") /\ (pat = "wild") \in BOOLEAN
      BY <2>2 DEF ValueNextArm
    <3>2. \E wild \in BOOLEAN : NextArm(wild)
      BY <3>1
    <3> QED
      BY <3>2 DEF Next, Expr
  <2>3. ASSUME HoldLeft \/ Operate PROVE [Next]_vars
    BY <2>3 DEF HoldLeft, Operate
  <2>4. ASSUME ValueOrReturn \/ ValueOrPanic \/ ValueOrZero \/ ValueOpenOrElse
        PROVE  [Next]_vars
    BY <2>4 DEF ValueOrReturn, ValueOrPanic, ValueOrZero, ValueOpenOrElse, Next, Expr
  <2>5. ASSUME ValueOpenIf \/ ValueCloseThen \/ ValueCloseExpr \/ ValueEmptyMatch
        PROVE  [Next]_vars
    BY <2>5 DEF ValueOpenIf, ValueCloseThen, ValueCloseExpr, ValueEmptyMatch, Next, Expr
  <2> QED
    BY <2>1, <2>2, <2>3, <2>4, <2>5 DEF ValueExpr
<1>3. ValueFn => [Next]_vars
  BY DEF ValueFn, ValueEndFn, ValueEndFlushExit, ValueEndMain, ValueResetFn, Next, Fn
<1> QED
  BY <1>1, <1>2, <1>3 DEF ValueNext

LEMMA VInit == ValueInit => VInv
<1>1. \A S : <<>> \in Seq(S)
  BY EmptyIn
<1> QED
  BY <1>1 DEF ValueInit, Init, VInv, ValueTypeOK, Fits, Name

LEMMA VStep ==
  ASSUME TypeInv, TypeInv', VInv, [ValueNext]_valueVars
  PROVE  VInv'
<1>1. CASE UNCHANGED valueVars
  BY <1>1 DEF valueVars, nameVars, vars, VInv, ValueTypeOK, Fits
<1>2. CASE ValueNext
  BY <1>2, StmtTypes, ExprTypes, FnTypes DEF ValueNext
<1> QED
  BY <1>1, <1>2

LEMMA VTypes == VInv => ValueTypeInv
  BY DEF VInv, ValueTypeInv, Fits

LEMMA LowerTypes == ValueSpec => []TypeInv
<1>1. ValueInit => TypeInv
  BY TypeInit DEF ValueInit
<1>2. TypeInv /\ [ValueNext]_valueVars => TypeInv'
  <2>1. [ValueNext]_valueVars => [Next]_vars
    BY LowerStep DEF valueVars
  <2> QED
    BY <2>1, TypeStep
<1> QED
  BY <1>1, <1>2, PTL DEF ValueSpec

(* Each open construct has the names its code will still use, and each      *)
(* finished block its instructions.                                         *)
THEOREM ValuesTyped == ValueSpec => []ValueTypeInv
<1>1. ValueInit => VInv
  BY VInit
<1>2. TypeInv /\ TypeInv' /\ VInv /\ [ValueNext]_valueVars => VInv'
  BY VStep
<1>3. ValueSpec => []VInv
  BY <1>1, <1>2, LowerTypes, PTL DEF ValueSpec
<1> QED
  BY <1>3, VTypes, PTL

-----------------------------------------------------------------------------
(* Written once.  Of two blocks that write a name, the first jumps past the *)
(* second, or the second is the step of a for loop.                         *)

StepOf(b, x, t) ==
  b.code # <<>> /\ b.code[Len(b.code)].op = "inc" /\ x[Len(x)].dest = t

Parts(b, w, k) == \A j \in (w + 1)..k : b[j].label \notin Range(b[w].to)

Tidy(b, c, n) ==
  /\ \A w \in 1..Len(c) : Once(c[w]) /\ \A t \in Dests(c[w]) : t < n
  /\ \A w, k \in 1..Len(c) :
        w < k => \A t \in Dests(c[w]) \cap Dests(c[k]) : StepOf(b[k], c[k], t) \/ Parts(b, w, k)

(* No block writes t; all that do jump to l.                                *)
Unwritten(c, t) == \A w \in 1..Len(c) : t \notin Dests(c[w])
Owns(b, c, t, l) == \A w \in 1..Len(c) : t \in Dests(c[w]) => b[w].to = <<l>>

(* Name t may be written once more, by block a with body x.                 *)
MayWrite(b, c, a, x, t) ==
  \/ Unwritten(c, t)
  \/ StepOf(a, x, t)
  \/ \E l : Owns(b, c, t, l) /\ l \notin LabelsOf(b) /\ l # a.label

LEMMA AppendAt ==
  ASSUME NEW S, NEW s \in Seq(S), NEW x
  PROVE  /\ Len(Append(s, x)) = Len(s) + 1 /\ Len(s) \in Nat
         /\ \A i \in 1..Len(s) : Append(s, x)[i] = s[i]
         /\ Append(s, x)[Len(s) + 1] = x
  OBVIOUS

Ready(b, a, c, x, n, m) ==
  /\ b \in Seq(Block) /\ c \in Seq(Seq(Instr)) /\ Len(b) = Len(c) /\ n \in Nat /\ m \in Nat
  /\ Tidy(b, c, n) /\ n <= m /\ Once(x)
  /\ \A t \in Dests(x) : t < m /\ MayWrite(b, c, a, x, t)
  /\ \A w \in 1..Len(c) : Dests(c[w]) \subseteq Nat

LEMMA OneMore ==
  ASSUME NEW b, NEW a, NEW c, NEW x, NEW n, NEW m, Ready(b, a, c, x, n, m)
  PROVE  Tidy(Append(b, a), Append(c, x), m)
<1> USE DEF Ready
<1> DEFINE p == Append(b, a)  q == Append(c, x)  e == Len(c) + 1
<1>1. /\ Len(p) = e /\ Len(q) = e /\ e \in Nat /\ e > 0 /\ p[e] = a /\ q[e] = x
      /\ \A i \in 1..Len(c) : p[i] = b[i] /\ q[i] = c[i]
      /\ \A i \in 1..e : i = e \/ i \in 1..Len(c)
      /\ Len(c) \in Nat
  BY AppendAt
<1> HIDE DEF p, q, e
<1>2. \A w \in 1..Len(q) : Once(q[w]) /\ \A t \in Dests(q[w]) : t < m
  <2> TAKE w \in 1..Len(q)
  <2>1. CASE w = e
    BY <1>1, <2>1
  <2>2. CASE w \in 1..Len(c)
    <3>1. q[w] = c[w] /\ Once(c[w]) /\ \A t \in Dests(c[w]) : t < n /\ t \in Nat
      BY <1>1, <2>2 DEF Tidy
    <3> QED
      BY <3>1
  <2> QED
    BY <1>1, <2>1, <2>2
<1>3. ASSUME NEW w \in 1..Len(q), NEW k \in 1..Len(q), w < k, NEW t \in Dests(q[w]) \cap Dests(q[k])
      PROVE  StepOf(p[k], q[k], t) \/ Parts(p, w, k)
  <2>1. w \in 1..Len(c) /\ q[w] = c[w] /\ p[w] = b[w]
    BY <1>1, <1>3
  <2>2. CASE k \in 1..Len(c)
    <3>1. StepOf(b[k], c[k], t) \/ Parts(b, w, k)
      BY <1>1, <1>3, <2>1, <2>2 DEF Tidy
    <3>2. p[k] = b[k] /\ q[k] = c[k]
      BY <1>1, <2>2
    <3>3. \A j \in (w + 1)..k : p[j] = b[j]
      BY <1>1, <2>1, <2>2
    <3> QED
      BY <2>1, <3>1, <3>2, <3>3 DEF Parts
  <2>3. CASE k = e
    <3>1. p[k] = a /\ q[k] = x /\ t \in Dests(x) /\ t \in Dests(c[w])
      BY <1>1, <1>3, <2>1, <2>3
    <3>2. MayWrite(b, c, a, x, t) /\ ~Unwritten(c, t)
      BY <2>1, <3>1 DEF Unwritten
    <3>3. CASE StepOf(a, x, t)
      BY <3>1, <3>3
    <3>4. ASSUME NEW l, Owns(b, c, t, l), l \notin LabelsOf(b), l # a.label
          PROVE  Parts(p, w, k)
      <4>1. p[w].to = <<l>> /\ Range(p[w].to) = {l}
        BY <2>1, <3>1, <3>4, Range1 DEF Owns
      <4>2. \A j \in (w + 1)..k : p[j].label # l
        <5> TAKE j \in (w + 1)..k
        <5>1. CASE j = e
          BY <1>1, <3>4, <5>1
        <5>2. CASE j # e
          <6>1. j \in 1..Len(c) /\ DOMAIN b = 1..Len(c)
            BY <1>1, <2>1, <2>3, <5>2
          <6> QED
            BY <1>1, <3>4, <6>1 DEF LabelsOf
        <5> QED
          BY <5>1, <5>2
      <4> QED
        BY <4>1, <4>2 DEF Parts
    <3> QED
      BY <3>2, <3>3, <3>4 DEF MayWrite
  <2> QED
    BY <1>1, <2>2, <2>3
<1>4. Tidy(p, q, m)
  BY <1>2, <1>3 DEF Tidy
<1> QED
  BY <1>4 DEF p, q

LEMMA OwnsMore ==
  ASSUME NEW b \in Seq(Block), NEW a, NEW c \in Seq(Seq(Instr)), NEW x, Len(b) = Len(c), NEW t, NEW l,
         Owns(b, c, t, l), t \notin Dests(x) \/ a.to = <<l>>
  PROVE  Owns(Append(b, a), Append(c, x), t, l)
<1> DEFINE p == Append(b, a)  q == Append(c, x)  e == Len(c) + 1
<1>1. /\ Len(p) = e /\ Len(q) = e /\ e \in Nat /\ p[e] = a /\ q[e] = x
      /\ \A i \in 1..Len(c) : p[i] = b[i] /\ q[i] = c[i]
      /\ \A i \in 1..e : i = e \/ i \in 1..Len(c)
  <2>1. Len(p) = e /\ p[e] = a /\ \A i \in 1..Len(c) : p[i] = b[i]
    BY AppendAt
  <2>2. Len(c) \in Nat /\ Len(q) = e /\ q[e] = x /\ \A i \in 1..Len(c) : q[i] = c[i]
    BY AppendAt
  <2> QED
    BY <2>1, <2>2
<1> HIDE DEF p, q, e
<1>2. Owns(p, q, t, l)
  BY <1>1 DEF Owns
<1> QED
  BY <1>2 DEF p, q

LEMMA UnwrittenMore ==
  ASSUME NEW c \in Seq(Seq(Instr)), NEW x, NEW t, Unwritten(c, t), t \notin Dests(x)
  PROVE  Unwritten(Append(c, x), t)
<1> DEFINE q == Append(c, x)  e == Len(c) + 1
<1>1. /\ Len(q) = e /\ e \in Nat /\ q[e] = x
      /\ \A i \in 1..Len(c) : q[i] = c[i]
      /\ \A i \in 1..e : i = e \/ i \in 1..Len(c)
  BY AppendAt
<1> HIDE DEF q, e
<1>2. Unwritten(q, t)
  BY <1>1 DEF Unwritten
<1> QED
  BY <1>2 DEF q

LEMMA FreshUnwritten ==
  ASSUME NEW b, NEW c, NEW n \in Nat, Tidy(b, c, n), NEW t \in Nat, t >= n
  PROVE  Unwritten(c, t)
  BY DEF Tidy, Unwritten

-----------------------------------------------------------------------------
(* The frames: each result, and each counter of a for loop, has a name of   *)
(* its own, and a block that has stored a result jumps to where it is read. *)

Results == {"then", "else", "default", "arm"}
Owners == Results \cup {"for"}

Apart(b, c, st, kp, n) ==
  \A i \in 1..Len(st) : st[i].kind \in Owners =>
      /\ kp[i][1] < n
      /\ st[i].kind \in Results => Owns(b, c, kp[i][1], Merge(st[i]))
      /\ \A j \in 1..Len(st) : j # i /\ st[j].kind \in Owners => kp[i][1] # kp[j][1]

Spared(st, kp, E) == \A i \in 1..Len(st) : st[i].kind \in Owners => kp[i][1] \notin E

LEMMA ApartMore ==
  ASSUME NEW b \in Seq(Block), NEW a, NEW c \in Seq(Seq(Instr)), NEW x, Len(b) = Len(c), NEW st, NEW kp, NEW n,
         Apart(b, c, st, kp, n),
         \A i \in 1..Len(st) : st[i].kind \in Results
              => kp[i][1] \notin Dests(x) \/ a.to = <<Merge(st[i])>>
  PROVE  Apart(Append(b, a), Append(c, x), st, kp, n)
<1>1. \A i \in 1..Len(st) : st[i].kind \in Results
        => Owns(Append(b, a), Append(c, x), kp[i][1], Merge(st[i]))
  <2> TAKE i \in 1..Len(st)
  <2> HAVE st[i].kind \in Results
  <2>1. PICK t, l : t = kp[i][1] /\ l = Merge(st[i])
    OBVIOUS
  <2>2. Owns(b, c, t, l) /\ (t \notin Dests(x) \/ a.to = <<l>>)
    BY <2>1 DEF Apart, Owners
  <2> QED
    BY <2>1, <2>2, OwnsMore
<1> QED
  BY <1>1 DEF Apart

LEMMA OwnedNames ==
  ASSUME NEW kp, NEW st, Fits(kp, st)
  PROVE  \A i \in 1..Len(st) : st[i].kind \in Owners => kp[i][1] \in Nat
<1>1. kp \in Seq(Seq(Nat)) /\ Len(kp) = Len(st) /\ \A i \in 1..Len(st) : Len(kp[i]) >= Needs(st[i].kind)
  BY DEF Fits
<1> TAKE i \in 1..Len(st)
<1> HAVE st[i].kind \in Owners
<1>2. kp[i] \in Seq(Nat)
  BY <1>1
<1>3. PICK k : k = st[i].kind
  OBVIOUS
<1>4. Needs(k) \in {1, 2, 3}
  BY <1>3 DEF Needs, Owners, Results
<1>5. Len(kp[i]) >= Needs(k)
  BY <1>1, <1>3
<1> QED
  BY <1>2, <1>4, <1>5

LEMMA ApartLater ==
  ASSUME NEW b, NEW c, NEW st, NEW kp, NEW n \in Nat, NEW m \in Nat, n <= m, Apart(b, c, st, kp, n),
         Fits(kp, st)
  PROVE  Apart(b, c, st, kp, m)
<1>1. \A i \in 1..Len(st) : st[i].kind \in Owners => kp[i][1] \in Nat /\ kp[i][1] < n
  BY OwnedNames DEF Apart
<1>2. \A i \in 1..Len(st) : st[i].kind \in Owners => kp[i][1] < m
  BY <1>1
<1> QED
  BY <1>2 DEF Apart

LEMMA ApartPush ==
  ASSUME NEW b, NEW c, NEW st \in Seq(Frame), NEW kp \in Seq(Seq(Nat)), Len(kp) = Len(st),
         NEW n \in Nat, NEW m \in Nat, Apart(b, c, st, kp, n), Fits(kp, st), n <= m, NEW f, NEW ks,
         f.kind \in Owners => ks[1] \in Nat /\ n <= ks[1] /\ ks[1] < m,
         f.kind \in Results => Owns(b, c, ks[1], Merge(f))
  PROVE  Apart(b, c, Append(st, f), Append(kp, ks), m)
<1> DEFINE p == Append(st, f)  q == Append(kp, ks)  e == Len(st) + 1
<1>1. /\ Len(p) = e /\ Len(q) = e /\ e \in Nat /\ p[e] = f /\ q[e] = ks
      /\ \A i \in 1..Len(st) : p[i] = st[i] /\ q[i] = kp[i]
      /\ \A i \in 1..e : i = e \/ i \in 1..Len(st)
  BY AppendAt
<1> HIDE DEF p, q, e
<1>2. \A i \in 1..Len(st) : st[i].kind \in Owners => kp[i][1] \in Nat /\ kp[i][1] < n
  BY OwnedNames DEF Apart
<1>3. ASSUME NEW i \in 1..Len(p), p[i].kind \in Owners
      PROVE  /\ q[i][1] < m
             /\ p[i].kind \in Results => Owns(b, c, q[i][1], Merge(p[i]))
  <2>1. CASE i = e
    BY <1>1, <1>3, <2>1 DEF Owners
  <2>2. CASE i \in 1..Len(st)
    <3>1. p[i] = st[i] /\ q[i] = kp[i]
      BY <1>1, <2>2
    <3>2. q[i][1] \in Nat /\ q[i][1] < n
      BY <1>2, <1>3, <2>2, <3>1
    <3>3. q[i][1] < m
      BY <3>2
    <3>4. p[i].kind \in Results => Owns(b, c, q[i][1], Merge(p[i]))
      BY <2>2, <3>1 DEF Apart, Owners
    <3> QED
      BY <3>3, <3>4
  <2> QED
    BY <1>1, <2>1, <2>2
<1>4. ASSUME NEW i \in 1..Len(p), p[i].kind \in Owners, NEW j \in 1..Len(p), p[j].kind \in Owners, j # i
      PROVE  q[i][1] # q[j][1]
  <2>0. \A k \in 1..Len(st) : p[k].kind \in Owners => q[k][1] \in Nat /\ q[k][1] < n
    BY <1>1, <1>2
  <2>1. CASE i = e
    <3>1. j \in 1..Len(st) /\ q[i][1] \in Nat /\ n <= q[i][1]
      BY <1>1, <1>4, <2>1
    <3>2. q[j][1] \in Nat /\ q[j][1] < n
      BY <1>4, <2>0, <3>1
    <3> QED
      BY <3>1, <3>2
  <2>2. CASE j = e
    <3>1. i \in 1..Len(st) /\ q[j][1] \in Nat /\ n <= q[j][1]
      BY <1>1, <1>4, <2>2
    <3>2. q[i][1] \in Nat /\ q[i][1] < n
      BY <1>4, <2>0, <3>1
    <3> QED
      BY <3>1, <3>2
  <2>3. CASE i \in 1..Len(st) /\ j \in 1..Len(st)
    <3>1. p[i] = st[i] /\ q[i] = kp[i] /\ p[j] = st[j] /\ q[j] = kp[j]
      BY <1>1, <2>3
    <3>2. kp[i][1] # kp[j][1]
      BY <1>4, <2>3, <3>1 DEF Apart
    <3> QED
      BY <3>1, <3>2
  <2> QED
    BY <1>1, <2>1, <2>2, <2>3
<1>5. Apart(b, c, p, q, m)
  BY <1>3, <1>4 DEF Apart
<1> QED
  BY <1>5 DEF p, q

LEMMA ApartPop ==
  ASSUME NEW b, NEW c, NEW st \in Seq(Frame), NEW kp \in Seq(Seq(Nat)), Len(kp) = Len(st), st # <<>>,
         NEW n, Apart(b, c, st, kp, n)
  PROVE  Apart(b, c, SubSeq(st, 1, Len(st) - 1), SubSeq(kp, 1, Len(kp) - 1), n)
<1> DEFINE p == SubSeq(st, 1, Len(st) - 1)  q == SubSeq(kp, 1, Len(kp) - 1)
<1>0. Len(st) \in Nat /\ Len(st) # 0
  OBVIOUS
<1>1. PICK e \in Nat : e = Len(st) - 1
  <2>1. Len(st) - 1 \in Nat
    BY <1>0
  <2> QED
    BY <2>1
<1>2. Len(p) = e /\ \A i \in 1..e : p[i] = st[i] /\ q[i] = kp[i] /\ i \in 1..Len(st)
  BY <1>1
<1> HIDE DEF p, q
<1>3. ASSUME NEW i \in 1..e, p[i].kind \in Owners
      PROVE  /\ q[i][1] < n
             /\ p[i].kind \in Results => Owns(b, c, q[i][1], Merge(p[i]))
             /\ \A j \in 1..e : j # i /\ p[j].kind \in Owners => q[i][1] # q[j][1]
  <2>1. p[i] = st[i] /\ q[i] = kp[i] /\ i \in 1..Len(st)
    BY <1>2
  <2>2. /\ kp[i][1] < n
        /\ st[i].kind \in Results => Owns(b, c, kp[i][1], Merge(st[i]))
        /\ \A j \in 1..Len(st) : j # i /\ st[j].kind \in Owners => kp[i][1] # kp[j][1]
    BY <1>3, <2>1, Zenon DEF Apart
  <2>3. \A j \in 1..e : p[j] = st[j] /\ q[j] = kp[j] /\ j \in 1..Len(st)
    BY <1>2
  <2> QED
    BY <2>1, <2>2, <2>3, Zenon
<1>4. Apart(b, c, p, q, n)
  BY <1>2, <1>3, Zenon DEF Apart
<1> QED
  BY <1>4 DEF p, q

(* Frames that own what they did, and continue where they did. *)
Alike(st, new) ==
  /\ Len(new) = Len(st)
  /\ \A i \in 1..Len(st) :
        /\ new[i].kind \in Owners <=> st[i].kind \in Owners
        /\ new[i].kind \in Results => st[i].kind \in Results /\ Merge(new[i]) = Merge(st[i])

LEMMA ApartSame ==
  ASSUME NEW b, NEW c, NEW st, NEW new, NEW kp, NEW n, Apart(b, c, st, kp, n), Alike(st, new)
  PROVE  Apart(b, c, new, kp, n)
  BY DEF Apart, Alike

LEMMA SparedSame ==
  ASSUME NEW st, NEW new, NEW kp, NEW E, Spared(st, kp, E), Alike(st, new)
  PROVE  Spared(new, kp, E)
  BY DEF Spared, Alike

-----------------------------------------------------------------------------
(* The invariant, and what keeps it when blocks are added.                  *)

Pure(x, c, n) == Once(x) /\ \A t \in Dests(x) : t < n /\ Unwritten(c, t)

WInv ==
  /\ Tidy(blocks, code, nextId)
  /\ Pure(emitted, code, nextId)
  /\ Apart(blocks, code, stack, keep, nextId)
  /\ Spared(stack, keep, Dests(emitted))

LEMMA DestsNat ==
  /\ \A x \in Seq(Instr) : Dests(x) \subseteq Nat
  /\ \A c \in Seq(Seq(Instr)) : \A w \in 1..Len(c) : c[w] \in Seq(Instr) /\ Dests(c[w]) \subseteq Nat
<1>1. ASSUME NEW x \in Seq(Instr) PROVE Dests(x) \subseteq Nat
  <2>1. ASSUME NEW j \in DOMAIN x, x[j].dest # NoName PROVE x[j].dest \in Nat
    <3>1. x[j] \in Instr
      OBVIOUS
    <3> QED
      BY <2>1, <3>1 DEF Instr, Name
  <2> QED
    BY <2>1 DEF Dests
<1> QED
  BY <1>1

LEMMA EmittedChunk ==
  ASSUME VInv, WInv
  PROVE  Chunk(emitted, Dests(emitted), Reads(emitted))
  BY VInvParts DEF Chunk, WInv, Pure, CodeOK

(* A fresh name may be written anywhere. *)
LEMMA MayFresh ==
  ASSUME VInv, WInv, NEW t \in Nat, nextId <= t
  PROVE  t \notin Dests(emitted) /\ Unwritten(code, t) /\ \A a, x : MayWrite(blocks, code, a, x, t)
<1>1. nextId \in Nat /\ emitted \in Seq(Instr)
  BY VInvParts DEF NamesOK, CodeOK
<1>2. Unwritten(code, t)
  BY <1>1, FreshUnwritten DEF WInv
<1>3. \A u \in Dests(emitted) : u \in Nat /\ u < nextId
  BY <1>1, DestsNat DEF WInv, Pure
<1> QED
  BY <1>1, <1>2, <1>3 DEF MayWrite

(* Names that are new in this step, at most up to m. *)
Between(Z, n, m) == \A t \in Z : t \in Nat /\ n <= t /\ t < m

(* What the first block of a step may write behind what was emitted, the    *)
(* second block, and the beginning of the block that is started.            *)
First(y, Y, R, a, m) ==
  /\ Chunk(y, Y, R) /\ a \in Block /\ m \in Nat /\ nextId <= m
  /\ \A t \in Y : t \notin Dests(emitted) /\ t < m /\ MayWrite(blocks, code, a, emitted \o y, t)
  /\ \A i \in 1..Len(stack) : stack[i].kind \in Results
              => keep[i][1] \notin Y \/ a.to = <<Merge(stack[i])>>
Second(y, Y, R, a, X, m) ==
  Chunk(y, Y, R) /\ a \in Block /\ Between(Y, nextId, m) /\ X \cap Y = {}
Begun(s, Z, Q, X, m) ==
  Chunk(s, Z, Q) /\ Between(Z, nextId, m) /\ X \cap Z = {}

LEMMA FirstTidy ==
  ASSUME TypeInv, VInv, WInv, NEW y, NEW Y, NEW R, NEW a, NEW m, First(y, Y, R, a, m)
  PROVE  /\ Tidy(Append(blocks, a), Append(code, emitted \o y), m)
         /\ Dests(emitted \o y) = Dests(emitted) \cup Y /\ emitted \o y \in Seq(Instr)
         /\ \A t \in Dests(emitted) : t < m
<1>1. /\ nextId \in Nat /\ emitted \in Seq(Instr) /\ code \in Seq(Seq(Instr)) /\ m \in Nat
      /\ Len(code) = Len(blocks) /\ blocks \in Seq(Block) /\ y \in Seq(Instr) /\ nextId <= m
  BY VInvParts DEF NamesOK, CodeOK, TypeInv, TypeOK, Chunk, First
<1>2. Chunk(emitted \o y, Dests(emitted) \cup Y, Reads(emitted) \cup (R \ Dests(emitted)))
  <2>1. Dests(emitted) \cap Y = {} /\ Chunk(y, Y, R)
    BY DEF First
  <2> QED
    BY <2>1, EmittedChunk, ChunkMore
<1>3. PICK x \in Seq(Instr) : x = emitted \o y
  BY <1>2 DEF Chunk
<1>4. Once(x) /\ Dests(x) = Dests(emitted) \cup Y
  BY <1>2, <1>3 DEF Chunk
<1>5. \A t \in Dests(emitted) : t \in Nat /\ t < m /\ MayWrite(blocks, code, a, x, t)
  <2>1. \A t \in Dests(emitted) : t < nextId /\ Unwritten(code, t) /\ t \in Nat
    BY <1>1, DestsNat DEF WInv, Pure
  <2> QED
    BY <1>1, <2>1 DEF MayWrite
<1>6. \A t \in Dests(x) : t < m /\ MayWrite(blocks, code, a, x, t)
  BY <1>3, <1>4, <1>5 DEF First
<1>7. \A w \in 1..Len(code) : Dests(code[w]) \subseteq Nat
  BY <1>1, DestsNat
<1>8. Ready(blocks, a, code, x, nextId, m)
  BY <1>1, <1>4, <1>6, <1>7 DEF WInv, Ready
<1> QED
  BY <1>3, <1>4, <1>5, <1>8, OneMore

LEMMA OwnersOld ==
  ASSUME VInv, WInv
  PROVE  \A i \in 1..Len(stack) : stack[i].kind \in Owners => keep[i][1] \in Nat /\ keep[i][1] < nextId
<1>1. nextId \in Nat /\ Fits(keep, stack)
  BY VInvParts DEF NamesOK
<1> TAKE i \in 1..Len(stack)
<1> HAVE stack[i].kind \in Owners
<1>2. keep[i][1] \in Nat
  BY <1>1, OwnedNames
<1>3. keep[i][1] < nextId
  BY DEF WInv, Apart
<1> QED
  BY <1>2, <1>3

LEMMA SparedNew ==
  ASSUME VInv, WInv, NEW Z, NEW m, Between(Z, nextId, m)
  PROVE  Spared(stack, keep, Z)
<1>1. nextId \in Nat
  BY VInvParts DEF NamesOK
<1>2. \A i \in 1..Len(stack) : stack[i].kind \in Owners => keep[i][1] \in Nat /\ keep[i][1] < nextId
  BY OwnersOld
<1> QED
  BY <1>1, <1>2 DEF Spared, Between

(* y writes what it may, and s, the start of the next block, what is new.   *)
LEMMA Write1 ==
  ASSUME TypeInv, VInv, WInv, NEW y, NEW Y, NEW R, NEW a, First(y, Y, R, a, nextId'),
         NEW s, NEW Z, NEW Q, Begun(s, Z, Q, Y, nextId'), Adds(y, a, s)
  PROVE  /\ Tidy(blocks, code, nextId)' /\ Pure(emitted, code, nextId)'
         /\ Apart(blocks', code', stack, keep, nextId)
         /\ Spared(stack, keep, Dests(emitted'))
         /\ \A t \in Nat : nextId <= t /\ t \notin Y => Unwritten(code', t)
<1>1. /\ nextId \in Nat /\ code \in Seq(Seq(Instr)) /\ Len(code) = Len(blocks)
      /\ blocks \in Seq(Block)
  BY VInvParts DEF NamesOK, CodeOK, TypeInv, TypeOK
<1>2. PICK m : m = nextId'
  OBVIOUS
<1>3. /\ Tidy(Append(blocks, a), Append(code, emitted \o y), m)
      /\ Dests(emitted \o y) = Dests(emitted) \cup Y /\ emitted \o y \in Seq(Instr)
  BY <1>2, FirstTidy
<1>4. PICK x \in Seq(Instr) : x = emitted \o y
  BY <1>3
<1>5. blocks' = Append(blocks, a) /\ code' = Append(code, x) /\ emitted' = s
  BY <1>4 DEF Adds
<1>6. Tidy(blocks', code', nextId')
  BY <1>2, <1>3, <1>4, <1>5
<1>7. Once(s) /\ Dests(s) = Z
  BY DEF Chunk, Begun
<1>0. ASSUME NEW t \in Nat, nextId <= t, t \notin Y PROVE Unwritten(code', t)
  <2>2. Unwritten(code, t) /\ t \notin Dests(emitted)
    BY <1>0, MayFresh
  <2>3. t \notin Dests(x)
    BY <1>0, <1>3, <1>4, <2>2
  <2> QED
    BY <1>1, <1>5, <2>2, <2>3, UnwrittenMore
<1>8. \A t \in Z : t < nextId' /\ Unwritten(code', t)
  BY <1>0 DEF Between, Begun
<1>9. Pure(emitted', code', nextId')
  BY <1>5, <1>7, <1>8 DEF Pure
<1>10. \A i \in 1..Len(stack) : stack[i].kind \in Results
              => keep[i][1] \notin Dests(x) \/ a.to = <<Merge(stack[i])>>
  BY <1>3, <1>4 DEF WInv, Spared, Owners, First
<1>11. Apart(blocks', code', stack, keep, nextId)
  BY <1>1, <1>5, <1>10, ApartMore DEF WInv
<1>12. Spared(stack, keep, Dests(emitted'))
  BY <1>5, <1>7, SparedNew DEF Begun
<1> QED
  BY <1>0, <1>6, <1>9, <1>11, <1>12

(* Two blocks: the second writes only names that are new.                   *)
TwoMore(y, a, y2, a2, b, c) ==
  b = Append(Append(blocks, a), a2) /\ c = Append(Append(code, emitted \o y), y2)
TwoTidy(b, c, Y, Y2, a2, m) ==
  /\ b \in Seq(Block) /\ c \in Seq(Seq(Instr)) /\ Len(b) = Len(c)
  /\ Tidy(b, c, m) /\ Apart(b, c, stack, keep, nextId)
  /\ \A t : Between({t}, nextId, m) /\ t \notin Y \cup Y2 => Unwritten(c, t)
  /\ \A t \in Y2 : \A l : a2.to = <<l>> => Owns(b, c, t, l)

LEMMA SecondTidy ==
  ASSUME TypeInv, VInv, WInv, NEW y, NEW Y, NEW R, NEW a, NEW m, First(y, Y, R, a, m),
         NEW y2, NEW Y2, NEW R2, NEW a2, Second(y2, Y2, R2, a2, Y, m),
         NEW b, NEW c, TwoMore(y, a, y2, a2, b, c)
  PROVE  TwoTidy(b, c, Y, Y2, a2, m)
<1>1. /\ nextId \in Nat /\ code \in Seq(Seq(Instr)) /\ Len(code) = Len(blocks) /\ m \in Nat
      /\ blocks \in Seq(Block) /\ y2 \in Seq(Instr) /\ Once(y2) /\ Dests(y2) = Y2
      /\ a \in Block /\ a2 \in Block /\ Between(Y2, nextId, m) /\ Y \cap Y2 = {}
  BY VInvParts DEF NamesOK, CodeOK, TypeInv, TypeOK, Chunk, First, Second
<1>2. /\ Tidy(Append(blocks, a), Append(code, emitted \o y), m)
      /\ Dests(emitted \o y) = Dests(emitted) \cup Y /\ emitted \o y \in Seq(Instr)
  BY FirstTidy
<1>3. PICK x \in Seq(Instr) : x = emitted \o y
  BY <1>2
<1>4. PICK b1, c1 : b1 = Append(blocks, a) /\ c1 = Append(code, x)
  OBVIOUS
<1>5. b1 \in Seq(Block) /\ c1 \in Seq(Seq(Instr)) /\ Len(b1) = Len(c1)
  BY <1>1, <1>4, AppendAt
<1>6. Tidy(b1, c1, m) /\ Dests(x) = Dests(emitted) \cup Y
  BY <1>2, <1>3, <1>4
<1>7. ASSUME NEW t, Between({t}, nextId, m), t \notin Y PROVE t \in Nat /\ t < m /\ Unwritten(c1, t) /\ t \notin Dests(x)
  <2>1. t \in Nat /\ nextId <= t /\ t < m
    BY <1>7 DEF Between
  <2>2. Unwritten(code, t) /\ t \notin Dests(emitted)
    BY <2>1, MayFresh
  <2>3. t \notin Dests(x)
    BY <1>6, <1>7, <2>2
  <2> QED
    BY <1>1, <1>4, <2>1, <2>2, <2>3, UnwrittenMore
<1>8. \A t \in Y2 : t \in Nat /\ t < m /\ Unwritten(c1, t) /\ t \notin Dests(x)
  <2> TAKE t \in Y2
  <2>1. Between({t}, nextId, m) /\ t \notin Y
    BY <1>1 DEF Between
  <2> QED
    BY <1>7, <2>1
<1>9. b = Append(b1, a2) /\ c = Append(c1, y2)
  BY <1>3, <1>4 DEF TwoMore
<1>10. b \in Seq(Block) /\ c \in Seq(Seq(Instr)) /\ Len(b) = Len(c)
  BY <1>1, <1>5, <1>9, AppendAt
<1>11. Tidy(b, c, m)
  <2>1. \A t \in Dests(y2) : t < m /\ MayWrite(b1, c1, a2, y2, t)
    BY <1>1, <1>8 DEF MayWrite
  <2>2. \A w \in 1..Len(c1) : Dests(c1[w]) \subseteq Nat
    BY <1>5, DestsNat
  <2>3. Ready(b1, a2, c1, y2, m, m)
    <3>1. m <= m
      BY <1>1
    <3> QED
      BY <1>1, <1>5, <1>6, <2>1, <2>2, <3>1 DEF Ready
  <2> QED
    BY <1>9, <2>3, OneMore
<1>12. Apart(b, c, stack, keep, nextId)
  <2>1. \A i \in 1..Len(stack) : stack[i].kind \in Results
              => keep[i][1] \notin Dests(x) \/ a.to = <<Merge(stack[i])>>
    BY <1>6 DEF WInv, Spared, Owners, First
  <2>2. Apart(b1, c1, stack, keep, nextId)
    BY <1>1, <1>3, <1>4, <2>1, ApartMore DEF WInv
  <2>3. Spared(stack, keep, Y2)
    BY <1>1, SparedNew
  <2>4. \A i \in 1..Len(stack) : stack[i].kind \in Results
              => keep[i][1] \notin Dests(y2) \/ a2.to = <<Merge(stack[i])>>
    BY <1>1, <2>3 DEF Spared, Owners
  <2>5. Apart(Append(b1, a2), Append(c1, y2), stack, keep, nextId)
    BY <1>1, <1>5, <2>2, <2>4, ApartMore
  <2> QED
    BY <1>9, <2>5
<1>13. ASSUME NEW t, Between({t}, nextId, m), t \notin Y \cup Y2 PROVE Unwritten(c, t)
  BY <1>1, <1>5, <1>7, <1>9, <1>13, UnwrittenMore
<1>14. ASSUME NEW t \in Y2, NEW l, a2.to = <<l>> PROVE Owns(b, c, t, l)
  <2>1. Owns(b1, c1, t, l)
    BY <1>8 DEF Owns, Unwritten
  <2> QED
    BY <1>1, <1>5, <1>9, <1>14, <2>1, OwnsMore
<1> QED
  BY <1>10, <1>11, <1>12, <1>13, <1>14 DEF TwoTidy

LEMMA Write2 ==
  ASSUME TypeInv, VInv, WInv, NEW y, NEW Y, NEW R, NEW a, First(y, Y, R, a, nextId'),
         NEW y2, NEW Y2, NEW R2, NEW a2, Second(y2, Y2, R2, a2, Y, nextId'),
         NEW s, NEW Z, NEW Q, Begun(s, Z, Q, Y \cup Y2, nextId'), Adds2(y, a, y2, a2, s)
  PROVE  /\ Tidy(blocks, code, nextId)' /\ Pure(emitted, code, nextId)'
         /\ Apart(blocks', code', stack, keep, nextId)
         /\ Spared(stack, keep, Dests(emitted'))
         /\ \A t \in Y2 : \A l : a2.to = <<l>> => Owns(blocks', code', t, l)
<1>1. PICK m : m = nextId'
  OBVIOUS
<1>2. PICK b, c : b = Append(Append(blocks, a), a2) /\ c = Append(Append(code, emitted \o y), y2)
  OBVIOUS
<1>3. blocks' = b /\ code' = c /\ emitted' = s
  BY <1>2 DEF Adds2
<1>0. First(y, Y, R, a, m) /\ Second(y2, Y2, R2, a2, Y, m) /\ TwoMore(y, a, y2, a2, b, c)
  BY <1>1, <1>2 DEF TwoMore
<1>9. TwoTidy(b, c, Y, Y2, a2, m)
  BY <1>0, SecondTidy
<1>4. /\ Tidy(b, c, m) /\ Apart(b, c, stack, keep, nextId)
      /\ \A t : Between({t}, nextId, m) /\ t \notin Y \cup Y2 => Unwritten(c, t)
      /\ \A t \in Y2 : \A l : a2.to = <<l>> => Owns(b, c, t, l)
  BY <1>9 DEF TwoTidy
<1>5. Once(s) /\ Dests(s) = Z
  BY DEF Chunk, Begun
<1>6. \A t \in Z : t < m /\ Unwritten(c, t)
  BY <1>1, <1>4 DEF Between, Begun
<1>7. Pure(emitted', code', nextId')
  BY <1>1, <1>3, <1>5, <1>6 DEF Pure
<1>8. Spared(stack, keep, Dests(emitted'))
  BY <1>3, <1>5, SparedNew DEF Begun
<1> QED
  BY <1>1, <1>3, <1>4, <1>7, <1>8

(* Three: the third writes nothing, or what the second wrote before it      *)
(* jumped to a label that has no block yet.                                 *)
Third(y, Y, R, a, Y2, a1, a2) ==
  /\ Chunk(y, Y, R) /\ a \in Block /\ Y \subseteq Y2
  /\ \E l : /\ a2.to = <<l>> /\ l \notin LabelsOf(blocks)
            /\ l # a1.label /\ l # a2.label /\ l # a.label

LEMMA Write3 ==
  ASSUME TypeInv, VInv, WInv, NEW y, NEW Y, NEW R, NEW a, First(y, Y, R, a, nextId'),
         NEW y2, NEW Y2, NEW R2, NEW a2, Second(y2, Y2, R2, a2, Y, nextId'),
         NEW y3, NEW Y3, NEW R3, NEW a3, Third(y3, Y3, R3, a3, Y2, a, a2),
         Adds3(y, a, y2, a2, y3, a3, <<>>)
  PROVE  /\ Tidy(blocks, code, nextId)' /\ Pure(emitted, code, nextId)'
         /\ Apart(blocks', code', stack, keep, nextId)
         /\ Spared(stack, keep, Dests(emitted'))
<1>1. PICK m : m = nextId'
  OBVIOUS
<1>2. PICK b, c : b = Append(Append(blocks, a), a2) /\ c = Append(Append(code, emitted \o y), y2)
  OBVIOUS
<1>3. blocks' = Append(b, a3) /\ code' = Append(c, y3) /\ emitted' = <<>>
  BY <1>2 DEF Adds3
<1>0. First(y, Y, R, a, m) /\ Second(y2, Y2, R2, a2, Y, m) /\ TwoMore(y, a, y2, a2, b, c)
  BY <1>1, <1>2 DEF TwoMore
<1>t. TwoTidy(b, c, Y, Y2, a2, m)
  BY <1>0, SecondTidy
<1>4. /\ b \in Seq(Block) /\ c \in Seq(Seq(Instr)) /\ Len(b) = Len(c)
      /\ Tidy(b, c, m) /\ Apart(b, c, stack, keep, nextId)
      /\ \A t \in Y2 : \A k : a2.to = <<k>> => Owns(b, c, t, k)
  BY <1>t DEF TwoTidy
<1>5. /\ y3 \in Seq(Instr) /\ Once(y3) /\ Dests(y3) = Y3 /\ Y3 \subseteq Y2
      /\ a \in Block /\ a2 \in Block /\ a3 \in Block /\ m \in Nat /\ Between(Y2, nextId, m)
  BY <1>0 DEF Chunk, First, Second, Third
<1>l. PICK l : /\ a2.to = <<l>> /\ l \notin LabelsOf(blocks)
               /\ l # a.label /\ l # a2.label /\ l # a3.label
  BY DEF Third
<1>6. l \notin LabelsOf(b)
  <2>1. blocks \in Seq(Block)
    BY DEF TypeInv, TypeOK
  <2>2. PICK d : d = Append(blocks, a)
    OBVIOUS
  <2>3. d \in Seq(Block) /\ Len(d) = Len(blocks) + 1 /\ d[Len(blocks) + 1] = a
        /\ Len(blocks) \in Nat /\ \A i \in 1..Len(blocks) : d[i] = blocks[i]
    BY <1>5, <2>1, <2>2, AppendAt
  <2>4. b = Append(d, a2)
    BY <1>2, <2>2
  <2>5. Len(b) = Len(d) + 1 /\ b[Len(d) + 1] = a2 /\ \A i \in 1..Len(d) : b[i] = d[i]
    BY <2>3, <2>4, AppendAt
  <2>6. \A i \in DOMAIN b : i \in 1..Len(blocks) \/ i = Len(blocks) + 1 \/ i = Len(blocks) + 2
    BY <1>4, <2>3, <2>5
  <2>7. \A i \in 1..Len(blocks) : b[i] = blocks[i] /\ i \in DOMAIN blocks
    BY <2>1, <2>3, <2>5
  <2>8. b[Len(blocks) + 1] = a /\ b[Len(blocks) + 2] = a2
    <3>1. Len(blocks) + 1 \in 1..Len(d) /\ Len(blocks) + 2 = Len(d) + 1
      BY <2>3
    <3> QED
      BY <2>3, <2>5, <3>1
  <2> QED
    BY <1>l, <2>6, <2>7, <2>8 DEF LabelsOf
<1>7. \A t \in Dests(y3) : t < m /\ MayWrite(b, c, a3, y3, t)
  <2> TAKE t \in Dests(y3)
  <2>1. t \in Y2 /\ Owns(b, c, t, l)
    BY <1>4, <1>5, <1>l
  <2>2. t < m
    BY <1>5, <2>1 DEF Between
  <2> QED
    BY <1>6, <1>l, <2>1, <2>2 DEF MayWrite
<1>8. Tidy(blocks', code', nextId')
  <2>1. \A w \in 1..Len(c) : Dests(c[w]) \subseteq Nat
    BY <1>4, DestsNat
  <2>2. Ready(b, a3, c, y3, m, m)
    BY <1>4, <1>5, <1>7, <2>1 DEF Ready
  <2> QED
    BY <1>1, <1>3, <2>2, OneMore
<1>9. Chunk(<<>>, {}, {})
  BY ChunkNone
<1>10. Pure(emitted', code', nextId') /\ Spared(stack, keep, Dests(emitted'))
  BY <1>3, <1>9 DEF Pure, Chunk, Spared
<1>11. Apart(blocks', code', stack, keep, nextId)
  <2>1. Between(Y3, nextId, m)
    BY <1>5 DEF Between
  <2>2. Spared(stack, keep, Y3)
    BY <2>1, SparedNew
  <2>3. \A i \in 1..Len(stack) : stack[i].kind \in Results
              => keep[i][1] \notin Dests(y3) \/ a3.to = <<Merge(stack[i])>>
    BY <1>5, <2>2 DEF Spared, Owners
  <2> QED
    BY <1>3, <1>4, <1>5, <2>3, ApartMore
<1> QED
  BY <1>8, <1>10, <1>11

(* Once blocks and instructions are right, the frames decide.               *)
LEMMA WSame ==
  ASSUME TypeInv, VInv, VInv', Tidy(blocks, code, nextId)', Pure(emitted, code, nextId)',
         Apart(blocks', code', stack, keep, nextId), Spared(stack, keep, Dests(emitted')),
         nextId <= nextId', keep' = keep, Alike(stack, stack')
  PROVE  WInv'
<1>1. nextId \in Nat /\ nextId' \in Nat /\ Fits(keep, stack)
  BY VInvParts DEF NamesOK, VInv, ValueTypeOK
<1>2. Apart(blocks', code', stack, keep, nextId')
  BY <1>1, ApartLater
<1>3. Apart(blocks', code', stack', keep, nextId') /\ Spared(stack', keep, Dests(emitted'))
  BY <1>2, ApartSame, SparedSame
<1> QED
  BY <1>3 DEF WInv

LEMMA WPush ==
  ASSUME TypeInv, TypeInv', VInv, VInv', Tidy(blocks, code, nextId)', Pure(emitted, code, nextId)',
         Apart(blocks', code', stack, keep, nextId), Spared(stack, keep, Dests(emitted')),
         nextId <= nextId', NEW f, NEW ks, Pushes(f, ks),
         f.kind \in Owners => ks[1] \in Nat /\ nextId <= ks[1] /\ ks[1] < nextId'
                              /\ ks[1] \notin Dests(emitted'),
         f.kind \in Results => Owns(blocks', code', ks[1], Merge(f))
  PROVE  WInv'
<1>1. /\ nextId \in Nat /\ nextId' \in Nat /\ Fits(keep, stack) /\ stack \in Seq(Frame)
      /\ keep \in Seq(Seq(Nat)) /\ Len(keep) = Len(stack)
  BY VInvParts DEF NamesOK, VInv, ValueTypeOK, TypeInv, TypeOK, Fits
<1>2. stack' = Append(stack, f) /\ keep' = Append(keep, ks)
  BY DEF Pushes
<1>3. PICK n, m : n = nextId /\ m = nextId'
  OBVIOUS
<1>4. Apart(blocks', code', Append(stack, f), Append(keep, ks), m)
  BY <1>1, <1>3, ApartPush
<1>5. Spared(stack', keep', Dests(emitted'))
  <2>1. /\ Len(stack') = Len(stack) + 1 /\ stack'[Len(stack) + 1] = f /\ keep'[Len(stack) + 1] = ks
        /\ \A i \in 1..Len(stack) : stack'[i] = stack[i] /\ keep'[i] = keep[i]
        /\ \A i \in 1..(Len(stack) + 1) : i = Len(stack) + 1 \/ i \in 1..Len(stack)
    BY <1>1, <1>2, AppendAt
  <2> QED
    BY <2>1 DEF Spared
<1> QED
  BY <1>2, <1>3, <1>4, <1>5 DEF WInv

LEMMA WPop ==
  ASSUME TypeInv, VInv, VInv', Tidy(blocks, code, nextId)', Pure(emitted, code, nextId)',
         Apart(blocks', code', stack, keep, nextId), Spared(stack, keep, Dests(emitted')),
         nextId <= nextId', stack # <<>>, stack' = SubSeq(stack, 1, Len(stack) - 1),
         keep' = SubSeq(keep, 1, Len(keep) - 1)
  PROVE  WInv'
<1>1. /\ nextId \in Nat /\ nextId' \in Nat /\ Fits(keep, stack) /\ stack \in Seq(Frame)
      /\ keep \in Seq(Seq(Nat)) /\ Len(keep) = Len(stack)
  BY VInvParts DEF NamesOK, VInv, ValueTypeOK, TypeInv, TypeOK, Fits
<1>2. Apart(blocks', code', stack, keep, nextId')
  BY <1>1, ApartLater
<1>3. Apart(blocks', code', stack', keep', nextId')
  BY <1>1, <1>2, ApartPop
<1>4. Spared(stack', keep', Dests(emitted'))
  <2>1. PICK e : e = Len(stack) - 1
    OBVIOUS
  <2>2. e \in Nat /\ Len(stack') = e /\ \A i \in 1..e : stack'[i] = stack[i] /\ keep'[i] = keep[i]
                                            /\ i \in 1..Len(stack)
    BY <1>1, <2>1
  <2> QED
    BY <2>2 DEF Spared
<1> QED
  BY <1>3, <1>4 DEF WInv

-----------------------------------------------------------------------------
(* Every step writes what it may.                                           *)

Midway ==
  /\ Tidy(blocks, code, nextId)' /\ Pure(emitted, code, nextId)'
  /\ Apart(blocks', code', stack, keep, nextId) /\ Spared(stack, keep, Dests(emitted'))

LEMMA LastAdded ==
  ASSUME NEW S, NEW T, NEW s \in Seq(T), NEW b, Append(s, b) \in Seq(S)
  PROVE  b \in S /\ s \in Seq(S)
<1>1. /\ DOMAIN Append(s, b) = 1..(Len(s) + 1) /\ Append(s, b)[Len(s) + 1] = b /\ Len(s) \in Nat
      /\ \A i \in 1..Len(s) : Append(s, b)[i] = s[i]
  OBVIOUS
<1>2. \A i \in 1..(Len(s) + 1) : Append(s, b)[i] \in S
  BY <1>1
<1>3. \A i \in 1..Len(s) : s[i] \in S
  BY <1>1, <1>2
<1>4. Len(s) + 1 \in 1..(Len(s) + 1)
  BY <1>1
<1> QED
  BY <1>1, <1>2, <1>3, <1>4

LEMMA AddedBlocks ==
  ASSUME TypeInv, TypeInv'
  PROVE  /\ \A b : blocks' = Append(blocks, b) => b \in Block
         /\ \A b, b2 : blocks' = Append(Append(blocks, b), b2) => b \in Block /\ b2 \in Block
         /\ \A b, b2, b3 : blocks' = Append(Append(Append(blocks, b), b2), b3)
                => b \in Block /\ b2 \in Block /\ b3 \in Block
<1>1. blocks \in Seq(Block) /\ blocks' \in Seq(Block)
  BY DEF TypeInv, TypeOK
<1>2. ASSUME NEW b, blocks' = Append(blocks, b) PROVE b \in Block
  BY <1>1, <1>2, LastAdded
<1>3. ASSUME NEW b, NEW b2, blocks' = Append(Append(blocks, b), b2) PROVE b \in Block /\ b2 \in Block
  <2>1. Append(blocks, b) \in Seq(Block \cup {b})
    BY <1>1, TypeAppend
  <2>2. b2 \in Block /\ Append(blocks, b) \in Seq(Block)
    BY <1>1, <1>3, <2>1, LastAdded
  <2> QED
    BY <1>1, <2>2, LastAdded
<1>4. ASSUME NEW b, NEW b2, NEW b3, blocks' = Append(Append(Append(blocks, b), b2), b3)
      PROVE b \in Block /\ b2 \in Block /\ b3 \in Block
  <2>1. Append(blocks, b) \in Seq(Block \cup {b})
    BY <1>1, TypeAppend
  <2>2. Append(Append(blocks, b), b2) \in Seq(Block \cup {b} \cup {b2})
    BY <2>1, TypeAppend
  <2>3. b3 \in Block /\ Append(Append(blocks, b), b2) \in Seq(Block)
    BY <1>1, <1>4, <2>2, LastAdded
  <2>4. b2 \in Block /\ Append(blocks, b) \in Seq(Block)
    BY <2>1, <2>3, LastAdded
  <2> QED
    BY <1>1, <2>3, <2>4, LastAdded
<1> QED
  BY <1>2, <1>3, <1>4

(* What the first block of a step writes is new, ...                        *)
LEMMA FirstNew ==
  ASSUME VInv, WInv, NEW y, NEW Y, NEW R, Chunk(y, Y, R), NEW a \in Block, NEW m \in Nat,
         nextId <= m, Between(Y, nextId, m)
  PROVE  First(y, Y, R, a, m)
<1>1. Spared(stack, keep, Y)
  BY SparedNew
<1>2. \A t \in Y : t \in Nat /\ nextId <= t /\ t < m
  BY DEF Between
<1>3. \A t \in Y : t \notin Dests(emitted) /\ MayWrite(blocks, code, a, emitted \o y, t)
  BY <1>2, MayFresh
<1> QED
  BY <1>1, <1>2, <1>3 DEF First, Spared, Owners

LEMMA TopHere ==
  ASSUME TypeInv, NEW kinds, TopIs(kinds)
  PROVE  /\ Len(stack) \in 1..Len(stack) /\ Len(stack) \in DOMAIN stack /\ stack # <<>>
         /\ stack[Len(stack)] = Top /\ Top.kind \in kinds /\ ~done
         /\ Top \in Frame /\ FrameOK(Top)
<1>1. stack # <<>> /\ Top.kind \in kinds /\ stack \in Seq(Frame)
  BY DEF TopIs, TypeInv, TypeOK
<1>2. Len(stack) \in 1..Len(stack) /\ Len(stack) \in DOMAIN stack
  BY <1>1
<1> QED
  BY <1>1, <1>2 DEF Top, TypeInv, Shape, StackOK

(* Where an open construct continues has no block yet.                      *)
LEMMA MergeAhead ==
  ASSUME TypeInv, Unique, TopIs(Results)
  PROVE  Merge(Top) \notin LabelsOf(blocks) /\ Merge(Top) # currentLabel
<1>1. /\ Len(stack) \in DOMAIN stack /\ stack[Len(stack)] = Top /\ Top.kind \in Results
      /\ ~done /\ Top \in Frame /\ FrameOK(Top)
  BY TopHere
<1>2. Top.todo \in Seq(Label) /\ Top.todo # <<>>
  <2>1. Top.todo \in Seq(Label)
    BY <1>1 DEF Frame
  <2>2. Top.kind = "arm" => Top.todo # <<>>
    <3>1. PICK n : n = Len(Top.todo)
      OBVIOUS
    <3>2. Top.kind = "arm" => n % 2 = 1
      BY <1>1, <3>1 DEF FrameOK
    <3>3. Top.todo = <<>> => n = 0
      BY <3>1
    <3>4. 0 % 2 = 0
      OBVIOUS
    <3> QED
      BY <3>2, <3>3, <3>4
  <2>3. Top.kind # "arm" => Len(Top.todo) = 2 \/ Len(Top.todo) = 1
    BY <1>1 DEF FrameOK, Results
  <2> QED
    BY <2>1, <2>2, <2>3
<1>3. Merge(Top) \in Range(Top.todo)
  <2>1. Len(Top.todo) \in DOMAIN Top.todo
    BY <1>2, LastIn
  <2> QED
    BY <2>1 DEF Merge, Range
<1>4. Merge(Top) \in Pending
  BY <1>1, <1>3 DEF Pending
<1>5. Started \cap Pending = {}
  BY UniqueParts DEF Unique
<1> QED
  BY <1>1, <1>4, <1>5 DEF Started, BlockLabels, LabelsOf

(* ... or the result of the construct on top.                               *)
LEMMA FirstResult ==
  ASSUME TypeInv, VInv, WInv, Unique, TopIs(Results), NEW m \in Nat, Later(0) <= m,
         NEW a \in Block, a.to = <<Merge(Top)>>, a.label = currentLabel
  PROVE  First(StoreResult(Kept[1]), Leaf \cup {Kept[1]}, Past, a, m)
<1>1. /\ Len(stack) \in 1..Len(stack) /\ stack[Len(stack)] = Top /\ Top.kind \in Results
  BY TopHere
<1>2. ValueTypeOK /\ nextId \in Nat /\ Later(0) \in Nat /\ Later(0) >= nextId
      /\ Len(keep) = Len(stack)
  BY Fresh DEF VInv, Fits
<1>3. PICK d : d = Kept[1]
  OBVIOUS
<1>4. d = keep[Len(stack)][1] /\ d \in Nat
  <2>1. Needs(Top.kind) >= 1
    BY <1>1 DEF Needs, Results
  <2> QED
    BY <1>1, <1>2, <1>3, <2>1, FitsTop DEF Kept
<1>5. /\ d < nextId /\ Owns(blocks, code, d, Merge(Top)) /\ d \notin Dests(emitted)
      /\ \A j \in 1..Len(stack) : j # Len(stack) /\ stack[j].kind \in Owners => keep[j][1] # d
  BY <1>1, <1>4 DEF WInv, Apart, Spared, Owners
<1>6. \A t \in Leaf : t = nextId /\ t < Later(0)
  BY <1>2, Fresh
<1>7. Chunk(StoreResult(d), Leaf \cup {d}, Past)
  BY <1>2, <1>4, <1>5, <1>6, ResultChunk
<1>8. \A t \in Leaf : t \notin Dests(emitted) /\ t < m
                      /\ MayWrite(blocks, code, a, emitted \o StoreResult(d), t)
  BY <1>2, <1>6, MayFresh
<1>9. d < m /\ MayWrite(blocks, code, a, emitted \o StoreResult(d), d)
  <2>1. Merge(Top) \notin LabelsOf(blocks) /\ Merge(Top) # a.label
    BY MergeAhead
  <2> QED
    BY <1>2, <1>4, <1>5, <2>1 DEF MayWrite
<1>10. \A i \in 1..Len(stack) : stack[i].kind \in Results
              => keep[i][1] \notin Leaf \cup {d} \/ a.to = <<Merge(stack[i])>>
  <2> TAKE i \in 1..Len(stack)
  <2> HAVE stack[i].kind \in Results
  <2>1. CASE i = Len(stack)
    BY <1>1, <2>1
  <2>2. CASE i # Len(stack)
    <3>1. keep[i][1] # d
      BY <1>5, <2>2 DEF Owners
    <3>2. keep[i][1] \in Nat /\ keep[i][1] < nextId
      BY OwnersOld DEF Owners
    <3> QED
      BY <1>2, <1>6, <3>1, <3>2
  <2> QED
    BY <2>1, <2>2
<1>11. First(StoreResult(d), Leaf \cup {d}, Past, a, m)
  BY <1>2, <1>5, <1>7, <1>8, <1>9, <1>10 DEF First
<1> QED
  BY <1>3, <1>11

LEMMA ConcatLen ==
  ASSUME NEW S, NEW s \in Seq(S), NEW t \in Seq(S)
  PROVE  Len(s \o t) = Len(s) + Len(t) /\ Len(s) \in Nat
  OBVIOUS

(* What the step of a for loop writes: two new names and its counter.       *)
LEMMA FirstStep ==
  ASSUME TypeInv, VInv, WInv, TopIs({"for"}), NEW a \in Block,
         NEW e, a.code = instrs \o <<Ev("inc", e)>>
  PROVE  First(Step, {nextId, nextId + 1, Kept[1]}, {Kept[2]}, a, nextId + 2)
<1>1. /\ Len(stack) \in 1..Len(stack) /\ stack[Len(stack)] = Top /\ Top.kind = "for"
  BY TopHere
<1>2. ValueTypeOK /\ nextId \in Nat /\ Len(keep) = Len(stack) /\ emitted \in Seq(Instr)
  BY VInvParts DEF VInv, Fits, NamesOK, CodeOK
<1>3. PICK d, c : d = Kept[1] /\ c = Kept[2]
  OBVIOUS
<1>4. d = keep[Len(stack)][1] /\ d \in Nat /\ c \in Nat
  <2>1. Needs(Top.kind) >= 2 /\ Needs(Top.kind) >= 1
    BY <1>1 DEF Needs
  <2> QED
    BY <1>1, <1>2, <1>3, <2>1, FitsTop DEF Kept
<1>5. /\ d < nextId /\ d \notin Dests(emitted)
      /\ \A j \in 1..Len(stack) : j # Len(stack) /\ stack[j].kind \in Owners => keep[j][1] # d
  BY <1>1, <1>4 DEF WInv, Apart, Spared, Owners
<1>6. PICK n, n1, n2 \in Nat : n = nextId /\ n1 = n + 1 /\ n2 = n + 2
  BY <1>2
<1>7. Step = <<Write(n, <<>>), Write(n + 1, <<c, n>>), Write(d, <<n + 1>>)>>
  BY <1>1, <1>3, <1>6 DEF Step
<1>8. Chunk(Step, {n, n1, d}, {c})
  BY <1>2, <1>4, <1>5, <1>6, <1>7, StepChunk
<1>9. StepOf(a, emitted \o Step, d)
  <2>1. a.code # <<>> /\ a.code[Len(a.code)].op = "inc"
    <3>1. instrs \in Seq(Event)
      BY DEF TypeInv, TypeOK
    <3>2. PICK x : x = Ev("inc", e)
      OBVIOUS
    <3>3. a.code # <<>> /\ a.code[Len(a.code)] = x
      BY <3>1, <3>2
    <3> QED
      BY <3>2, <3>3 DEF Ev
  <2>2. Step \in Seq(Instr) /\ Len(Step) = 3 /\ Step[3] = Write(d, <<n + 1>>)
    BY <1>7, <1>8 DEF Chunk
  <2>3. (emitted \o Step)[Len(emitted \o Step)] = Step[3]
    <3>1. PICK x \in Seq(Instr) : x = Step
      BY <2>2
    <3>2. Len(x) = 3
      BY <2>2, <3>1
    <3>3. (emitted \o x)[Len(emitted \o x)] = x[3]
      <4>0. emitted \in Seq(Instr)
        BY <1>2
      <4>1. Len(emitted \o x) = Len(emitted) + 3 /\ Len(emitted) \in Nat
        BY <3>2, <4>0, ConcatLen
      <4>2. PICK k : k = Len(emitted) + 3
        OBVIOUS
      <4>3. k \in 1..(Len(emitted) + Len(x)) /\ k > Len(emitted) /\ k - Len(emitted) = 3
        BY <3>2, <4>1, <4>2
      <4>4. (emitted \o x)[k] = x[k - Len(emitted)]
        BY <3>2, <4>0, <4>1, <4>3
      <4> QED
        BY <4>1, <4>2, <4>3, <4>4
    <3> QED
      BY <3>1, <3>3
  <2> QED
    BY <2>1, <2>2, <2>3 DEF StepOf, Write
<1>10. \A t \in {n, n1} : t \notin Dests(emitted) /\ t < n2
                          /\ MayWrite(blocks, code, a, emitted \o Step, t)
  BY <1>2, <1>6, MayFresh
<1>11. d < n2 /\ MayWrite(blocks, code, a, emitted \o Step, d)
  BY <1>4, <1>5, <1>6, <1>9 DEF MayWrite
<1>12. \A i \in 1..Len(stack) : stack[i].kind \in Results => keep[i][1] \notin {n, n1, d}
  <2> TAKE i \in 1..Len(stack)
  <2> HAVE stack[i].kind \in Results
  <2>1. i # Len(stack) /\ stack[i].kind \in Owners
    BY <1>1 DEF Results, Owners
  <2>2. keep[i][1] # d
    BY <1>5, <2>1
  <2>3. keep[i][1] \in Nat /\ keep[i][1] < n
    BY <1>6, <2>1, OwnersOld
  <2> QED
    BY <1>6, <2>2, <2>3
<1>13. \A t \in {n, n1, d} : t \notin Dests(emitted) /\ t < n2
                          /\ MayWrite(blocks, code, a, emitted \o Step, t)
  BY <1>5, <1>10, <1>11
<1>14. First(Step, {n, n1, d}, {c}, a, n2)
  BY <1>6, <1>8, <1>12, <1>13 DEF First
<1> QED
  BY <1>3, <1>6, <1>14

(* No block has the number of a label yet to come.                          *)
LEMMA NumberAhead ==
  ASSUME TypeInv, Unique, ~done, NEW l \in Nat, nextBlock <= l
  PROVE  l \notin LabelsOf(blocks) /\ l # currentLabel
<1>1. Started \subseteq Numbered /\ nextBlock \in Nat
  BY DEF Unique, TypeInv, TypeOK
<1>2. l \notin Numbered
  BY <1>1 DEF Numbered, Entry
<1> QED
  BY <1>1, <1>2 DEF Started, BlockLabels, LabelsOf

LEMMA OrOpWritten ==
  ASSUME TypeInv, TypeInv', VInv, VInv', WInv, Unique,
         NEW c, NEW term, NEW to, OrOp(c, term, to), NEW err, ValueOrOp(err),
         NEW E, NEW R, Chunk(err, E, R), E \subseteq {Later(1)}
  PROVE  WInv'
<1> DEFINE a == Finished("branch", <<nextBlock, nextBlock + 1>>)
           a2 == BB(nextBlock, <<>>, "jump", <<nextBlock + 2>>, live)
           a3 == BB(nextBlock + 1, <<>>, term, to, live)
           Y == Leaf \cup {Later(0), Later(2), Later(3)}
<1>1. /\ Adds3(Unwrap, a, GetPayload, a2, err, a3, <<>>)
      /\ stack' = stack /\ keep' = keep /\ nextId' = Later(4) /\ ~done
  <2>1. err \in Seq(Instr)
    BY DEF Chunk
  <2> QED
    BY <2>1, OrOpAdds
<1>2. a \in Block /\ a2 \in Block /\ a3 \in Block
  BY <1>1, AddedBlocks DEF Adds3
<1>3. /\ Chunk(Unwrap, Y, Past) /\ Chunk(GetPayload, {Later(1)}, {Opd})
  BY UnwrapChunk, PayloadChunk DEF VInv
<1>4. /\ Later(0) \in Nat /\ Later(1) = Later(0) + 1 /\ Later(2) = Later(0) + 2
      /\ Later(3) = Later(0) + 3 /\ Later(4) = Later(0) + 4
      /\ Later(0) >= nextId /\ nextId \in Nat /\ \A t \in Leaf : t = nextId /\ t < Later(0)
  BY Fresh DEF VInv
<1>5. PICK m \in Nat : m = Later(4)
  BY <1>4
<1>6. nextId <= m /\ Between(Y, nextId, m) /\ Between({Later(1)}, nextId, m) /\ Y \cap {Later(1)} = {}
  BY <1>4, <1>5 DEF Between
<1>7. First(Unwrap, Y, Past, a, nextId')
  <2>1. First(Unwrap, Y, Past, a, m)
    BY <1>2, <1>3, <1>6, FirstNew
  <2> QED
    BY <1>1, <1>5, <2>1
<1>8. Second(GetPayload, {Later(1)}, {Opd}, a2, Y, nextId')
  BY <1>1, <1>2, <1>3, <1>5, <1>6 DEF Second
<1>9. Third(err, E, R, a3, {Later(1)}, a, a2)
  <2>1. nextBlock \in Nat
    BY DEF TypeInv, TypeOK
  <2>2. PICK l \in Nat : l = nextBlock + 2
    BY <2>1
  <2>3. l \notin LabelsOf(blocks) /\ l # currentLabel
    BY <1>1, <2>1, <2>2, NumberAhead
  <2>4. a2.to = <<l>> /\ l # a.label /\ l # a2.label /\ l # a3.label
    BY <2>1, <2>2, <2>3 DEF BB, Finished
  <2> QED
    BY <1>2, <2>3, <2>4 DEF Third
<1> HIDE DEF a, a2, a3, Y
<1>10. Midway
  BY <1>1, <1>7, <1>8, <1>9, Write3 DEF Midway
<1> QED
  BY <1>1, <1>4, <1>10, WSame DEF Midway, Alike

LEMMA OrElseWritten ==
  ASSUME TypeInv, TypeInv', VInv, VInv', WInv, Unique, ValueOpenOrElse
  PROVE  WInv'
<1> DEFINE a == Finished("branch", <<nextBlock, nextBlock + 1>>)
           a2 == BB(nextBlock, <<>>, "jump", <<nextBlock + 2>>, live)
           Y == Leaf \cup {Later(0), Later(2), Later(3)}
<1>1. /\ Adds2(Unwrap, a, GetPayload, a2, <<>>)
      /\ stack' = Append(stack, NewFrame("default", <<nextBlock + 2>>, NoLabel, live))
      /\ keep' = Append(keep, <<Later(1)>>) /\ nextId' = Later(4)
  BY OrElseAdds
<1>2. a \in Block /\ a2 \in Block
  BY <1>1, AddedBlocks DEF Adds2
<1>3. Chunk(Unwrap, Y, Past) /\ Chunk(GetPayload, {Later(1)}, {Opd}) /\ Chunk(<<>>, {}, {})
  BY UnwrapChunk, PayloadChunk, ChunkNone DEF VInv
<1>4. /\ Later(0) \in Nat /\ Later(1) = Later(0) + 1 /\ Later(2) = Later(0) + 2
      /\ Later(3) = Later(0) + 3 /\ Later(4) = Later(0) + 4
      /\ Later(0) >= nextId /\ nextId \in Nat /\ \A t \in Leaf : t = nextId /\ t < Later(0)
  BY Fresh DEF VInv
<1>5. PICK m \in Nat : m = Later(4)
  BY <1>4
<1>6. nextId <= m /\ Between(Y, nextId, m) /\ Between({Later(1)}, nextId, m) /\ Y \cap {Later(1)} = {}
  BY <1>4, <1>5 DEF Between
<1>7. First(Unwrap, Y, Past, a, nextId')
  <2>1. First(Unwrap, Y, Past, a, m)
    BY <1>2, <1>3, <1>6, FirstNew
  <2> QED
    BY <1>1, <1>5, <2>1
<1>8. Second(GetPayload, {Later(1)}, {Opd}, a2, Y, nextId')
  BY <1>1, <1>2, <1>3, <1>5, <1>6 DEF Second
<1>9. Begun(<<>>, {}, {}, Y \cup {Later(1)}, nextId')
  BY <1>3 DEF Begun, Between
<1>10. a2.to = <<nextBlock + 2>>
  BY DEF BB
<1> HIDE DEF a, a2, Y
<1>11. Midway /\ \A l : a2.to = <<l>> => Owns(blocks', code', Later(1), l)
  BY <1>1, <1>7, <1>8, <1>9, Write2 DEF Midway
<1>12. PICK f, ks : f = NewFrame("default", <<nextBlock + 2>>, NoLabel, live) /\ ks = <<Later(1)>>
  OBVIOUS
<1>13. /\ f.kind = "default" /\ Merge(f) = nextBlock + 2 /\ ks[1] = Later(1) /\ ks \in Seq(Nat)
       /\ Len(ks) = 1
  BY <1>4, <1>12 DEF NewFrame, Merge
<1>14. stack' = Append(stack, f) /\ keep' = Append(keep, ks)
  BY <1>1, <1>12, Zenon
<1>15. Pushes(f, ks)
  BY <1>13, <1>14 DEF Pushes, Needs
<1>16. ks[1] \in Nat /\ nextId <= ks[1] /\ ks[1] < nextId' /\ ks[1] \notin Dests(emitted')
  <2>1. emitted' = <<>> /\ Dests(<<>>) = {}
    BY <1>1, <1>3 DEF Adds2, Chunk
  <2> QED
    BY <1>1, <1>4, <1>13, <2>1
<1>17. Owns(blocks', code', ks[1], Merge(f))
  BY <1>10, <1>11, <1>13
<1> QED
  BY <1>1, <1>4, <1>11, <1>15, <1>16, <1>17, WPush DEF Midway

(* A frame whose result nothing has written yet. *)
LEMMA WPushNew ==
  ASSUME TypeInv, TypeInv', VInv, VInv', Midway, nextId <= nextId', NEW f, NEW ks, Pushes(f, ks),
         ks[1] \in Nat, nextId <= ks[1], ks[1] < nextId', ks[1] \notin Dests(emitted'),
         Unwritten(code', ks[1])
  PROVE  WInv'
<1>1. \A l : Owns(blocks', code', ks[1], l)
  BY DEF Owns, Unwritten
<1> QED
  BY <1>1, WPush DEF Midway

LEMMA IfWritten ==
  ASSUME TypeInv, TypeInv', VInv, VInv', WInv, ValueOpenIf
  PROVE  WInv'
<1> DEFINE a == Finished("branch", <<nextBlock, nextBlock + 1>>)  y == OpdCode \o <<Use(<<Opd>>)>>
<1>1. /\ Adds(y, a, <<>>)
      /\ stack' = Append(stack, NewFrame("then", <<nextBlock + 1, nextBlock + 2>>, NoLabel, FALSE))
      /\ keep' = Append(keep, <<Later(0)>>) /\ nextId' = Later(1)
  BY IfAdds
<1>2. a \in Block
  BY <1>1, AddedBlocks DEF Adds
<1>3. Chunk(y, Leaf, Past) /\ Chunk(<<>>, {}, {})
  BY UseOpd, ChunkNone DEF VInv
<1>4. /\ Later(0) \in Nat /\ Later(1) = Later(0) + 1
      /\ Later(0) >= nextId /\ nextId \in Nat /\ \A t \in Leaf : t = nextId /\ t < Later(0)
  BY Fresh DEF VInv
<1>5. PICK m \in Nat : m = Later(1)
  BY <1>4
<1> HIDE DEF a, y
<1>6. First(y, Leaf, Past, a, nextId')
  <2>1. nextId <= m /\ Between(Leaf, nextId, m)
    BY <1>4, <1>5 DEF Between
  <2>2. First(y, Leaf, Past, a, m)
    BY <1>2, <1>3, <2>1, FirstNew
  <2> QED
    BY <1>1, <1>5, <2>2
<1>7. Begun(<<>>, {}, {}, Leaf, nextId')
  BY <1>3 DEF Begun, Between
<1>8. Midway /\ \A t \in Nat : nextId <= t /\ t \notin Leaf => Unwritten(code', t)
  BY <1>1, <1>6, <1>7, Write1 DEF Midway
<1>9. PICK f, ks : f = NewFrame("then", <<nextBlock + 1, nextBlock + 2>>, NoLabel, FALSE)
                   /\ ks = <<Later(0)>>
  OBVIOUS
<1>10. f.kind = "then" /\ ks[1] = Later(0) /\ ks \in Seq(Nat) /\ Len(ks) = 1
  BY <1>4, <1>9 DEF NewFrame
<1>11. stack' = Append(stack, f) /\ keep' = Append(keep, ks)
  BY <1>1, <1>9, Zenon
<1>12. Pushes(f, ks)
  BY <1>10, <1>11 DEF Pushes, Needs
<1>13. emitted' = <<>> /\ Dests(<<>>) = {}
  BY <1>1, <1>3 DEF Adds, Chunk
<1>14. Unwritten(code', ks[1])
  BY <1>4, <1>8, <1>10
<1>15. ks[1] \in Nat /\ nextId <= ks[1] /\ ks[1] < nextId' /\ ks[1] \notin Dests(emitted')
       /\ nextId <= nextId'
  BY <1>1, <1>4, <1>10, <1>13
<1> QED
  BY <1>8, <1>12, <1>14, <1>15, WPushNew

LEMMA AlikeTop ==
  ASSUME TypeInv, stack # <<>>, NEW f, TopBecomes(f),
         (f.kind \in Owners) <=> (Top.kind \in Owners),
         f.kind \in Results => Top.kind \in Results /\ Merge(f) = Merge(Top)
  PROVE  Alike(stack, stack')
<1>1. stack \in Seq(Frame) /\ Len(stack) \in 1..Len(stack) /\ Len(stack) \in Nat
  BY DEF TypeInv, TypeOK
<1>2. Len(stack') = Len(stack) /\ \A i \in 1..Len(stack) : i # Len(stack) => stack'[i] = stack[i]
  BY <1>1 DEF TopBecomes
<1>3. stack'[Len(stack)] = f /\ stack[Len(stack)] = Top
  BY <1>1 DEF Top, TopBecomes
<1>4. ASSUME NEW i \in 1..Len(stack)
      PROVE  /\ stack'[i].kind \in Owners <=> stack[i].kind \in Owners
             /\ stack'[i].kind \in Results
                  => stack[i].kind \in Results /\ Merge(stack'[i]) = Merge(stack[i])
  <2>1. CASE i = Len(stack)
    BY <1>3, <2>1
  <2>2. CASE i # Len(stack)
    BY <1>2, <2>2
  <2> QED
    BY <2>1, <2>2
<1> QED
  BY <1>2, <1>4 DEF Alike

(* What is still to start of a frame is the end of what was. *)
LEMMA MergeTail ==
  ASSUME NEW S, NEW s \in Seq(S), Len(s) >= 2
  PROVE  Tail(s)[Len(Tail(s))] = s[Len(s)] /\ Tail(s) \in Seq(S) /\ Len(Tail(s)) = Len(s) - 1
<1>1. PICK n \in Nat : n = Len(s) - 1
  OBVIOUS
<1>2. Len(Tail(s)) = n /\ n \in 1..Len(Tail(s)) /\ Tail(s) \in Seq(S)
  BY <1>1
<1>3. Tail(s)[n] = s[n + 1]
  BY <1>1, <1>2
<1> QED
  BY <1>1, <1>2, <1>3

LEMMA CloseThenWritten ==
  ASSUME TypeInv, TypeInv', VInv, VInv', WInv, Unique, ValueCloseThen
  PROVE  WInv'
<1> DEFINE a == Finished("jump", <<Merge(Top)>>)
<1>1. /\ Adds(StoreResult(Kept[1]), a, <<>>) /\ keep' = keep /\ nextId' = Later(0)
      /\ stack' = [stack EXCEPT ![Len(stack)] =
                     [Top EXCEPT !.kind = "else", !.todo = Tail(@), !.exit = live]]
  BY CloseThenAdds
<1>2. a \in Block /\ a.to = <<Merge(Top)>> /\ a.label = currentLabel
  BY <1>1, AddedBlocks DEF Adds, Finished, BB
<1>3. TopIs({"then"}) /\ TopIs(Results)
  BY DEF ValueCloseThen, CloseThen, TopIs, Results
<1>4. Later(0) \in Nat /\ Later(0) >= nextId /\ nextId \in Nat
  BY Fresh DEF VInv
<1> HIDE DEF a
<1>5. First(StoreResult(Kept[1]), Leaf \cup {Kept[1]}, Past, a, nextId')
  <2>1. PICK m \in Nat : m = Later(0) /\ Later(0) <= m
    BY <1>4
  <2>2. First(StoreResult(Kept[1]), Leaf \cup {Kept[1]}, Past, a, m)
    BY <1>2, <1>3, <2>1, FirstResult
  <2> QED
    BY <1>1, <2>1, <2>2
<1>6. Begun(<<>>, {}, {}, Leaf \cup {Kept[1]}, nextId')
  BY ChunkNone DEF Begun, Between
<1>7. Midway
  BY <1>1, <1>5, <1>6, Write1 DEF Midway
<1>8. Alike(stack, stack')
  <2>1. PICK f : f = [Top EXCEPT !.kind = "else", !.todo = Tail(@), !.exit = live]
    OBVIOUS
  <2>2. Top \in Frame /\ FrameOK(Top) /\ Top.kind = "then" /\ stack # <<>>
    BY <1>3, TopHere
  <2>3. f.kind = "else" /\ f.todo = Tail(Top.todo)
    BY <2>1, <2>2 DEF Frame
  <2>4. Top.todo \in Seq(Label) /\ Len(Top.todo) = 2
    BY <2>2 DEF Frame, FrameOK
  <2>5. Merge(f) = Merge(Top)
    BY <2>3, <2>4, MergeTail DEF Merge
  <2>6. TopBecomes(f)
    BY <1>1, <2>1 DEF TopBecomes
  <2> QED
    BY <2>2, <2>3, <2>5, <2>6, AlikeTop DEF Owners, Results
<1> QED
  BY <1>1, <1>4, <1>7, <1>8, WSame DEF Midway

LEMMA CloseExprWritten ==
  ASSUME TypeInv, TypeInv', VInv, VInv', WInv, Unique, ValueCloseExpr
  PROVE  WInv'
<1> DEFINE a == Finished("jump", <<Merge(Top)>>)
<1>1. /\ Adds(StoreResult(Kept[1]), a, <<>>) /\ nextId' = Later(0)
      /\ keep' = SubSeq(keep, 1, Len(keep) - 1)
      /\ stack' = SubSeq(stack, 1, Len(stack) - 1) /\ TopIs({"else", "default", "arm"})
  BY CloseExprAdds
<1>2. a \in Block /\ a.to = <<Merge(Top)>> /\ a.label = currentLabel
  BY <1>1, AddedBlocks DEF Adds, Finished, BB
<1>3. TopIs(Results) /\ stack # <<>>
  BY <1>1 DEF TopIs, Results
<1>4. Later(0) \in Nat /\ Later(0) >= nextId /\ nextId \in Nat
  BY Fresh DEF VInv
<1> HIDE DEF a
<1>5. First(StoreResult(Kept[1]), Leaf \cup {Kept[1]}, Past, a, nextId')
  <2>1. PICK m \in Nat : m = Later(0) /\ Later(0) <= m
    BY <1>4
  <2>2. First(StoreResult(Kept[1]), Leaf \cup {Kept[1]}, Past, a, m)
    BY <1>2, <1>3, <2>1, FirstResult
  <2> QED
    BY <1>1, <2>1, <2>2
<1>6. Begun(<<>>, {}, {}, Leaf \cup {Kept[1]}, nextId')
  BY ChunkNone DEF Begun, Between
<1>7. Midway
  BY <1>1, <1>5, <1>6, Write1 DEF Midway
<1> QED
  BY <1>1, <1>3, <1>4, <1>7, WPop DEF Midway

(* No block is finished: what is emitted is new. *)
LEMMA EmitWritten ==
  ASSUME TypeInv, VInv, WInv, NEW y, NEW Y, NEW R, Chunk(y, Y, R), emitted' = emitted \o y,
         blocks' = blocks, code' = code, stack' = stack, keep' = keep, nextId' \in Nat,
         nextId <= nextId', Between(Y, nextId, nextId')
  PROVE  WInv'
<1>1. /\ nextId \in Nat /\ emitted \in Seq(Instr) /\ code \in Seq(Seq(Instr)) /\ Fits(keep, stack)
  BY VInvParts DEF NamesOK, CodeOK
<1>2. \A t \in Y : t \in Nat /\ nextId <= t /\ t < nextId' /\ t \notin Dests(emitted) /\ Unwritten(code, t)
  BY MayFresh DEF Between
<1>3. Dests(emitted) \cap Y = {}
  BY <1>2
<1>4. Chunk(emitted \o y, Dests(emitted) \cup Y, Reads(emitted) \cup (R \ Dests(emitted)))
  BY <1>3, EmittedChunk, ChunkMore
<1>5. Once(emitted') /\ Dests(emitted') = Dests(emitted) \cup Y
  BY <1>4 DEF Chunk
<1>6. \A t \in Dests(emitted) : t \in Nat /\ t < nextId /\ Unwritten(code, t)
  BY <1>1, DestsNat DEF WInv, Pure
<1>7. Pure(emitted', code', nextId')
  BY <1>1, <1>2, <1>5, <1>6 DEF Pure
<1>8. Tidy(blocks', code', nextId')
  <2>1. \A w \in 1..Len(code) : \A t \in Dests(code[w]) : t \in Nat /\ t < nextId
    BY <1>1, DestsNat DEF WInv, Tidy
  <2>2. \A w \in 1..Len(code) : \A t \in Dests(code[w]) : t < nextId'
    <3> TAKE w \in 1..Len(code)
    <3> TAKE t \in Dests(code[w])
    <3>1. PICK m \in Nat : m = nextId'
      OBVIOUS
    <3>2. t \in Nat /\ t < nextId
      BY <2>1
    <3> QED
      BY <1>1, <3>1, <3>2
  <2> QED
    BY <2>2 DEF WInv, Tidy
<1>9. Apart(blocks', code', stack', keep', nextId')
  BY <1>1, ApartLater DEF WInv
<1>10. Spared(stack', keep', Dests(emitted'))
  BY <1>5, SparedNew DEF WInv, Spared
<1> QED
  BY <1>7, <1>8, <1>9, <1>10 DEF WInv

LEMMA MatchWritten ==
  ASSUME TypeInv, TypeInv', VInv, VInv', WInv, NEW n, NEW pat, ValueOpenMatch(n, pat)
  PROVE  WInv'
<1> DEFINE a == Finished(DispatchTerm(pat = "wild"),
                         DispatchTo(pat = "wild", nextBlock + 1, MatchTodo(n)[1]))
           y == MatchCode(pat)  s == ArmStart(pat, Later(2), Opd)
           Y == Leaf \cup {Later(1)} \cup Tested(pat, Later(2))  Z == Loaded(pat, Later(2))
<1>1. /\ Adds(y, a, s) /\ stack' = Append(stack, MatchFrame(n, pat = "wild"))
      /\ keep' = Append(keep, <<Later(0), Later(1), Opd>>) /\ nextId' = Later(2 + ArmNames(pat))
  BY MatchAdds
<1>2. a \in Block
  BY <1>1, AddedBlocks DEF Adds
<1>4. /\ Later(0) \in Nat /\ Later(1) = Later(0) + 1 /\ Later(2) = Later(0) + 2 /\ Opd \in Nat
      /\ Later(0) >= nextId /\ nextId \in Nat /\ \A t \in Leaf : t = nextId /\ t < Later(0)
  BY Fresh DEF VInv
<1>3. Chunk(y, Y, Past) /\ Chunk(s, Z, {Opd})
  <2>1. Chunk(y, Y, Past)
    BY MatchChunk DEF VInv, MatchCode
  <2>2. PICK l, o \in Nat : l = Later(2) /\ o = Opd
    BY <1>4
  <2>3. Chunk(ArmStart(pat, l, o), Loaded(pat, l), {o})
    BY TestChunk, Zenon
  <2> QED
    BY <2>1, <2>2, <2>3
<1>5. PICK m \in Nat : /\ m = nextId' /\ Later(2) <= m /\ (pat # "wild" => Later(2) + 2 <= m)
                       /\ (pat = "variant" => Later(2) + 3 <= m)
  <2>1. PICK k \in Nat : k = 2 + ArmNames(pat) /\ 2 <= k /\ (pat # "wild" => 4 <= k)
                         /\ (pat = "variant" => 5 <= k)
    BY DEF ArmNames
  <2>2. nextId' = Later(0) + k
    BY <1>1, <2>1, Operand DEF VInv
  <2> QED
    BY <1>4, <2>1, <2>2
<1>6. nextId <= m /\ Between(Y, nextId, m) /\ Between(Z, nextId, m) /\ Y \cap Z = {}
      /\ Later(0) \notin Y /\ Later(0) \notin Z /\ Later(0) < m
  BY <1>4, <1>5 DEF Between, Tested, Loaded
<1> HIDE DEF a, y, s, Y, Z
<1>7. First(y, Y, Past, a, nextId') /\ Begun(s, Z, {Opd}, Y, nextId')
  <2>1. First(y, Y, Past, a, m)
    BY <1>2, <1>3, <1>6, FirstNew
  <2> QED
    BY <1>3, <1>5, <1>6, <2>1 DEF Begun
<1>8. Midway /\ \A t \in Nat : nextId <= t /\ t \notin Y => Unwritten(code', t)
  BY <1>1, <1>7, Write1 DEF Midway
<1>9. PICK f, ks : f = MatchFrame(n, pat = "wild") /\ ks = <<Later(0), Later(1), Opd>>
  OBVIOUS
<1>10. f.kind = "arm" /\ ks[1] = Later(0) /\ ks \in Seq(Nat) /\ Len(ks) = 3
  <2>1. f.kind = "arm"
    BY <1>9 DEF MatchFrame, NewFrame
  <2>2. Later(1) \in Nat
    BY <1>4
  <2> QED
    BY <1>4, <1>9, <2>1, <2>2, FewNames
<1>11. stack' = Append(stack, f) /\ keep' = Append(keep, ks)
  BY <1>1, <1>9, Zenon
<1>12. Pushes(f, ks)
  BY <1>10, <1>11 DEF Pushes, Needs
<1>13. Dests(emitted') = Z
  BY <1>1, <1>3 DEF Adds, Chunk
<1>14. Unwritten(code', ks[1])
  BY <1>4, <1>6, <1>8, <1>10
<1>15. ks[1] \in Nat /\ nextId <= ks[1] /\ ks[1] < nextId' /\ ks[1] \notin Dests(emitted')
       /\ nextId <= nextId'
  BY <1>4, <1>5, <1>6, <1>10, <1>13
<1> QED
  BY <1>8, <1>12, <1>14, <1>15, WPushNew

LEMMA ArmWritten ==
  ASSUME TypeInv, TypeInv', VInv, VInv', WInv, Unique, NEW pat, ValueNextArm(pat)
  PROVE  WInv'
<1> DEFINE a == Finished("jump", <<Merge(Top)>>)
           a2 == BB(Top.todo[1], <<>>, DispatchTerm(pat = "wild"),
                    DispatchTo(pat = "wild", Top.todo[2], Top.todo[3]), Top.fall)
           y == StoreResult(Kept[1])  y2 == Test(pat, Later(0), Kept[3], Kept[2])
           s == ArmStart(pat, Later(0), Kept[3])
           Y == Leaf \cup {Kept[1]}  Y2 == Tested(pat, Later(0))  Z == Loaded(pat, Later(0))
<1>1. /\ Adds2(y, a, y2, a2, s) /\ keep' = keep /\ nextId' = Later(ArmNames(pat))
      /\ Top.kind = "arm" /\ Len(Top.todo) >= 3
      /\ stack' = [stack EXCEPT ![Len(stack)] =
                     [Top EXCEPT !.todo = Tail(Tail(@)), !.exit = @ \/ live,
                                 !.fall = @ /\ ~(pat = "wild")]]
  BY ArmAdds, Zenon
<1>2. a \in Block /\ a2 \in Block /\ a.to = <<Merge(Top)>> /\ a.label = currentLabel
  <2>1. a \in Block /\ a2 \in Block
    BY <1>1, AddedBlocks DEF Adds2
  <2> QED
    BY <2>1 DEF Finished, BB
<1>t. TopIs(Results) /\ stack # <<>>
  BY DEF ValueNextArm, NextArm, TopIs, Results
<1>4. /\ Later(0) \in Nat /\ Later(0) >= nextId /\ nextId \in Nat
      /\ \A t \in Leaf : t = nextId /\ t < Later(0)
  BY Fresh DEF VInv
<1>3. Chunk(y2, Y2, {Kept[3], Kept[2]}) /\ Chunk(s, Z, {Kept[3]}) /\ Kept[1] \in Nat
  <2>1. PICK l, o, g \in Nat : l = Later(0) /\ o = Kept[3] /\ g = Kept[2] /\ Kept[1] \in Nat
    <3>1. Needs(Top.kind) = 3
      BY <1>1 DEF Needs
    <3>2. Kept[1] \in Nat /\ Kept[2] \in Nat /\ Kept[3] \in Nat
      <4>1. 3 >= 1 /\ 3 >= 2 /\ 3 >= 3
        OBVIOUS
      <4> QED
        BY <1>t, <3>1, <4>1, FitsTop
    <3> QED
      BY <1>4, <3>2
  <2>2. /\ Chunk(Test(pat, l, o, g), Tested(pat, l), {o, g})
        /\ Chunk(ArmStart(pat, l, o), Loaded(pat, l), {o})
    BY TestChunk, Zenon
  <2> QED
    BY <2>1, <2>2
<1>5. PICK m \in Nat : /\ m = nextId' /\ Later(0) <= m /\ (pat # "wild" => Later(0) + 2 <= m)
                       /\ (pat = "variant" => Later(0) + 3 <= m)
  <2>1. PICK k \in Nat : k = ArmNames(pat) /\ (pat # "wild" => 2 <= k)
                         /\ (pat = "variant" => 3 <= k)
    BY DEF ArmNames
  <2>2. nextId' = Later(0) + k
    BY <1>1, <2>1, Operand DEF VInv
  <2> QED
    BY <1>4, <2>1, <2>2
<1>k. Kept[1] < nextId
  <2>1. Len(stack) \in 1..Len(stack) /\ stack[Len(stack)] = Top /\ Len(keep) = Len(stack)
    BY <1>t, TopHere DEF VInv, Fits
  <2> QED
    BY <1>1, <2>1, OwnersOld DEF Owners, Results, Kept
<1>6. nextId <= m /\ Between(Y2, nextId, m) /\ Between(Z, nextId, m) /\ Y \cap Y2 = {}
      /\ (Y \cup Y2) \cap Z = {}
  BY <1>3, <1>4, <1>5, <1>k DEF Between, Tested, Loaded
<1> HIDE DEF a, a2, y2, s, Y2, Z
<1>7. First(y, Y, Past, a, m)
  BY <1>2, <1>5, <1>t, FirstResult
<1> HIDE DEF y, Y
<1>8. First(y, Y, Past, a, nextId') /\ Second(y2, Y2, {Kept[3], Kept[2]}, a2, Y, nextId')
      /\ Begun(s, Z, {Kept[3]}, Y \cup Y2, nextId')
  BY <1>2, <1>3, <1>5, <1>6, <1>7 DEF Begun, Second
<1>9. Midway
  BY <1>1, <1>8, Write2 DEF Midway
<1>10. Alike(stack, stack')
  <2>1. PICK f : f = [Top EXCEPT !.todo = Tail(Tail(@)), !.exit = @ \/ live,
                                 !.fall = @ /\ ~(pat = "wild")]
    OBVIOUS
  <2>2. Top \in Frame
    BY <1>t, TopHere
  <2>3. f.kind = "arm" /\ f.todo = Tail(Tail(Top.todo))
    BY <1>1, <2>1, <2>2 DEF Frame
  <2>4. PICK u \in Seq(Label) : u = Top.todo
    BY <2>2 DEF Frame
  <2>5. Tail(u) \in Seq(Label) /\ Len(Tail(u)) = Len(u) - 1 /\ Tail(u)[Len(Tail(u))] = u[Len(u)]
        /\ Len(u) \in Nat
    BY <1>1, <2>4, MergeTail
  <2>6. PICK v \in Seq(Label) : v = Tail(u) /\ Len(v) >= 2
    <3>1. Len(u) >= 3
      BY <1>1, <2>4
    <3>2. Len(Tail(u)) >= 2
      BY <2>5, <3>1
    <3> QED
      BY <2>5, <3>2
  <2>7. Tail(v)[Len(Tail(v))] = v[Len(v)]
    BY <2>6, MergeTail
  <2>8. Merge(f) = Merge(Top)
    BY <2>3, <2>4, <2>5, <2>6, <2>7 DEF Merge
  <2>9. TopBecomes(f)
    BY <1>1, <2>1 DEF TopBecomes
  <2> QED
    BY <1>1, <1>t, <2>3, <2>8, <2>9, AlikeTop DEF Owners, Results
<1> QED
  BY <1>1, <1>5, <1>6, <1>9, <1>10, WSame DEF Midway

LEMMA HoldWritten ==
  ASSUME TypeInv, VInv, VInv', WInv, HoldLeft
  PROVE  WInv'
<1>1. /\ Later(0) \in Nat /\ Later(0) >= nextId /\ nextId \in Nat
      /\ \A t \in Leaf : t = nextId /\ t < Later(0)
  BY Fresh DEF VInv
<1>2. Chunk(OpdCode, Leaf, {})
  BY OpdChunk DEF VInv
<1>3. /\ emitted' = emitted \o OpdCode /\ blocks' = blocks /\ code' = code /\ stack' = stack
      /\ keep' = keep /\ nextId' = Later(0)
  BY DEF HoldLeft, vars, Took
<1>4. Between(Leaf, nextId, nextId')
  BY <1>1, <1>3 DEF Between
<1> QED
  BY <1>1, <1>2, <1>3, <1>4, EmitWritten

LEMMA OperateWritten ==
  ASSUME TypeInv, VInv, VInv', WInv, Operate
  PROVE  WInv'
<1>1. /\ Later(0) \in Nat /\ Later(1) = Later(0) + 1 /\ Later(0) >= nextId /\ nextId \in Nat
      /\ \A t \in Leaf : t = nextId /\ t < Later(0)
  BY Fresh DEF VInv
<1>2. PICK h \in Nat : h = held[Len(held)].name
  BY HeldLess DEF Operate
<1>3. PICK y : y = OpdCode \o <<Write(Later(0), <<h, Opd>>)>>
  OBVIOUS
<1>4. Chunk(y, Leaf \cup {Later(0)}, Past \cup {h})
  BY <1>3, OperateChunk DEF VInv
<1>5. emitted \in Seq(Instr) /\ OpdCode \in Seq(Instr) /\ <<Write(Later(0), <<h, Opd>>)>> \in Seq(Instr)
  <2>1. Opd \in Nat
    BY Fresh DEF VInv
  <2> QED
    BY <1>1, <2>1, VInvParts, Operand, Instrs, Seq1, Seq2 DEF CodeOK, VInv
<1>6. emitted' = emitted \o y
  <2>1. PICK z \in Seq(Instr) : z = <<Write(Later(0), <<h, Opd>>)>>
    BY <1>5
  <2>2. emitted' = emitted \o OpdCode \o z
    BY <1>2, <2>1 DEF Operate
  <2>3. (emitted \o OpdCode) \o z = emitted \o (OpdCode \o z)
    BY <1>5, Regrouped, SMTT(30)
  <2> QED
    BY <1>3, <2>1, <2>2, <2>3
<1>7. /\ blocks' = blocks /\ code' = code /\ stack' = stack /\ keep' = keep /\ nextId' = Later(1)
  BY DEF Operate, vars, Took
<1>8. Between(Leaf \cup {Later(0)}, nextId, nextId') /\ nextId' \in Nat /\ nextId <= nextId'
  BY <1>1, <1>7 DEF Between
<1> QED
  BY <1>4, <1>6, <1>7, <1>8, EmitWritten

LEMMA EmptyMatchWritten ==
  ASSUME TypeInv, VInv, VInv', WInv, ValueEmptyMatch
  PROVE  WInv'
<1>1. /\ Later(0) \in Nat /\ Later(1) = Later(0) + 1 /\ Later(2) = Later(0) + 2
      /\ Later(0) >= nextId /\ nextId \in Nat /\ \A t \in Leaf : t = nextId /\ t < Later(0)
  BY Fresh DEF VInv
<1>2. PICK d \in Nat : d = Later(1) /\ d \notin Leaf
  BY <1>1
<1>3. PICK y : y = OpdCode \o <<Write(d, <<Opd>>)>>
  OBVIOUS
<1>4. Chunk(y, Leaf \cup {d}, Past)
  BY <1>2, <1>3, WriteOpd DEF VInv
<1>5. emitted \in Seq(Instr) /\ OpdCode \in Seq(Instr) /\ <<Write(d, <<Opd>>)>> \in Seq(Instr)
  <2>1. Opd \in Nat
    BY Fresh DEF VInv
  <2> QED
    BY <1>2, <2>1, VInvParts, Operand, Instrs, Seq1 DEF CodeOK, VInv
<1>6. emitted' = emitted \o y
  <2>1. PICK z \in Seq(Instr) : z = <<Write(d, <<Opd>>)>>
    BY <1>5
  <2>2. emitted' = emitted \o OpdCode \o z
    BY <1>2, <2>1 DEF ValueEmptyMatch
  <2>3. (emitted \o OpdCode) \o z = emitted \o (OpdCode \o z)
    BY <1>5, Regrouped, SMTT(30)
  <2> QED
    BY <1>3, <2>1, <2>2, <2>3
<1>7. /\ blocks' = blocks /\ code' = code /\ stack' = stack /\ keep' = keep /\ nextId' = Later(2)
  BY DEF ValueEmptyMatch, EmptyMatch, vars, Took
<1>8. Between(Leaf \cup {d}, nextId, nextId') /\ nextId' \in Nat /\ nextId <= nextId'
  BY <1>1, <1>2, <1>7 DEF Between
<1> QED
  BY <1>4, <1>6, <1>7, <1>8, EmitWritten

LEMMA StoreWritten ==
  ASSUME TypeInv, VInv, VInv', WInv, StoreValue
  PROVE  WInv'
<1>1. val \in Nat /\ emitted \in Seq(Instr) /\ nextId \in Nat
  BY VInvParts DEF StoreValue, NamesOK, CodeOK
<1>2. <<val>> \in Seq(Nat) /\ Use(<<val>>) \in Instr
  BY <1>1, Seq1, Instrs
<1>3. PICK y : y = <<Use(<<val>>)>>
  OBVIOUS
<1>4. Chunk(y, {}, Range(<<val>>))
  BY <1>2, <1>3, ChunkUse
<1>5. emitted' = emitted \o y
  BY <1>1, <1>2, <1>3 DEF StoreValue
<1>6. /\ blocks' = blocks /\ code' = code /\ stack' = stack /\ keep' = keep /\ nextId' = nextId
  BY DEF StoreValue, vars
<1>7. Between({}, nextId, nextId') /\ nextId <= nextId'
  BY <1>1, <1>6 DEF Between
<1> QED
  BY <1>1, <1>4, <1>5, <1>6, <1>7, EmitWritten

LEMMA ExprWritten ==
  ASSUME TypeInv, TypeInv', VInv, VInv', WInv, Unique, ValueExpr
  PROVE  WInv'
<1>1. Chunk(<<Use(<<Opd>>)>>, {}, {Opd}) /\ Chunk(ErrZero(Later(1)), {Later(1)}, {})
      /\ Chunk(<<>>, {}, {})
  BY ErrChunk, ChunkNone DEF VInv
<1>2. ASSUME ValueOrReturn PROVE WInv'
  <2>1. OrOp("or_return", "return", <<>>) /\ ValueOrOp(<<Use(<<Opd>>)>>)
    BY <1>2 DEF ValueOrReturn, OrReturn
  <2> QED
    BY <1>1, <2>1, OrOpWritten
<1>3. ASSUME ValueOrPanic PROVE WInv'
  <2>1. OrOp("or_panic", "unreachable", <<>>) /\ ValueOrOp(<<>>)
    BY <1>3 DEF ValueOrPanic, OrPanic
  <2> QED
    BY <1>1, <2>1, OrOpWritten
<1>4. ASSUME ValueOrZero PROVE WInv'
  <2>1. OrOp("or_zero", "jump", <<nextBlock + 2>>) /\ ValueOrOp(ErrZero(Later(1)))
    BY <1>4 DEF ValueOrZero, OrZero
  <2> QED
    BY <1>1, <2>1, OrOpWritten
<1> QED
  BY <1>2, <1>3, <1>4, HoldWritten, OperateWritten, OrElseWritten, IfWritten, CloseThenWritten,
     MatchWritten, ArmWritten, CloseExprWritten, EmptyMatchWritten
     DEF ValueExpr

-----------------------------------------------------------------------------
(* Statements and the ends of functions.                                    *)

LEMMA AlikeItself ==
  ASSUME TypeInv,
         stack' = stack \/ \E i \in DOMAIN stack : stack' = [stack EXCEPT ![i].exit = @ \/ live]
  PROVE  Alike(stack, stack')
<1>1. stack \in Seq(Frame)
  BY DEF TypeInv, TypeOK
<1>2. ASSUME stack' = stack PROVE Alike(stack, stack')
  <2>1. Alike(stack, stack)
    BY DEF Alike
  <2> QED
    BY <1>2, <2>1
<1>3. ASSUME NEW i \in DOMAIN stack, stack' = [stack EXCEPT ![i].exit = @ \/ live]
      PROVE  Alike(stack, stack')
  <2>1. PICK new : new = stack'
    OBVIOUS
  <2>2. Len(new) = Len(stack) /\ \A j \in 1..Len(stack) : j # i => new[j] = stack[j]
    BY <1>1, <1>3, <2>1
  <2>3. new[i] = [stack[i] EXCEPT !.exit = @ \/ live] /\ stack[i] \in Frame
    BY <1>1, <1>3, <2>1
  <2>4. new[i].kind = stack[i].kind /\ new[i].todo = stack[i].todo
    BY <2>3 DEF Frame
  <2>5. ASSUME NEW j \in 1..Len(stack)
        PROVE  /\ new[j].kind \in Owners <=> stack[j].kind \in Owners
               /\ new[j].kind \in Results
                    => stack[j].kind \in Results /\ Merge(new[j]) = Merge(stack[j])
    <3>1. CASE j = i
      BY <2>4, <3>1 DEF Merge
    <3>2. CASE j # i
      BY <2>2, <3>2
    <3> QED
      BY <3>1, <3>2
  <2>6. Alike(stack, new)
    BY <2>2, <2>5 DEF Alike
  <2> QED
    BY <2>1, <2>6
<1> QED
  BY <1>2, <1>3

(* A block that writes nothing is finished, and nothing is begun.           *)
LEMMA NothingWritten ==
  ASSUME TypeInv, TypeInv', VInv, WInv, NEW y, NEW R, Chunk(y, {}, R), NEW a, Adds(y, a, <<>>),
         nextId' = nextId
  PROVE  Midway /\ nextId <= nextId' /\ Dests(emitted') = {}
<1>1. nextId \in Nat /\ a \in Block
  BY VInvParts, AddedBlocks DEF NamesOK, Adds
<1>2. Between({}, nextId, nextId') /\ nextId <= nextId'
  BY <1>1 DEF Between
<1>3. First(y, {}, R, a, nextId')
  <2>1. PICK m \in Nat : m = nextId
    BY <1>1
  <2>2. nextId <= m /\ Between({}, nextId, m)
    BY <2>1 DEF Between
  <2>3. First(y, {}, R, a, m)
    BY <1>1, <2>2, FirstNew
  <2> QED
    BY <2>1, <2>3
<1>4. Begun(<<>>, {}, {}, {}, nextId')
  BY <1>2, ChunkNone DEF Begun
<1>5. Midway
  BY <1>3, <1>4, Write1 DEF Midway
<1>6. Dests(emitted') = {}
  BY ChunkNone DEF Adds, Chunk
<1> QED
  BY <1>2, <1>5, <1>6

LEMMA ReturnWritten ==
  ASSUME TypeInv, TypeInv', VInv, WInv, NEW names \in Seq(Nat), NEW l, Switch("return", <<>>, l),
         ReturnBlock(names)
  PROVE  Midway /\ nextId <= nextId'
<1>1. Chunk(ReadBack(names), {}, Range(names))
  BY ReadBackChunk
<1>2. Adds(ReadBack(names), Finished("return", <<>>), <<>>) /\ nextId' = nextId
  BY ReturnAdds
<1> QED
  BY <1>1, <1>2, NothingWritten

(* The flush begins: a frame that owns nothing.                             *)
LEMMA FlushWritten ==
  ASSUME TypeInv, TypeInv', VInv, VInv', WInv, NEW kind \in FlushKinds, BeginFlush(kind),
         BeginValueFlush, blocks' = blocks
  PROVE  WInv'
<1>1. PICK f : f = [NewFrame(kind, <<>>, NoLabel, FALSE) EXCEPT !.rest = Reverse(Front(deferred))]
  OBVIOUS
<1>2. f.kind = kind
  BY <1>1 DEF NewFrame
<1>3. Needs(f.kind) = 0 /\ Returned \in Seq(Nat) /\ f.kind \notin Owners
  BY <1>2, ReturnedType DEF FlushKinds, Needs, Owners, Results
<1>4. stack' = Append(stack, f) /\ keep' = Append(keep, Returned)
  BY <1>1, Zenon DEF BeginFlush, Push, BeginValueFlush, Keep
<1>5. Pushes(f, Returned)
  BY <1>3, <1>4 DEF Pushes
<1>6. emitted' = emitted /\ code' = code /\ nextId' = nextId /\ nextId \in Nat
  BY VInvParts DEF BeginValueFlush, NamesOK
<1>7. Midway
  BY <1>6 DEF Midway, WInv
<1>8. nextId <= nextId'
  BY <1>6
<1> QED
  BY <1>3, <1>5, <1>7, <1>8, WPush DEF Midway, Owners

(* break, continue and the loops without a counter.                         *)
LEMMA OutWritten ==
  ASSUME TypeInv, TypeInv', VInv, VInv', WInv, ValueBreak \/ ValueContinue
  PROVE  WInv'
<1>1. PICK l : /\ Adds(<<>>, Finished("jump", <<l>>), <<>>)
               /\ \/ stack' = stack
                  \/ \E i \in DOMAIN stack : stack' = [stack EXCEPT ![i].exit = @ \/ live]
               /\ keep' = keep /\ nextId' = nextId
  BY OutAdds
<1>2. Midway /\ nextId <= nextId'
  BY <1>1, ChunkNone, NothingWritten
<1>3. Alike(stack, stack')
  BY <1>1, AlikeItself
<1> QED
  BY <1>1, <1>2, <1>3, WSame DEF Midway

LEMMA LoopWritten ==
  ASSUME TypeInv, TypeInv', VInv, VInv', WInv, ValueOpenWhile \/ ValueOpenLoop
  PROVE  WInv'
<1>1. Adds(<<>>, Finished("jump", <<nextBlock>>), <<>>) /\ nextId' = nextId
      /\ keep' = Append(keep, <<>>)
  BY LoopAdds
<1>2. Midway /\ nextId <= nextId'
  BY <1>1, ChunkNone, NothingWritten
<1>3. PICK f : stack' = Append(stack, f) /\ Needs(f.kind) = 0 /\ f.kind \notin Owners
  <2>1. /\ NewFrame("cond", <<nextBlock + 1, nextBlock + 2>>, nextBlock, FALSE).kind = "cond"
        /\ NewFrame("loop", <<nextBlock + 1>>, nextBlock, FALSE).kind = "loop"
        /\ Needs("cond") = 0 /\ Needs("loop") = 0 /\ "cond" \notin Owners /\ "loop" \notin Owners
    BY DEF NewFrame, Needs, Owners, Results
  <2>2. \/ stack' = Append(stack, NewFrame("cond", <<nextBlock + 1, nextBlock + 2>>, nextBlock, FALSE))
        \/ stack' = Append(stack, NewFrame("loop", <<nextBlock + 1>>, nextBlock, FALSE))
    BY LoopAdds, Zenon
  <2> QED
    BY <2>1, <2>2
<1>4. Pushes(f, <<>>)
  <2>1. <<>> \in Seq(Nat) /\ Len(<<>>) = 0
    BY EmptyIn
  <2> QED
    BY <1>1, <1>3, <2>1 DEF Pushes
<1> QED
  BY <1>2, <1>3, <1>4, WPush DEF Midway, Owners

LEMMA CondWritten ==
  ASSUME TypeInv, TypeInv', VInv, VInv', WInv, ValueCloseWhileCond
  PROVE  WInv'
<1> DEFINE a == Finished("branch", Top.todo)  y == OpdCode \o <<Use(<<Opd>>)>>
<1>1. /\ Adds(y, a, <<>>) /\ keep' = keep /\ nextId' = Later(0) /\ TopIs({"cond"})
      /\ stack' = [stack EXCEPT ![Len(stack)] =
                     [Top EXCEPT !.kind = "while", !.todo = Tail(@), !.exit = live]]
  BY CondAdds
<1>2. a \in Block
  BY <1>1, AddedBlocks DEF Adds
<1>3. Chunk(y, Leaf, Past)
  BY UseOpd DEF VInv
<1>4. /\ Later(0) \in Nat /\ Later(0) >= nextId /\ nextId \in Nat
      /\ \A t \in Leaf : t = nextId /\ t < Later(0)
  BY Fresh DEF VInv
<1> HIDE DEF a, y
<1>5. First(y, Leaf, Past, a, nextId')
  <2>1. PICK m \in Nat : m = Later(0) /\ nextId <= m
    BY <1>4
  <2>2. Between(Leaf, nextId, m)
    BY <1>4, <2>1 DEF Between
  <2>3. First(y, Leaf, Past, a, m)
    BY <1>2, <1>3, <2>1, <2>2, FirstNew
  <2> QED
    BY <1>1, <2>1, <2>3
<1>6. Begun(<<>>, {}, {}, Leaf, nextId')
  BY ChunkNone DEF Begun, Between
<1>7. Midway
  BY <1>1, <1>5, <1>6, Write1 DEF Midway
<1>8. Alike(stack, stack')
  <2>1. PICK f : f = [Top EXCEPT !.kind = "while", !.todo = Tail(@), !.exit = live]
    OBVIOUS
  <2>2. Top \in Frame /\ Top.kind = "cond" /\ stack # <<>>
    BY <1>1, TopHere
  <2>3. f.kind = "while"
    BY <2>1, <2>2 DEF Frame
  <2>4. TopBecomes(f)
    BY <1>1, <2>1 DEF TopBecomes
  <2> QED
    BY <2>2, <2>3, <2>4, AlikeTop DEF Owners, Results
<1> QED
  BY <1>1, <1>4, <1>7, <1>8, WSame DEF Midway

LEMMA CloseLoopWritten ==
  ASSUME TypeInv, TypeInv', VInv, VInv', WInv, ValueCloseLoop
  PROVE  WInv'
<1> DEFINE a == BB(currentLabel, instrs \o CounterStep(Top), "jump", <<Top.head>>, live)
<1>1. /\ Adds(Step, a, <<>>) /\ TopIs(LoopKinds)
      /\ nextId' = nextId + (IF Top.kind = "for" THEN 2 ELSE 0)
      /\ keep' = SubSeq(keep, 1, Len(keep) - 1) /\ stack' = SubSeq(stack, 1, Len(stack) - 1)
  BY CloseLoopAdds
<1>2. stack # <<>> /\ nextId \in Nat
  BY <1>1, VInvParts DEF TopIs, NamesOK
<1>3. CASE Top.kind # "for"
  <2>1. Step = <<>> /\ nextId' = nextId
    BY <1>1, <1>2, <1>3 DEF Step
  <2>2. Adds(<<>>, a, <<>>)
    BY <1>1, <2>1
  <2>3. Midway /\ nextId <= nextId'
    BY <2>1, <2>2, ChunkNone, NothingWritten
  <2> QED
    BY <1>1, <1>2, <2>3, WPop DEF Midway
<1>4. CASE Top.kind = "for"
  <2>1. nextId' = nextId + 2 /\ TopIs({"for"})
    BY <1>1, <1>4 DEF TopIs
  <2>2. a \in Block
    BY <1>1, AddedBlocks DEF Adds
  <2>3. a.code = instrs \o <<Ev("inc", Top.head)>>
    BY <1>4 DEF BB, CounterStep
  <2> HIDE DEF a
  <2>4. First(Step, {nextId, nextId + 1, Kept[1]}, {Kept[2]}, a, nextId')
    <3>1. First(Step, {nextId, nextId + 1, Kept[1]}, {Kept[2]}, a, nextId + 2)
      BY <2>1, <2>2, <2>3, FirstStep
    <3> QED
      BY <2>1, <3>1
  <2>5. Begun(<<>>, {}, {}, {nextId, nextId + 1, Kept[1]}, nextId')
    BY ChunkNone DEF Begun, Between
  <2>6. Midway
    BY <1>1, <2>4, <2>5, Write1 DEF Midway
  <2>7. nextId <= nextId'
    BY <1>2, <2>1
  <2> QED
    BY <1>1, <1>2, <2>6, <2>7, WPop DEF Midway
<1> QED
  BY <1>3, <1>4

ForCode(y, Y, R, y2, Y2, R2, s, Z, Q) ==
  Chunk(y, Y, R) /\ Chunk(y2, Y2, R2) /\ Chunk(s, Z, Q) /\ ForBlocks(y, y2, s)
ForNames(Y, Y2, Z) ==
  /\ Y \cap Y2 = {} /\ (Y \cup Y2) \cap Z = {}
  /\ Between(Y \cup Y2 \cup Z, nextId, nextId') /\ nextId' \in Nat /\ nextId <= nextId'
ForKeeps(f, ks, Y, Z) == Pushes(f, ks) /\ f.kind = "for" /\ ks[1] \in Y \ Z

LEMMA ForParts ==
  ASSUME TypeInv, TypeInv', VInv, VInv', WInv,
         NEW y, NEW Y, NEW R, NEW y2, NEW Y2, NEW R2, NEW s, NEW Z, NEW Q,
         ForCode(y, Y, R, y2, Y2, R2, s, Z, Q), ForNames(Y, Y2, Z),
         NEW f, NEW ks, ForKeeps(f, ks, Y, Z)
  PROVE  WInv'
<1> USE DEF ForCode, ForNames, ForKeeps
<1> DEFINE a == BB(currentLabel, Append(instrs, Ev("init", nextBlock)), "jump", <<nextBlock>>, live)
           a2 == BB(nextBlock, <<>>, "lt", <<nextBlock + 1, nextBlock + 2>>, live)
<1>1. Adds2(y, a, y2, a2, s)
  BY DEF ForBlocks
<1>2. a \in Block /\ a2 \in Block
  BY <1>1, AddedBlocks DEF Adds2
<1> HIDE DEF a, a2
<1>3. PICK m \in Nat : m = nextId' /\ nextId <= m
  OBVIOUS
<1>4. Between(Y, nextId, m) /\ Between(Y2, nextId, m) /\ Between(Z, nextId, m)
  BY <1>3 DEF Between
<1>5. First(y, Y, R, a, nextId')
  <2>1. First(y, Y, R, a, m)
    BY <1>2, <1>3, <1>4, FirstNew
  <2> QED
    BY <1>3, <2>1
<1>6. Second(y2, Y2, R2, a2, Y, nextId') /\ Begun(s, Z, Q, Y \cup Y2, nextId')
  BY <1>2, <1>3, <1>4 DEF Second, Begun
<1>7. Midway
  BY <1>1, <1>5, <1>6, Write2 DEF Midway
<1>8. Dests(emitted') = Z
  BY <1>1 DEF Adds2, Chunk
<1>9. ks[1] \in Nat /\ nextId <= ks[1] /\ ks[1] < nextId' /\ ks[1] \notin Dests(emitted')
  BY <1>3, <1>4, <1>8 DEF Between
<1> QED
  BY <1>7, <1>9, WPush DEF Midway, Results

LEMMA ForWritten ==
  ASSUME TypeInv, TypeInv', VInv, VInv', WInv, ValueOpenFor
  PROVE  WInv'
<1>1. /\ Later(0) \in Nat /\ Later(1) = Later(0) + 1 /\ Later(2) = Later(0) + 2
      /\ Later(3) = Later(0) + 3 /\ Later(4) = Later(0) + 4 /\ Later(5) = Later(0) + 5
      /\ Later(6) = Later(0) + 6 /\ Later(7) = Later(0) + 7 /\ Later(8) = Later(0) + 8
      /\ Later(0) >= nextId /\ nextId \in Nat /\ \A t \in Leaf : t = nextId /\ t < Later(0)
  BY Fresh DEF VInv
<1>2. PICK f : f = NewFrame("for", <<nextBlock + 2>>, nextBlock, live)
  OBVIOUS
<1>3. f.kind = "for" /\ Needs(f.kind) = 2
  BY <1>2 DEF NewFrame, Needs
<1>4. stack' = Append(stack, f)
  BY <1>2, ForAdds, Zenon
<1>n. PICK l \in Nat : /\ l = Later(0) /\ Later(1) = l + 1 /\ Later(2) = l + 2 /\ Later(3) = l + 3
                       /\ Later(4) = l + 4 /\ Later(5) = l + 5 /\ Later(6) = l + 6
                       /\ Later(7) = l + 7 /\ Later(8) = l + 8
                       /\ nextId <= l /\ nextId \in Nat /\ \A t \in Leaf : t = nextId /\ t < l
  BY <1>1
<1>5. CASE /\ HeldHere /\ held[Len(held)].name \in Nat
           /\ held' = Front(held)
           /\ ForBlocks(RangeInit(held[Len(held)].name), RangeCond, <<Use(<<Later(2)>>)>>)
           /\ keep' = Append(keep, <<Later(0), Later(2)>>) /\ nextId' = Later(5)
  <2>1. PICK h \in Nat : h = held[Len(held)].name
    BY <1>5
  <2>2. PICK ks : ks = <<Later(0), Later(2)>>
    OBVIOUS
  <2>3. ks \in Seq(Nat) /\ Len(ks) = 2 /\ ks[1] = l
    BY <1>1, <1>n, <2>2, FewNames
  <2>4. Pushes(f, ks)
    BY <1>3, <1>4, <1>5, <2>2, <2>3 DEF Pushes
  <2>5. PICK Y, Y2 : Y = Leaf \cup {Later(0), Later(1)} /\ Y2 = {Later(2), Later(3), Later(4)}
    OBVIOUS
  <2>6. PICK s : s = <<Use(<<Later(2)>>)>>
    OBVIOUS
  <2>7. ForCode(RangeInit(h), Y, Past \cup {h}, RangeCond, Y2, {Later(0), Later(1)},
                s, {}, {Later(2)})
    <3>1. ForBlocks(RangeInit(h), RangeCond, s)
      BY <1>5, <2>1, <2>6
    <3> QED
      BY <2>5, <2>6, <3>1, RangeChunks DEF VInv, ForCode
  <2>8. \A t \in Y : t \in Nat /\ nextId <= t /\ t <= l + 1
    BY <1>n, <2>5
  <2>9. \A t \in Y2 : t \in Nat /\ l + 2 <= t /\ t <= l + 4
    BY <1>n, <2>5
  <2>10. nextId' = l + 5 /\ ks[1] \in Y
    BY <1>5, <1>n, <2>3, <2>5
  <2>11. ForNames(Y, Y2, {})
    <3>1. Y \cap Y2 = {}
      BY <2>8, <2>9
    <3>2. Between(Y \cup Y2 \cup {}, nextId, nextId')
      BY <1>n, <2>8, <2>9, <2>10 DEF Between
    <3> QED
      BY <1>n, <2>10, <3>1, <3>2 DEF ForNames
  <2>12. ForKeeps(f, ks, Y, {})
    BY <1>3, <2>4, <2>10 DEF ForKeeps
  <2> QED
    BY <2>7, <2>11, <2>12, ForParts, Zenon
<1>6. CASE /\ Complete /\ held' = held
           /\ ForBlocks(SliceInit, SliceCond, SliceBody)
           /\ keep' = Append(keep, <<Later(0), Later(3)>>) /\ nextId' = Later(8)
  <2>2. PICK ks : ks = <<Later(0), Later(3)>>
    OBVIOUS
  <2>3. ks \in Seq(Nat) /\ Len(ks) = 2 /\ ks[1] = l
    BY <1>1, <1>n, <2>2, FewNames
  <2>4. Pushes(f, ks)
    BY <1>3, <1>4, <1>6, <2>2, <2>3 DEF Pushes
  <2>5. PICK Y, Y2, Z : /\ Y = Leaf \cup {Later(0), Later(1), Later(2)}
                        /\ Y2 = {Later(3), Later(4), Later(5)} /\ Z = {Later(6), Later(7)}
    OBVIOUS
  <2>7. ForCode(SliceInit, Y, Past, SliceCond, Y2, {Later(0), Later(2)},
                SliceBody, Z, {Opd, Later(3)})
    BY <1>6, <2>5, SliceChunks DEF VInv, ForCode
  <2>8. \A t \in Y : t \in Nat /\ nextId <= t /\ t <= l + 2
    BY <1>n, <2>5
  <2>9. \A t \in Y2 : t \in Nat /\ l + 3 <= t /\ t <= l + 5
    BY <1>n, <2>5
  <2>10. \A t \in Z : t \in Nat /\ l + 6 <= t /\ t <= l + 7
    BY <1>n, <2>5
  <2>11. nextId' = l + 8 /\ ks[1] \in Y /\ ks[1] = l
    BY <1>6, <1>n, <2>3, <2>5
  <2>12. ForNames(Y, Y2, Z)
    <3>1. Y \cap Y2 = {}
      BY <2>8, <2>9
    <3>2. (Y \cup Y2) \cap Z = {}
      BY <2>8, <2>9, <2>10
    <3>3. Between(Y \cup Y2 \cup Z, nextId, nextId')
      BY <1>n, <2>8, <2>9, <2>10, <2>11 DEF Between
    <3> QED
      BY <1>n, <2>11, <3>1, <3>2, <3>3 DEF ForNames
  <2>13. ForKeeps(f, ks, Y, Z)
    <3>1. ks[1] \notin Z
      BY <2>10, <2>11
    <3> QED
      BY <1>3, <2>4, <2>11, <3>1 DEF ForKeeps
  <2> QED
    BY <2>7, <2>12, <2>13, ForParts, Zenon
<1> QED
  BY <1>5, <1>6, ForAdds

LEMMA StmtWritten ==
  ASSUME TypeInv, TypeInv', VInv, VInv', WInv, ValueStmt
  PROVE  WInv'
<1>1. ASSUME ValueDefer PROVE WInv'
  <2>1. UNCHANGED <<blocks, code, emitted, keep, stack, nextId>>
    BY <1>1 DEF ValueDefer, LowerDefer, nameVars
  <2> QED
    BY <2>1 DEF WInv
<1>2. ASSUME ValueReturn PROVE WInv'
  <2>1. CASE deferred = <<>>
    <3>1. /\ Switch("return", <<>>, nextBlock) /\ ReturnBlock(Returned)
          /\ stack' = stack /\ keep' = keep
      BY <1>2, <2>1 DEF ValueReturn, LowerReturn, FinishReturn
    <3>2. Midway /\ nextId <= nextId'
      BY <3>1, ReturnedType, ReturnWritten
    <3> QED
      BY <3>1, <3>2, AlikeItself, WSame DEF Midway
  <2>2. CASE deferred # <<>>
    <3>1. BeginFlush("flush_return") /\ BeginValueFlush /\ blocks' = blocks
      BY <1>2, <2>2 DEF ValueReturn, LowerReturn
    <3> QED
      BY <3>1, FlushWritten DEF FlushKinds
  <2> QED
    BY <2>1, <2>2
<1>3. ASSUME ValueFlushNext PROVE WInv'
  <2>1. TopIs(FlushKinds)
    BY <1>3 DEF ValueFlushNext, FlushNext
  <2>2. stack # <<>> /\ Top \in Frame /\ Top.kind \in FlushKinds
    BY <2>1, TopHere
  <2>3. PICK f : f = [Top EXCEPT !.rest = Tail(@)]
    OBVIOUS
  <2>4. f.kind = Top.kind
    BY <2>2, <2>3 DEF Frame
  <2>5. TopBecomes(f) /\ keep' = keep
    BY <1>3, <2>3 DEF ValueFlushNext, FlushNext, ReplaceTop, TopBecomes
  <2>6. Alike(stack, stack')
    BY <2>2, <2>4, <2>5, AlikeTop DEF FlushKinds, Results
  <2>7. blocks' = blocks /\ code' = code /\ emitted' = emitted /\ nextId' = nextId
    BY <1>3 DEF ValueFlushNext, FlushNext
  <2>8. Midway
    BY <2>7 DEF Midway, WInv
  <2>9. nextId <= nextId'
    BY <2>7, VInvParts DEF NamesOK
  <2> QED
    BY <2>5, <2>6, <2>8, <2>9, WSame DEF Midway
<1>4. ASSUME ValueEndFlushReturn PROVE WInv'
  <2>1. TopIs({"flush_return"}) /\ Switch("return", <<>>, nextBlock) /\ ReturnBlock(Kept)
        /\ stack' = SubSeq(stack, 1, Len(stack) - 1) /\ keep' = SubSeq(keep, 1, Len(keep) - 1)
    BY <1>4 DEF ValueEndFlushReturn, EndFlushReturn, FinishReturn, Pop, Drop
  <2>2. stack # <<>> /\ Kept \in Seq(Nat)
    BY <2>1, FitsTop DEF TopIs
  <2>3. Midway /\ nextId <= nextId'
    BY <2>1, <2>2, ReturnWritten
  <2> QED
    BY <2>1, <2>2, <2>3, WPop DEF Midway
<1> QED
  BY <1>1, <1>2, <1>3, <1>4, StoreWritten, OutWritten, LoopWritten, ForWritten, CondWritten,
     CloseLoopWritten DEF ValueStmt

LEMMA FnWritten ==
  ASSUME TypeInv, TypeInv', VInv, VInv', WInv, ValueFn
  PROVE  WInv'
<1>1. ASSUME ValueEndFn PROVE WInv'
  <2>1. CASE deferred = <<>>
    <3>1. /\ Switch("return", <<>>, NoLabel) /\ ReturnBlock(Returned)
          /\ stack' = stack /\ keep' = keep
      BY <1>1, <2>1 DEF ValueEndFn, EndFn, FinishFn
    <3>2. Midway /\ nextId <= nextId'
      BY <3>1, ReturnedType, ReturnWritten
    <3> QED
      BY <3>1, <3>2, AlikeItself, WSame DEF Midway
  <2>2. CASE deferred # <<>>
    <3>1. BeginFlush("flush_exit") /\ BeginValueFlush /\ blocks' = blocks
      BY <1>1, <2>2 DEF ValueEndFn, EndFn
    <3> QED
      BY <3>1, FlushWritten DEF FlushKinds
  <2> QED
    BY <2>1, <2>2
<1>2. ASSUME ValueEndFlushExit PROVE WInv'
  <2>1. TopIs({"flush_exit"}) /\ Switch("return", <<>>, NoLabel) /\ ReturnBlock(Kept)
        /\ stack' = SubSeq(stack, 1, Len(stack) - 1) /\ keep' = SubSeq(keep, 1, Len(keep) - 1)
    BY <1>2 DEF ValueEndFlushExit, EndFlushExit, FinishFn, Pop, Drop
  <2>2. stack # <<>> /\ Kept \in Seq(Nat)
    BY <2>1, FitsTop DEF TopIs
  <2>3. Midway /\ nextId <= nextId'
    BY <2>1, <2>2, ReturnWritten
  <2> QED
    BY <2>1, <2>2, <2>3, WPop DEF Midway
<1>3. ASSUME ValueEndMain PROVE WInv'
  <2>1. Blocks(<<<<>>>>, <<>>) /\ blocks' = Append(blocks, Finished("return", <<>>))
        /\ stack' = stack /\ keep' = keep /\ nextId' = nextId
    BY <1>3 DEF ValueEndMain, EndMain, FinishFn, Switch, JumpBlock
  <2>2. Adds(<<>>, Finished("return", <<>>), <<>>)
    BY <2>1, JumpAdds
  <2>3. Midway /\ nextId <= nextId'
    BY <2>1, <2>2, ChunkNone, NothingWritten
  <2> QED
    BY <2>1, <2>3, AlikeItself, WSame DEF Midway
<1>4. ASSUME ValueResetFn PROVE WInv'
  <2>1. emitted' = <<>> /\ code' = <<>> /\ blocks' = <<>> /\ stack' = <<>>
    BY <1>4 DEF ValueResetFn, ResetFn
  <2>2. Chunk(<<>>, {}, {}) /\ Len(<<>>) = 0
    BY ChunkNone
  <2> QED
    BY <2>1, <2>2 DEF WInv, Tidy, Pure, Apart, Spared, Chunk
<1> QED
  BY <1>1, <1>2, <1>3, <1>4 DEF ValueFn

LEMMA WInit == ValueInit => WInv
<1>1. Chunk(<<>>, {}, {}) /\ Len(<<>>) = 0
  BY ChunkNone
<1> QED
  BY <1>1 DEF ValueInit, Init, WInv, Tidy, Pure, Apart, Spared, Chunk

LEMMA WStep ==
  ASSUME TypeInv, TypeInv', VInv, VInv', WInv, Unique, [ValueNext]_valueVars
  PROVE  WInv'
<1>1. CASE UNCHANGED valueVars
  BY <1>1 DEF valueVars, nameVars, vars, WInv
<1>2. CASE ValueNext
  BY <1>2, StmtWritten, ExprWritten, FnWritten DEF ValueNext
<1> QED
  BY <1>1, <1>2

-----------------------------------------------------------------------------
(* No block a block can be followed by writes what it has written.          *)

Follow(X) ==
  {k \in DOMAIN blocks : \E j \in X : k > j /\ blocks[k].label \in Range(blocks[j].to)}

(* The blocks After computes, as a list of ever larger sets. *)
FollowRun(i, g) ==
  g = [n \in 0..Len(blocks) |-> IF n = 0 THEN Follow({i}) ELSE LET I == g[n - 1] IN I \cup Follow(I)]

LEMMA AfterIs ==
  ASSUME blocks \in Seq(Block), NEW i \in DOMAIN blocks
  PROVE  \E h : /\ h[0] = Follow({i})
                /\ \A m \in 1..Len(blocks) : h[m] = h[m - 1] \cup Follow(h[m - 1])
                /\ After(i) = h[Len(blocks)]
<1> DEFINE n == Len(blocks)
           X == SUBSET DOMAIN blocks
           step == [I \in X |-> I \cup Follow(I)]
           c == Follow({i})
<1>1. n \in Nat /\ c \in X
  BY DEF Follow
<1>2. \A I \in X : step[I] = I \cup Follow(I) /\ I \cup Follow(I) \in X
  BY DEF Follow
<1>3. step \in [X -> X]
  BY <1>2
<1> HIDE DEF step, X, c
<1>4. PICK f : Iterated(f, step, c, n, X)
  BY <1>1, <1>3, Iterate
<1>5. f \in [0..n -> X] /\ f[0] = c /\ \A m \in 1..n : f[m] = step[f[m - 1]]
  BY <1>4 DEF Iterated
<1>6. f = [m \in 0..n |-> f[m]]
  BY <1>5
<1>7. ASSUME NEW m \in 1..n PROVE f[m] = f[m - 1] \cup Follow(f[m - 1])
  <2>1. m - 1 \in 0..n
    OBVIOUS
  <2>2. f[m - 1] \in X
    BY <1>5, <2>1
  <2> QED
    BY <1>2, <1>5, <2>2
<1>8. FollowRun(i, f)
  <2>1. \A m \in 0..n : f[m] = IF m = 0 THEN Follow({i}) ELSE f[m - 1] \cup Follow(f[m - 1])
    <3> SUFFICES ASSUME NEW m \in 0..n
                 PROVE f[m] = IF m = 0 THEN Follow({i}) ELSE f[m - 1] \cup Follow(f[m - 1])
      OBVIOUS
    <3>1. CASE m = 0
      BY <1>5, <3>1 DEF c
    <3>2. CASE m # 0
      <4>1. m \in 1..n
        BY <3>2
      <4> QED
        BY <1>7, <3>2, <4>1
    <3> QED
      BY <3>1, <3>2
  <2> QED
    BY <1>6, <2>1 DEF FollowRun
<1> DEFINE g == CHOOSE h : FollowRun(i, h)
<1>9. FollowRun(i, g)
  BY <1>8, Zenon
<1>10. After(i) = g[n]
  BY DEF After, FollowRun, Follow
<1> HIDE DEF g
<1>11. /\ g[0] = Follow({i})
       /\ \A m \in 1..n : g[m] = g[m - 1] \cup Follow(g[m - 1])
  <2>1. \A m \in 0..n : g[m] = IF m = 0 THEN Follow({i}) ELSE g[m - 1] \cup Follow(g[m - 1])
    BY <1>9 DEF FollowRun
  <2>2. 0 \in 0..n /\ \A m \in 1..n : m \in 0..n /\ m # 0
    BY <1>1
  <2> QED
    BY <2>1, <2>2
<1> QED
  BY <1>10, <1>11

LEMMA AfterAhead ==
  ASSUME blocks \in Seq(Block), NEW i \in DOMAIN blocks, NEW k \in After(i)
  PROVE  k \in DOMAIN blocks /\ k > i /\ ~Parts(blocks, i, k)
<1> DEFINE C == {m \in DOMAIN blocks : m > i /\ \E j \in (i + 1)..m : blocks[j].label \in Range(blocks[i].to)}
<1>1. Len(blocks) \in Nat /\ DOMAIN blocks = 1..Len(blocks)
  OBVIOUS
<1>2. PICK h : /\ h[0] = Follow({i})
               /\ \A m \in 1..Len(blocks) : h[m] = h[m - 1] \cup Follow(h[m - 1])
               /\ After(i) = h[Len(blocks)]
  BY AfterIs
<1>3. Follow({i}) \subseteq C
  BY <1>1 DEF Follow
<1>4. ASSUME NEW I, I \subseteq C PROVE I \cup Follow(I) \subseteq C
  <2>1. ASSUME NEW m \in Follow(I) PROVE m \in C
    <3>1. m \in DOMAIN blocks /\ \E j \in I : m > j
      BY <2>1 DEF Follow
    <3>2. PICK j \in C : m > j
      BY <1>4, <3>1
    <3>3. PICK x \in (i + 1)..j : blocks[x].label \in Range(blocks[i].to)
      BY <3>2
    <3>4. x \in (i + 1)..m /\ m > i
      BY <1>1, <3>1, <3>2, <3>3
    <3> QED
      BY <3>1, <3>3, <3>4
  <2> QED
    BY <1>4, <2>1
<1> HIDE DEF C
<1> DEFINE S == {m \in 0..Len(blocks) : h[m] \subseteq C}
<1>5. 0 \in S
  <2>1. h[0] \subseteq C
    BY <1>2, <1>3, Zenon
  <2>2. 0 \in 0..Len(blocks)
    BY <1>1
  <2> QED
    BY <2>1, <2>2
<1>6. ASSUME NEW m \in 1..Len(blocks), m - 1 \in S PROVE m \in S
  <2>1. h[m - 1] \subseteq C
    BY <1>6
  <2>2. h[m] \subseteq C
    BY <1>2, <1>4, <2>1
  <2> QED
    BY <1>1, <2>2
<1> HIDE DEF S
<1>7. \A m \in 0..Len(blocks) : m \in S
  BY <1>1, <1>5, <1>6, Walk
<1>8. k \in C
  <2>1. Len(blocks) \in 0..Len(blocks)
    BY <1>1
  <2> QED
    BY <1>2, <1>7, <2>1 DEF S
<1> QED
  BY <1>1, <1>8 DEF C, Parts

LEMMA WrittenTypes == TypeInv /\ VInv /\ WInv => WrittenOnce
<1> SUFFICES ASSUME TypeInv, VInv, WInv PROVE WrittenOnce
  OBVIOUS
<1>1. blocks \in Seq(Block) /\ code \in Seq(Seq(Instr)) /\ Len(code) = Len(blocks)
  BY DEF TypeInv, TypeOK, VInv, ValueTypeOK
<1>2. Tidy(blocks, code, nextId) /\ \A i \in DOMAIN blocks : Writes(i) = Dests(code[i])
  BY DEF WInv, Writes, Dests
<1>3. ASSUME NEW i \in DOMAIN blocks PROVE Once(code[i])
  BY <1>1, <1>2 DEF Tidy
<1>4. ASSUME NEW i \in DOMAIN blocks, NEW k \in After(i), NEW t \in Writes(i) \cap Writes(k)
      PROVE  IsStep(k, t)
  <2>1. k \in DOMAIN blocks /\ k > i /\ ~Parts(blocks, i, k)
    BY <1>1, AfterAhead
  <2>2. i \in 1..Len(code) /\ k \in 1..Len(code) /\ i < k
    BY <1>1, <2>1
  <2>3. t \in Dests(code[i]) \cap Dests(code[k])
    BY <1>2, <1>4, <2>1
  <2>4. StepOf(blocks[k], code[k], t) \/ Parts(blocks, i, k)
    BY <1>2, <2>2, <2>3 DEF Tidy
  <2> QED
    BY <2>1, <2>4 DEF StepOf, IsStep
<1> QED
  BY <1>3, <1>4 DEF WrittenOnce, Once

(* But for the counter of a for loop, no path through the blocks writes a   *)
(* name twice before it jumps back.                                         *)
THEOREM NamesWrittenOnce == ValueSpec => []WrittenOnce
<1>1. ValueInit => VInv /\ WInv /\ Unique
  BY VInit, WInit, UniqueInit DEF ValueInit
<1>2. TypeInv /\ TypeInv' /\ VInv /\ [ValueNext]_valueVars => VInv'
  BY VStep
<1>3. TypeInv /\ Unique /\ [ValueNext]_valueVars => Unique'
  <2>1. [ValueNext]_valueVars => [Next]_vars
    BY LowerStep DEF valueVars
  <2> QED
    BY <2>1, UniqueStep
<1>4. TypeInv /\ TypeInv' /\ VInv /\ VInv' /\ Unique /\ WInv /\ [ValueNext]_valueVars => WInv'
  BY WStep
<1>5. ValueSpec => [](VInv /\ Unique /\ WInv)
  BY <1>1, <1>2, <1>3, <1>4, LowerTypes, PTL DEF ValueSpec
<1> QED
  BY <1>5, LowerTypes, WrittenTypes, PTL

-----------------------------------------------------------------------------
(* Where a name has surely been written.  For each name t there is a set T  *)
(* of labels such that t has been written whenever control arrives at one   *)
(* of them; a block that has not been handed out yet is in T if t has been  *)
(* written on every path on which it can be reached.                        *)

From(m) == {l \in Nat : l >= m}

(* The labels frame f can still jump to. *)
Aims(f) == Range(f.todo) \cup (IF f.kind \in Repeats THEN {f.head} ELSE {})

(* Blocks b with instructions c: t is read only where it has been written,  *)
(* and a jump to T comes from T or from a block that writes t.              *)
Flow(t, T, b, c) ==
  \A j \in 1..Len(c) :
     /\ t \in Reads(c[j]) => b[j].label \in T
     /\ \A l \in Range(b[j].to) \cap T : b[j].label \in T \/ t \in Dests(c[j])

(* What is started behind a label of T is in T. *)
Nested(T, st) ==
  \A i, j \in 1..Len(st) : i <= j /\ Aims(st[i]) \cap T # {} => Range(st[j].todo) \subseteq T

Hit(T, m, st) == From(m) \cap T # {} \/ \E i \in 1..Len(st) : Aims(st[i]) \cap T # {}

(* t has been written at the point reached in block l, behind list e. *)
Sure(t, T, e, l, m) == From(m) \subseteq T /\ (l \in T \/ t \in Dests(e))

Lasts(T, st, p) == \A k \in 1..Len(st) : k > p => Range(st[k].todo) \subseteq T

(* The names in the local variables of a frame that are read later. *)
Uses(kind, names) ==
  IF kind = "arm" THEN {names[2], names[3]}
  ELSE IF kind = "for" THEN {names[2]}
  ELSE IF kind \in FlushKinds THEN Range(names) ELSE {}

(* t is read when the frames above p have been closed. *)
Needed(t, p, st, h, kp) ==
  \/ \E k \in 1..Len(h) : h[k].name = t /\ h[k].depth = p
  \/ \E i \in 1..Len(st) : t \in Uses(st[i].kind, kp[i]) /\ p = i - 1

(* The results of the open constructs. *)
Awaits(t, st, kp) == \E i \in 1..Len(st) : st[i].kind \in Results /\ kp[i][1] = t

(* T is such a set for t, when e has been emitted in the current block, the *)
(* names of V have been computed and those from n on are fresh.             *)
Covers(t, T, e, V, n) ==
  /\ T \subseteq Nat /\ Flow(t, T, blocks, code) /\ Nested(T, stack)
  /\ Hit(T, nextBlock, stack) \/ t \in V \/ (\E p \in Nat : Needed(t, p, stack, held, keep))
        => Sure(t, T, e, currentLabel, nextBlock)
  /\ t \in Reads(e) => currentLabel \in T /\ From(nextBlock) \subseteq T
  /\ \A p \in Nat : Needed(t, p, stack, held, keep) => Lasts(T, stack, p)
  /\ Awaits(t, stack, keep) => T = {}
  /\ t >= n => T = {}

Covered(e, V, n) == \A t \in Nat : \E T : Covers(t, T, e, V, n)

LEMMA FreshFrom ==
  /\ \A m \in Nat : m \in From(m) /\ From(m) \subseteq Nat /\ From(m) # {}
  /\ \A m, k \in Nat : m <= k => From(k) \subseteq From(m) /\ k \in From(m)
  BY DEF From

(* What a list reads behind another.                                        *)
LEMMA ReadsCat ==
  ASSUME NEW a \in Seq(Instr), NEW b \in Seq(Instr)
  PROVE  /\ a \o b \in Seq(Instr) /\ Dests(a \o b) = Dests(a) \cup Dests(b)
         /\ \A t \in Reads(a \o b) : t \in Reads(a) \/ (t \in Reads(b) /\ t \notin Dests(a))
<1> DEFINE c == a \o b
<1>2. /\ c \in Seq(Instr) /\ Len(c) = Len(a) + Len(b) /\ Len(a) \in Nat /\ Len(b) \in Nat
      /\ DOMAIN a = 1..Len(a) /\ DOMAIN b = 1..Len(b) /\ DOMAIN c = 1..(Len(a) + Len(b))
      /\ \A k \in DOMAIN a : c[k] = a[k]
      /\ \A k \in DOMAIN b : c[k + Len(a)] = b[k]
  OBVIOUS
<1> HIDE DEF c
<1>3. \A k \in DOMAIN c : k \in DOMAIN a \/ (k - Len(a) \in DOMAIN b /\ c[k] = b[k - Len(a)] /\ k \notin DOMAIN a)
  <2> TAKE k \in DOMAIN c
  <2> SUFFICES ASSUME k \notin DOMAIN a
               PROVE  k - Len(a) \in DOMAIN b /\ c[k] = b[k - Len(a)]
    OBVIOUS
  <2>1. PICK l : l = k - Len(a)
    OBVIOUS
  <2>2. l \in DOMAIN b /\ l + Len(a) = k
    BY <1>2, <2>1
  <2>3. c[l + Len(a)] = b[l]
    BY <1>2, <2>2
  <2> QED
    BY <2>1, <2>2, <2>3
<1>4. \A k \in DOMAIN a : k \in DOMAIN c
  BY <1>2
<1>5. \A k \in DOMAIN b : k + Len(a) \in DOMAIN c
  BY <1>2
<1>6. Dests(c) = Dests(a) \cup Dests(b)
  <2>1. \A x \in Dests(c) : x \in Dests(a) \cup Dests(b)
    BY <1>2, <1>3 DEF Dests
  <2>2. \A x \in Dests(a) : x \in Dests(c)
    BY <1>2, <1>4 DEF Dests
  <2>3. \A x \in Dests(b) : x \in Dests(c)
    BY <1>2, <1>5 DEF Dests
  <2> QED
    BY <2>1, <2>2, <2>3
<1>7. ASSUME NEW t \in Reads(c) PROVE t \in Reads(a) \/ (t \in Reads(b) /\ t \notin Dests(a))
  <2>1. PICK k \in DOMAIN c : t \in Range(c[k].args) /\ \A j \in 1..(k - 1) : c[j].dest # t
    BY <1>7, ReadsAt
  <2>2. CASE k \in DOMAIN a
    <3>1. \A j \in 1..(k - 1) : j \in DOMAIN a
      BY <1>2, <2>2
    <3>2. t \in Range(a[k].args) /\ \A j \in 1..(k - 1) : a[j].dest # t
      BY <1>2, <2>1, <2>2, <3>1
    <3> QED
      BY <2>2, <3>2, ReadsAt
  <2>3. CASE k \notin DOMAIN a
    <3>1. PICK l : l = k - Len(a)
      OBVIOUS
    <3>2. l \in DOMAIN b /\ c[k] = b[l] /\ k \in Nat /\ k > Len(a) /\ l \in Nat
      BY <1>2, <1>3, <2>3, <3>1
    <3>3. \A j \in 1..(l - 1) : b[j].dest # t
      <4> TAKE j \in 1..(l - 1)
      <4>1. j \in DOMAIN b /\ j + Len(a) \in 1..(k - 1)
        BY <1>2, <3>1, <3>2
      <4>2. c[j + Len(a)] = b[j]
        BY <1>2, <4>1
      <4> QED
        BY <2>1, <4>1, <4>2
    <3>4. t \in Reads(b)
      BY <2>1, <3>2, <3>3, ReadsAt
    <3>5. \A j \in DOMAIN a : a[j].dest # t
      <4> TAKE j \in DOMAIN a
      <4>1. j \in 1..(k - 1)
        BY <1>2, <3>2
      <4> QED
        BY <1>2, <2>1, <4>1
    <3> QED
      BY <3>4, <3>5 DEF Dests
  <2> QED
    BY <2>2, <2>3
<1> QED
  BY <1>2, <1>6, <1>7 DEF c

-----------------------------------------------------------------------------
(* Instructions.                                                            *)

(* Nothing is known of a name before it is handed out. *)
LEMMA NotYet ==
  ASSUME NEW t \in Nat, NEW T, NEW e, NEW V, NEW n \in Nat, Covers(t, T, e, V, n), t >= n,
         nextBlock \in Nat
  PROVE  /\ T = {} /\ t \notin V /\ t \notin Reads(e)
         /\ \A p \in Nat : ~Needed(t, p, stack, held, keep)
         /\ Flow(t, {}, blocks, code)
<1>1. T = {} /\ Flow(t, {}, blocks, code)
  BY DEF Covers
<1>2. ~Sure(t, T, e, currentLabel, nextBlock)
  BY <1>1, FreshFrom DEF Sure
<1> QED
  BY <1>1, <1>2 DEF Covers

(* Jumps and back edges lead to labels that have been handed out; operands  *)
(* are held by activations that are open, the later ones by later ones.     *)
Depths(h, st) ==
  \A k \in 1..Len(h) : h[k].depth <= Len(st) /\ \A j \in 1..k : h[j].depth <= h[k].depth

Back(st, m) ==
  \A i \in 1..Len(st) : st[i].kind \in Repeats
     => /\ st[i].head \in Nat /\ st[i].head < m
        /\ \A j \in 1..Len(st) : st[i].head \notin Range(st[j].todo)

Below(b, m) == \A j \in 1..Len(b) : \A l \in Range(b[j].to) : l < m

Placed == Below(blocks, nextBlock) /\ Back(stack, nextBlock) /\ Depths(held, stack)

LEMMA AimsOld ==
  ASSUME TypeInv, Unique, Placed
  PROVE  /\ \A i \in 1..Len(stack) : \A l \in Aims(stack[i]) : l < nextBlock /\ l \notin From(nextBlock)
         /\ \A i \in 1..Len(stack) : \A l \in Range(stack[i].todo) : l < nextBlock
         /\ nextBlock \in Nat
<1>1. nextBlock \in Nat /\ DOMAIN stack = 1..Len(stack)
  BY DEF TypeInv, TypeOK
<1>2. ASSUME NEW i \in 1..Len(stack), NEW l \in Range(stack[i].todo) PROVE l < nextBlock
  <2>1. l \in Pending
    BY <1>1, <1>2 DEF Pending
  <2>2. l \in Numbered
    BY <2>1 DEF Unique
  <2> QED
    BY <1>1, <2>2 DEF Numbered, Entry
<1>3. ASSUME NEW i \in 1..Len(stack), NEW l \in Aims(stack[i]) PROVE l < nextBlock
  BY <1>2, <1>3 DEF Aims, Placed, Back
<1>4. \A i \in 1..Len(stack) : \A l \in Aims(stack[i]) : l \notin From(nextBlock)
  BY <1>1, <1>3 DEF From
<1> QED
  BY <1>1, <1>2, <1>3, <1>4

(* A name written on the way is known from the next fresh label on.         *)
LEMMA GivenFlow ==
  ASSUME NEW t, NEW b, NEW c, Len(b) = Len(c), NEW m \in Nat, Flow(t, {}, b, c), Below(b, m)
  PROVE  \A k \in Nat : m <= k => Flow(t, From(k), b, c)
<1> SUFFICES ASSUME NEW k \in Nat, m <= k, NEW j \in 1..Len(c)
             PROVE  t \notin Reads(c[j]) /\ Range(b[j].to) \cap From(k) = {}
  BY DEF Flow
<1>1. t \notin Reads(c[j])
  BY DEF Flow
<1>2. ASSUME NEW l \in Range(b[j].to), l \in From(k) PROVE FALSE
  BY <1>2 DEF Below, From
<1> QED
  BY <1>1, <1>2

LEMMA GivenNested ==
  ASSUME TypeInv, Unique, Placed, NEW k \in Nat, nextBlock <= k
  PROVE  /\ Nested(From(k), stack)
         /\ \A i \in 1..Len(stack) : Aims(stack[i]) \cap From(k) = {}
<1>1. \A i \in 1..Len(stack) : Aims(stack[i]) \cap From(k) = {}
  BY AimsOld DEF From
<1> QED
  BY <1>1 DEF Nested

LEMMA Behind ==
  ASSUME TypeInv, VInv, WInv, Unique, Placed,
         NEW e \in Seq(Instr), NEW V, NEW n \in Nat, Covered(e, V, n), nextId <= n,
         NEW y, NEW D, NEW R, Chunk(y, D, R), R \subseteq V, NEW G, G \subseteq D,
         NEW n2 \in Nat, n <= n2, \A d \in G : d \in Nat /\ n <= d /\ d < n2
  PROVE  Covered(e \o y, V \cup G, n2)
<1>1. y \in Seq(Instr) /\ Dests(y) = D /\ Reads(y) \subseteq R
  BY DEF Chunk
<1>2. PICK x : x = e \o y
  OBVIOUS
<1>3. /\ Dests(x) = Dests(e) \cup D
      /\ \A t \in Reads(x) : t \in Reads(e) \/ (t \in V /\ t \notin Dests(e))
  BY <1>1, <1>2, ReadsCat
<1>m. nextBlock \in Nat
  BY DEF TypeInv, TypeOK
<1> SUFFICES ASSUME NEW t \in Nat PROVE \E T : Covers(t, T, x, V \cup G, n2)
  BY <1>2 DEF Covered
<1>4. PICK T : Covers(t, T, e, V, n)
  BY DEF Covered
<1>5. CASE t \notin G
  <2>1. Sure(t, T, e, currentLabel, nextBlock) => Sure(t, T, x, currentLabel, nextBlock)
    BY <1>3 DEF Sure
  <2>2. t \in Reads(x) => currentLabel \in T /\ From(nextBlock) \subseteq T
    BY <1>3, <1>4 DEF Covers, Sure
  <2>3. t >= n2 => T = {}
    BY <1>4 DEF Covers
  <2> QED
    BY <1>4, <1>5, <2>1, <2>2, <2>3 DEF Covers
<1>6. CASE t \in G
  <2>1. t >= n /\ t < n2 /\ t \in Dests(x)
    BY <1>3, <1>6
  <2>2. /\ t \notin V /\ t \notin Reads(e) /\ Flow(t, {}, blocks, code)
        /\ \A p \in Nat : ~Needed(t, p, stack, held, keep)
    BY <1>4, <1>m, <2>1, NotYet
  <2>3. PICK Z : Z = From(nextBlock)
    OBVIOUS
  <2>4. Z \subseteq Nat /\ Nested(Z, stack) /\ Flow(t, Z, blocks, code)
    <3>1. Len(blocks) = Len(code)
      BY DEF VInv
    <3> QED
      BY <1>m, <2>2, <2>3, <3>1, GivenFlow, GivenNested, FreshFrom DEF Placed
  <2>5. Sure(t, Z, x, currentLabel, nextBlock)
    BY <2>1, <2>3 DEF Sure
  <2>6. t \notin Reads(x)
    BY <1>3, <2>2
  <2>7. ~Awaits(t, stack, keep)
    <3>1. nextId \in Nat
      BY DEF VInv, ValueTypeOK
    <3> QED
      BY <2>1, <3>1, OwnersOld DEF Awaits, Owners
  <2>8. Covers(t, Z, x, V \cup G, n2)
    BY <2>1, <2>2, <2>4, <2>5, <2>6, <2>7 DEF Covers
  <2> QED
    BY <2>8
<1> QED
  BY <1>5, <1>6

(* A name that is needed later is there. *)
LEMMA Also ==
  ASSUME NEW e, NEW V, NEW n, Covered(e, V, n), NEW W,
         \A t \in W : \E p \in Nat : Needed(t, p, stack, held, keep)
  PROVE  Covered(e, V \cup W, n)
<1> SUFFICES ASSUME NEW t \in Nat, NEW T, Covers(t, T, e, V, n) PROVE Covers(t, T, e, V \cup W, n)
  BY DEF Covered
<1> QED
  BY DEF Covers

LEMMA Fewer ==
  ASSUME NEW e, NEW V, NEW n \in Nat, Covered(e, V, n), NEW W, W \subseteq V, NEW n2 \in Nat, n <= n2
  PROVE  Covered(e, W, n2)
<1> SUFFICES ASSUME NEW t \in Nat, NEW T, Covers(t, T, e, V, n) PROVE Covers(t, T, e, W, n2)
  BY DEF Covered
<1> QED
  BY DEF Covers

-----------------------------------------------------------------------------
(* Blocks.                                                                  *)

LEMMA FlowMore ==
  ASSUME NEW t, NEW T, NEW b \in Seq(Block), NEW c \in Seq(Seq(Instr)), Len(b) = Len(c), Flow(t, T, b, c),
         NEW a, NEW x, t \in Reads(x) => a.label \in T,
         \A l \in Range(a.to) \cap T : a.label \in T \/ t \in Dests(x)
  PROVE  Flow(t, T, Append(b, a), Append(c, x))
<1>1. /\ Len(Append(c, x)) = Len(c) + 1 /\ Len(c) \in Nat
      /\ Append(c, x)[Len(c) + 1] = x /\ Append(b, a)[Len(c) + 1] = a
      /\ \A i \in 1..Len(c) : Append(c, x)[i] = c[i] /\ Append(b, a)[i] = b[i]
  BY AppendAt
<1> SUFFICES ASSUME NEW j \in 1..(Len(c) + 1)
             PROVE  /\ t \in Reads(Append(c, x)[j]) => Append(b, a)[j].label \in T
                    /\ \A l \in Range(Append(b, a)[j].to) \cap T :
                          Append(b, a)[j].label \in T \/ t \in Dests(Append(c, x)[j])
  BY <1>1 DEF Flow
<1>2. CASE j \in 1..Len(c)
  <2>1. Append(c, x)[j] = c[j] /\ Append(b, a)[j] = b[j]
    BY <1>1, <1>2
  <2> QED
    BY <1>2, <2>1 DEF Flow
<1>3. CASE j \notin 1..Len(c)
  <2>1. j = Len(c) + 1
    BY <1>1, <1>3
  <2>2. Append(c, x)[j] = x /\ Append(b, a)[j] = a
    BY <1>1, <2>1
  <2> QED
    BY <2>2
<1> QED
  BY <1>2, <1>3

(* A block that jumps to fresh labels and to those of open constructs. *)
Aimed(a) ==
  \A l \in Range(a.to) : l \in From(nextBlock) \/ \E i \in 1..Len(stack) : l \in Aims(stack[i])

LEMMA AimedHit ==
  ASSUME NEW T, NEW a, Aimed(a), NEW l \in Range(a.to) \cap T
  PROVE  Hit(T, nextBlock, stack)
  BY DEF Aimed, Hit

LEMMA FlowEnd ==
  ASSUME TypeInv, VInv, NEW t, NEW T, NEW x, NEW V, NEW n, Covers(t, T, x, V, n), NEW a,
         a.label = currentLabel, Aimed(a)
  PROVE  Flow(t, T, Append(blocks, a), Append(code, x))
<1>1. blocks \in Seq(Block) /\ code \in Seq(Seq(Instr)) /\ Len(blocks) = Len(code)
  BY DEF TypeInv, TypeOK, VInv, ValueTypeOK
<1>2. Flow(t, T, blocks, code) /\ (t \in Reads(x) => a.label \in T)
  BY DEF Covers
<1>3. ASSUME NEW l \in Range(a.to) \cap T PROVE a.label \in T \/ t \in Dests(x)
  <2>1. Hit(T, nextBlock, stack)
    BY AimedHit
  <2>2. Sure(t, T, x, currentLabel, nextBlock)
    BY <2>1 DEF Covers
  <2> QED
    BY <2>2 DEF Sure
<1> QED
  BY <1>1, <1>2, <1>3, FlowMore

(* A step that goes on in the current block or in a fresh one: what it does *)
(* to the open constructs, to the names and to the instructions.            *)
Moves ==
  /\ nextBlock <= nextBlock'
  /\ \A i \in 1..Len(stack') :
        IF i <= Len(stack)
        THEN Aims(stack'[i]) \subseteq Aims(stack[i]) /\ Range(stack'[i].todo) \subseteq Range(stack[i].todo)
        ELSE Aims(stack'[i]) \subseteq From(nextBlock)

Hands(V, n) ==
  /\ val' \in V \cup {NoName} /\ n <= nextId'
  /\ \A t, p \in Nat : Needed(t, p, stack', held', keep')
        => Needed(t, p, stack, held, keep) \/ (t \in V /\ p = Len(stack))
  /\ \A t \in Nat : Awaits(t, stack', keep') => Awaits(t, stack, keep) \/ t >= n

Begins(e, V) ==
  \/ emitted' = e /\ currentLabel' \in {currentLabel} \cup From(nextBlock)
  \/ Reads(emitted') \subseteq V /\ currentLabel' \in From(nextBlock)

Enough(t, T, V) ==
  Hit(T, nextBlock, stack) \/ t \in V \/ \E p \in Nat : Needed(t, p, stack, held, keep)

(* ... to one name. *)
PassesAt(t, V, n) ==
  /\ val' \in V \cup {NoName} /\ n <= nextId'
  /\ \A p \in Nat : Needed(t, p, stack', held', keep')
        => Needed(t, p, stack, held, keep) \/ (t \in V /\ p = Len(stack))
  /\ Awaits(t, stack', keep') => Awaits(t, stack, keep) \/ t >= n

LEMMA PassesEach == \A V, n : Hands(V, n) => \A t \in Nat : PassesAt(t, V, n)
  BY DEF Hands, PassesAt

LEMMA Onward ==
  ASSUME TypeInv, TypeInv', NEW t \in Nat, NEW T, NEW e, NEW V, NEW n \in Nat, Covers(t, T, e, V, n),
         nextId' \in Nat,
         Flow(t, T, blocks', code'), Moves, PassesAt(t, V, n), Begins(e, V)
  PROVE  Covers(t, T, emitted, {val}, nextId)'
<1>0. /\ nextBlock \in Nat /\ stack \in Seq(Frame)
      /\ nextBlock' \in Nat /\ stack' \in Seq(Frame)
  <2>1. nextBlock \in Nat /\ stack \in Seq(Frame)
    BY DEF TypeInv, TypeOK
  <2>2. nextBlock' \in Nat /\ stack' \in Seq(Frame)
    BY DEF TypeInv, TypeOK
  <2> QED
    BY <2>1, <2>2
<1>1. nextBlock \in Nat /\ nextBlock' \in Nat /\ Len(stack) \in Nat /\ Len(stack') \in Nat
  BY <1>0
<1>2. From(nextBlock') \subseteq From(nextBlock) /\ From(nextBlock) # {}
  BY <1>1, FreshFrom DEF Moves
<1>3. T \subseteq Nat /\ (Enough(t, T, V) => Sure(t, T, e, currentLabel, nextBlock))
  BY DEF Covers, Enough
<1>4. Enough(t, T, V) => Sure(t, T, emitted', currentLabel', nextBlock')
  BY <1>2, <1>3 DEF Begins, Sure
<1>5. Hit(T, nextBlock', stack') => Hit(T, nextBlock, stack)
  <2>1. ASSUME NEW i \in 1..Len(stack'), Aims(stack'[i]) \cap T # {} PROVE Hit(T, nextBlock, stack)
    <3>1. CASE i <= Len(stack)
      <4>1. i \in 1..Len(stack)
        BY <1>1, <3>1
      <4>2. Aims(stack'[i]) \subseteq Aims(stack[i])
        BY <3>1 DEF Moves
      <4>3. Aims(stack[i]) \cap T # {}
        BY <2>1, <4>2
      <4> QED
        BY <4>1, <4>3 DEF Hit
    <3>2. CASE ~(i <= Len(stack))
      BY <2>1, <3>2 DEF Moves, Hit
    <3> QED
      BY <3>1, <3>2
  <2> QED
    BY <1>2, <2>1 DEF Hit
<1>6. ASSUME NEW j \in 1..Len(stack'), j > Len(stack), Enough(t, T, V)
      PROVE  Range(stack'[j].todo) \subseteq T
  <2>1. Aims(stack'[j]) \subseteq From(nextBlock)
    BY <1>1, <1>6 DEF Moves
  <2>2. From(nextBlock) \subseteq T
    BY <1>3, <1>6 DEF Sure
  <2> QED
    BY <2>1, <2>2 DEF Aims
<1>7. Nested(T, stack')
  <2> SUFFICES ASSUME NEW i \in 1..Len(stack'), NEW j \in 1..Len(stack'), i <= j, Aims(stack'[i]) \cap T # {}
               PROVE  Range(stack'[j].todo) \subseteq T
    BY DEF Nested
  <2>1. Enough(t, T, V)
    BY <1>5 DEF Hit, Enough
  <2>2. CASE j <= Len(stack)
    <3>1. i \in 1..Len(stack) /\ j \in 1..Len(stack) /\ i <= Len(stack)
      BY <1>1, <2>2
    <3>2. Aims(stack[i]) \cap T # {} /\ Range(stack'[j].todo) \subseteq Range(stack[j].todo)
      BY <2>2, <3>1 DEF Moves
    <3>3. Range(stack[j].todo) \subseteq T
      BY <3>1, <3>2 DEF Covers, Nested
    <3> QED
      BY <3>2, <3>3
  <2>3. CASE ~(j <= Len(stack))
    BY <1>1, <1>6, <2>1, <2>3
  <2> QED
    BY <2>2, <2>3
<1>8. ASSUME NEW p \in Nat, Needed(t, p, stack', held', keep')
      PROVE  Enough(t, T, V) /\ Lasts(T, stack', p)
  <2>1. Needed(t, p, stack, held, keep) \/ (t \in V /\ p = Len(stack))
    BY <1>8 DEF PassesAt
  <2>2. Enough(t, T, V)
    BY <2>1 DEF Enough
  <2>3. ASSUME NEW k \in 1..Len(stack'), k > p PROVE Range(stack'[k].todo) \subseteq T
    <3>1. CASE k <= Len(stack)
      <4>1. k \in 1..Len(stack) /\ p # Len(stack)
        BY <1>1, <2>3, <3>1
      <4>2. Lasts(T, stack, p)
        BY <2>1, <4>1 DEF Covers
      <4>3. Range(stack[k].todo) \subseteq T
        BY <2>3, <4>1, <4>2 DEF Lasts
      <4> QED
        BY <3>1, <4>3 DEF Moves
    <3>2. CASE ~(k <= Len(stack))
      BY <1>1, <1>6, <2>2, <3>2
    <3> QED
      BY <3>1, <3>2
  <2> QED
    BY <2>2, <2>3 DEF Lasts
<1>9. t \in Reads(emitted') => currentLabel' \in T /\ From(nextBlock') \subseteq T
  <2>1. CASE emitted' = e /\ currentLabel' \in {currentLabel} \cup From(nextBlock)
    BY <1>2, <2>1 DEF Covers
  <2>2. CASE Reads(emitted') \subseteq V /\ currentLabel' \in From(nextBlock)
    BY <1>2, <1>3, <2>2 DEF Enough, Sure
  <2> QED
    BY <2>1, <2>2 DEF Begins
<1>10. t = val' => t \in V
  BY DEF PassesAt, NoName
<1>11. Awaits(t, stack', keep') => T = {}
  BY DEF PassesAt, Covers
<1>12. t >= nextId' => T = {}
  BY DEF PassesAt, Covers
<1>13. Hit(T, nextBlock', stack') \/ t = val' \/ (\E p \in Nat : Needed(t, p, stack', held', keep'))
          => Sure(t, T, emitted', currentLabel', nextBlock')
  BY <1>4, <1>5, <1>8, <1>10 DEF Enough
<1>14. \A p \in Nat : Needed(t, p, stack', held', keep') => Lasts(T, stack', p)
  BY <1>8
<1> QED
  BY <1>3, <1>7, <1>9, <1>11, <1>12, <1>13, <1>14 DEF Covers

(* A name computed in this step, behind a branch: it is there from label k  *)
(* on.                                                                      *)
Above(k) ==
  /\ nextBlock <= k /\ k <= nextBlock' /\ currentLabel' \in From(k)
  /\ \A i \in 1..Len(stack') :
        IF i <= Len(stack) THEN stack'[i] = stack[i] ELSE Range(stack'[i].todo) \subseteq From(k)

LEMMA Given ==
  ASSUME TypeInv, TypeInv', Unique, Placed, NEW t \in Nat, NEW T, NEW e, NEW V, NEW n \in Nat,
         Covers(t, T, e, V, n), t >= n, NEW k \in Nat, Flow(t, From(k), blocks', code'), Above(k),
         \A p \in Nat : Needed(t, p, stack', held', keep')
            => Needed(t, p, stack, held, keep) \/ p = Len(stack),
         ~Awaits(t, stack', keep'), nextId' \in Nat, t < nextId',
         \A i \in 1..Len(stack') : i > Len(stack) => i = Len(stack) + 1
  PROVE  Covers(t, From(k), emitted, {val}, nextId)'
<1>1. nextBlock \in Nat /\ Len(stack) \in Nat
  BY DEF TypeInv, TypeOK
<1>2. nextBlock' \in Nat /\ Len(stack') \in Nat
  BY DEF TypeInv, TypeOK
<1>3. From(k) \subseteq Nat /\ From(nextBlock') \subseteq From(k)
  BY <1>2, FreshFrom DEF Above
<1>4. \A p \in Nat : ~Needed(t, p, stack, held, keep)
  BY <1>1, NotYet
<1>5. \A i \in 1..Len(stack) : Aims(stack[i]) \cap From(k) = {}
  BY GivenNested DEF Above
<1>6. \A i \in 1..Len(stack') : i > Len(stack) => Range(stack'[i].todo) \subseteq From(k)
  BY <1>1, <1>2 DEF Above
<1>7. Nested(From(k), stack')
  <2> SUFFICES ASSUME NEW i \in 1..Len(stack'), NEW j \in 1..Len(stack'), i <= j,
                      Aims(stack'[i]) \cap From(k) # {}
               PROVE  Range(stack'[j].todo) \subseteq From(k)
    BY DEF Nested
  <2>1. i > Len(stack)
    <3>1. CASE i <= Len(stack)
      <4>1. i \in 1..Len(stack) /\ stack'[i] = stack[i]
        BY <1>1, <3>1 DEF Above
      <4> QED
        BY <1>5, <4>1
    <3> QED
      BY <1>1, <3>1
  <2>2. j > Len(stack)
    BY <1>1, <1>2, <2>1
  <2> QED
    BY <1>6, <2>2
<1>8. Sure(t, From(k), emitted', currentLabel', nextBlock')
  BY <1>3 DEF Above, Sure
<1>9. ASSUME NEW p \in Nat, Needed(t, p, stack', held', keep')
      PROVE  Lasts(From(k), stack', p)
  <2>1. p = Len(stack)
    BY <1>4, <1>9
  <2> QED
    BY <1>6, <2>1 DEF Lasts
<1>10. t \in Reads(emitted') => currentLabel' \in From(k) /\ From(nextBlock') \subseteq From(k)
  BY <1>3 DEF Above
<1>11. ~(t >= nextId')
  OBVIOUS
<1> QED
  BY <1>3, <1>7, <1>8, <1>9, <1>10, <1>11 DEF Covers

(* A step that goes on in a block the construct on top has been waiting     *)
(* for: a name only known behind it is forgotten.                           *)
Turns ==
  /\ currentLabel' \in Range(Top.todo) /\ nextBlock' = nextBlock /\ stack # <<>>
  /\ \A i \in 1..Len(stack') :
        /\ i <= Len(stack)
        /\ Aims(stack'[i]) \subseteq Aims(stack[i]) /\ Range(stack'[i].todo) \subseteq Range(stack[i].todo)

(* What is still needed is needed by what stays open. *)
Stays(n) ==
  /\ \A t, p \in Nat : Needed(t, p, stack', held', keep')
        => Needed(t, p, stack, held, keep) /\ p < Len(stack)
  /\ \A t \in Nat : t \in Reads(emitted')
        => \E p \in Nat : Needed(t, p, stack, held, keep) /\ p < Len(stack)
  /\ \A t \in Nat : Awaits(t, stack', keep') => Awaits(t, stack, keep)
  /\ n <= nextId'

LEMMA Turned ==
  ASSUME TypeInv, TypeInv', Unique, Unique', Placed, NEW t \in Nat, NEW T, NEW e, NEW V, NEW n \in Nat,
         Covers(t, T, e, V, n), nextId' \in Nat, VInv',
         Flow(t, T, blocks', code'), Turns, Stays(n), t # val'
  PROVE  \E Z : Covers(t, Z, emitted, {val}, nextId)'
<1>0. nextBlock \in Nat
  BY DEF TypeInv, TypeOK
<1>1. nextBlock \in Nat /\ Len(stack) \in Nat /\ Len(stack) \in 1..Len(stack) /\ stack[Len(stack)] = Top
  BY <1>0, StackBounds DEF Turns, Top
<1>2. Len(stack') \in Nat
  BY DEF TypeInv, TypeOK
<1>3. T \subseteq Nat
  BY DEF Covers
<1>4. ASSUME NEW p \in Nat, Needed(t, p, stack, held, keep), p < Len(stack) PROVE currentLabel' \in T
  <2>1. Lasts(T, stack, p)
    BY <1>4 DEF Covers
  <2> QED
    BY <1>1, <1>4, <2>1 DEF Lasts, Turns
<1>5. CASE currentLabel' \in T
  <2>1. Aims(Top) \cap T # {}
    BY <1>5 DEF Turns, Aims
  <2>2. Hit(T, nextBlock, stack)
    BY <1>1, <2>1 DEF Hit
  <2>3. From(nextBlock) \subseteq T
    BY <2>2 DEF Covers, Sure
  <2>4. Sure(t, T, emitted', currentLabel', nextBlock')
    BY <1>5, <2>3 DEF Sure, Turns
  <2>5. Nested(T, stack')
    <3> SUFFICES ASSUME NEW i \in 1..Len(stack'), NEW j \in 1..Len(stack'), i <= j, Aims(stack'[i]) \cap T # {}
                 PROVE  Range(stack'[j].todo) \subseteq T
      BY DEF Nested
    <3>1. i \in 1..Len(stack) /\ j \in 1..Len(stack)
      BY <1>1, <1>2 DEF Turns
    <3>2. Aims(stack[i]) \cap T # {} /\ Range(stack'[j].todo) \subseteq Range(stack[j].todo)
      BY DEF Turns
    <3>3. Range(stack[j].todo) \subseteq T
      BY <3>1, <3>2 DEF Covers, Nested
    <3> QED
      BY <3>2, <3>3
  <2>6. ASSUME NEW p \in Nat, Needed(t, p, stack', held', keep') PROVE Lasts(T, stack', p)
    <3>1. Lasts(T, stack, p)
      BY <2>6 DEF Stays, Covers
    <3>2. ASSUME NEW i \in 1..Len(stack'), i > p PROVE Range(stack'[i].todo) \subseteq T
      <4>0. i <= Len(stack) /\ Range(stack'[i].todo) \subseteq Range(stack[i].todo)
        BY DEF Turns
      <4>1. i \in 1..Len(stack) /\ Range(stack'[i].todo) \subseteq Range(stack[i].todo)
        BY <1>1, <1>2, <4>0
      <4>2. Range(stack[i].todo) \subseteq T
        BY <3>1, <3>2, <4>1 DEF Lasts
      <4> QED
        BY <4>1, <4>2
    <3> QED
      BY <3>2 DEF Lasts
  <2>7. t \in Reads(emitted') => currentLabel' \in T /\ From(nextBlock') \subseteq T
    BY <2>4, <1>5 DEF Sure
  <2>8. (Awaits(t, stack', keep') => T = {}) /\ (t >= nextId' => T = {})
    BY DEF Stays, Covers
  <2>9. Covers(t, T, emitted, {val}, nextId)'
    BY <1>3, <2>4, <2>5, <2>6, <2>7, <2>8 DEF Covers
  <2> QED
    BY <2>9
<1>6. CASE currentLabel' \notin T
  <2>z. PICK Z : Z = T \ From(nextBlock)
    OBVIOUS
  <2>1. Z \subseteq Nat /\ Z \subseteq T /\ From(nextBlock') \cap Z = {}
    BY <1>3, <2>z DEF Turns
  <2>2. \A p \in Nat : ~Needed(t, p, stack', held', keep')
    BY <1>4, <1>6 DEF Stays
  <2>3. t \notin Reads(emitted')
    BY <1>4, <1>6 DEF Stays
  <2>4. \A j \in 1..Len(code') : blocks'[j].label \in T => blocks'[j].label \in Z
    <3> SUFFICES ASSUME NEW j \in 1..Len(code'), blocks'[j].label \in T PROVE blocks'[j].label \notin From(nextBlock)
      BY <2>z
    <3>1. blocks' \in Seq(Block) /\ Len(code') = Len(blocks')
      <4>1. blocks' \in Seq(Block)
        BY DEF TypeInv, TypeOK
      <4> QED
        BY <4>1 DEF VInv
    <3>2. blocks'[j].label \in Started'
      BY <3>1 DEF Started, BlockLabels
    <3>3. blocks'[j].label \in Numbered'
      BY <3>2 DEF Unique
    <3>4. nextBlock' = nextBlock
      BY DEF Turns
    <3>5. PICK l : l = blocks'[j].label
      OBVIOUS
    <3>6. l \in {Entry} \cup 0..(nextBlock - 1)
      BY <3>3, <3>4, <3>5 DEF Numbered
    <3>7. l \notin From(nextBlock)
      BY <1>1, <3>6 DEF Entry, From
    <3> QED
      BY <3>5, <3>7
  <2>5. Flow(t, Z, blocks', code')
    BY <2>1, <2>4 DEF Flow
  <2>6. \A i \in 1..Len(stack') : Aims(stack'[i]) \cap Z = {}
    <3> SUFFICES ASSUME NEW i \in 1..Len(stack'), Aims(stack'[i]) \cap Z # {} PROVE FALSE
      OBVIOUS
    <3>0. i <= Len(stack) /\ Aims(stack'[i]) \subseteq Aims(stack[i])
      BY DEF Turns
    <3>1. i \in 1..Len(stack) /\ i <= Len(stack) /\ Aims(stack[i]) \cap T # {}
      BY <1>1, <1>2, <2>z, <3>0
    <3>2. Range(Top.todo) \subseteq T
      BY <1>1, <3>1 DEF Covers, Nested
    <3> QED
      BY <1>6, <3>2 DEF Turns
  <2>7. (Awaits(t, stack', keep') => Z = {}) /\ (t >= nextId' => Z = {})
    <3>1. (Awaits(t, stack', keep') => T = {}) /\ (t >= nextId' => T = {})
      BY DEF Stays, Covers
    <3> QED
      BY <2>z, <3>1
  <2>8. Nested(Z, stack') /\ ~Hit(Z, nextBlock', stack')
    BY <2>1, <2>6 DEF Nested, Hit
  <2>10. /\ ~(Hit(Z, nextBlock', stack') \/ t \in {val'}
              \/ (\E p \in Nat : Needed(t, p, stack', held', keep')))
         /\ \A p \in Nat : Needed(t, p, stack', held', keep') => Lasts(Z, stack', p)
    BY <2>2, <2>8
  <2>9. Covers(t, Z, emitted, {val}, nextId)'
    BY <2>1, <2>3, <2>5, <2>7, <2>8, <2>10 DEF Covers
  <2> QED
    BY <2>9
<1> QED
  BY <1>5, <1>6

(* The result of a construct once it has been closed. *)
LEMMA Stored ==
  ASSUME TypeInv, TypeInv', NEW t \in Nat, NEW T, NEW e, NEW V, NEW n \in Nat, Covers(t, T, e, V, n),
         Awaits(t, stack, keep), NEW Z, Z = {currentLabel'} \cup From(nextBlock'),
         currentLabel' \in Nat, Flow(t, Z, blocks', code'),
         \A i \in 1..Len(stack') : Aims(stack'[i]) \cap Z = {},
         \A p \in Nat : Needed(t, p, stack', held', keep') => Needed(t, p, stack, held, keep),
         ~Awaits(t, stack', keep'), nextId' \in Nat, t < nextId'
  PROVE  Covers(t, Z, emitted, {val}, nextId)'
<1>1. nextBlock \in Nat
  BY DEF TypeInv, TypeOK
<1>2. nextBlock' \in Nat
  BY DEF TypeInv, TypeOK
<1>3. Z \subseteq Nat
  BY <1>2, FreshFrom
<1>4. T = {}
  BY DEF Covers
<1>5. ~Sure(t, T, e, currentLabel, nextBlock)
  BY <1>1, <1>4, FreshFrom DEF Sure
<1>6. \A p \in Nat : ~Needed(t, p, stack', held', keep')
  BY <1>5 DEF Covers
<1>7. Sure(t, Z, emitted', currentLabel', nextBlock')
  BY DEF Sure
<1>8. Nested(Z, stack')
  BY DEF Nested
<1>9. t \in Reads(emitted') => currentLabel' \in Z /\ From(nextBlock') \subseteq Z
  OBVIOUS
<1>10. ~(t >= nextId')
  OBVIOUS
<1> QED
  BY <1>3, <1>6, <1>7, <1>8, <1>9, <1>10 DEF Covers

-----------------------------------------------------------------------------
(* Frames.  A block that jumps to where a construct continues has stored    *)
(* its result t.                                                            *)

Delivered(b, c, t, l) == \A j \in 1..Len(c) : l \in Range(b[j].to) => t \in Dests(c[j])

Delivers(b, c, st, kp) ==
  \A i \in 1..Len(st) : st[i].kind \in Results => Delivered(b, c, kp[i][1], Merge(st[i]))

(* Frames that wait for what they did. *)
Still(st, new) ==
  /\ Len(new) = Len(st)
  /\ \A i \in 1..Len(st) :
        new[i].kind = st[i].kind /\ new[i].todo = st[i].todo /\ new[i].head = st[i].head

LEMMA StillFrames ==
  ASSUME NEW st, NEW new, Still(st, new)
  PROVE  /\ \A h, kp, t, p : Needed(t, p, new, h, kp) => Needed(t, p, st, h, kp)
         /\ \A kp, t : Awaits(t, new, kp) => Awaits(t, st, kp)
         /\ \A h : Depths(h, st) => Depths(h, new)
         /\ \A m : Back(st, m) => Back(new, m)
         /\ \A b, c, kp : Delivers(b, c, st, kp) => Delivers(b, c, new, kp)
         /\ \A i \in 1..Len(new) : Aims(new[i]) = Aims(st[i]) /\ new[i].todo = st[i].todo
<1>1. \A h, kp, t, p : Needed(t, p, new, h, kp) => Needed(t, p, st, h, kp)
  BY DEF Still, Needed
<1>2. \A kp, t : Awaits(t, new, kp) => Awaits(t, st, kp)
  BY DEF Still, Awaits
<1>3. \A h : Depths(h, st) => Depths(h, new)
  BY DEF Still, Depths
<1>4. \A m : Back(st, m) => Back(new, m)
  BY DEF Still, Back
<1>5. \A b, c, kp : Delivers(b, c, st, kp) => Delivers(b, c, new, kp)
  BY DEF Still, Delivers, Merge
<1>6. \A i \in 1..Len(new) : Aims(new[i]) = Aims(st[i]) /\ new[i].todo = st[i].todo
  BY DEF Still, Aims
<1> QED
  BY <1>1, <1>2, <1>3, <1>4, <1>5, <1>6

LEMMA HeldDepth ==
  ASSUME NEW h \in Seq([name : Nat, depth : Nat]), NEW k \in 1..Len(h)
  PROVE  h[k].depth \in Nat /\ h[k].name \in Nat
<1>1. PICK S : S = [name : Nat, depth : Nat]
  OBVIOUS
<1>2. h \in Seq(S)
  BY <1>1
<1>3. h[k] \in S
  BY <1>2
<1>4. h[k] \in [name : Nat, depth : Nat]
  BY <1>1, <1>3
<1> QED
  BY <1>4

LEMMA NextTo ==
  /\ \A d, m \in Nat : d <= m => d <= m + 1
  /\ \A d, m \in Nat : d < m => d <= m - 1
  OBVIOUS

(* A frame on top of the others. *)
Over(st, kp, f, ks, new, kn) ==
  /\ st \in Seq(Frame) /\ kp \in Seq(Seq(Nat)) /\ Len(kp) = Len(st)
  /\ new = Append(st, f) /\ kn = Append(kp, ks)

LEMMA OverAt ==
  ASSUME NEW st, NEW kp, NEW f, NEW ks, NEW new, NEW kn, Over(st, kp, f, ks, new, kn)
  PROVE  /\ Len(st) \in Nat /\ Len(new) = Len(st) + 1
         /\ \A i \in 1..Len(st) : new[i] = st[i] /\ kn[i] = kp[i]
         /\ \A i \in 1..Len(new) : i \in 1..Len(st)
                                   \/ (i = Len(st) + 1 /\ new[i] = f /\ kn[i] = ks)
<1>1. /\ Len(new) = Len(st) + 1 /\ Len(st) \in Nat
      /\ \A i \in 1..Len(st) : new[i] = st[i]
      /\ new[Len(st) + 1] = f
  BY AppendAt DEF Over
<1>2. /\ \A i \in 1..Len(st) : kn[i] = kp[i]
      /\ kn[Len(st) + 1] = ks
  BY AppendAt DEF Over
<1> QED
  BY <1>1, <1>2

LEMMA OverNames ==
  ASSUME NEW st, NEW kp, NEW f, NEW ks, NEW new, NEW kn, Over(st, kp, f, ks, new, kn)
  PROVE  /\ \A h, t, p : Needed(t, p, new, h, kn)
               => Needed(t, p, st, h, kp) \/ (t \in Uses(f.kind, ks) /\ p = Len(st))
         /\ \A t : Awaits(t, new, kn) => Awaits(t, st, kp) \/ (f.kind \in Results /\ t = ks[1])
         /\ \A h \in Seq([name : Nat, depth : Nat]) : Depths(h, st) => Depths(h, new)
         /\ \A b, c : Delivers(b, c, st, kp) /\ (f.kind \in Results => Delivered(b, c, ks[1], Merge(f)))
               => Delivers(b, c, new, kn)
<1>1. /\ Len(st) \in Nat /\ Len(new) = Len(st) + 1
      /\ \A i \in 1..Len(st) : new[i] = st[i] /\ kn[i] = kp[i]
      /\ \A i \in 1..Len(new) : i \in 1..Len(st)
                                \/ (i = Len(st) + 1 /\ new[i] = f /\ kn[i] = ks)
  BY OverAt
<1>2. ASSUME NEW h, NEW t, NEW p, Needed(t, p, new, h, kn)
      PROVE  Needed(t, p, st, h, kp) \/ (t \in Uses(f.kind, ks) /\ p = Len(st))
  <2>1. CASE \E k \in 1..Len(h) : h[k].name = t /\ h[k].depth = p
    BY <2>1 DEF Needed
  <2>2. ASSUME NEW i \in 1..Len(new), t \in Uses(new[i].kind, kn[i]), p = i - 1
        PROVE  Needed(t, p, st, h, kp) \/ (t \in Uses(f.kind, ks) /\ p = Len(st))
    <3>1. CASE i \in 1..Len(st)
      BY <1>1, <2>2, <3>1 DEF Needed
    <3>2. CASE i = Len(st) + 1 /\ new[i] = f /\ kn[i] = ks
      BY <1>1, <2>2, <3>2
    <3> QED
      BY <1>1, <3>1, <3>2
  <2> QED
    BY <1>2, <2>1, <2>2 DEF Needed
<1>3. \A t : Awaits(t, new, kn) => Awaits(t, st, kp) \/ (f.kind \in Results /\ t = ks[1])
  BY <1>1 DEF Awaits
<1>4. \A h \in Seq([name : Nat, depth : Nat]) : Depths(h, st) => Depths(h, new)
  <2>0. PICK m \in Nat : m = Len(st)
    BY <1>1
  <2>9. Len(new) = m + 1
    BY <1>1, <2>0
  <2> SUFFICES ASSUME NEW h \in Seq([name : Nat, depth : Nat]), Depths(h, st), NEW k \in 1..Len(h)
               PROVE  h[k].depth <= Len(new)
    BY DEF Depths
  <2>1. h[k].depth <= m
    BY <2>0 DEF Depths
  <2>2. PICK d \in Nat : d = h[k].depth
    BY HeldDepth
  <2>3. d <= m + 1
    <3>1. d <= m
      BY <2>1, <2>2
    <3> QED
      BY <3>1, NextTo
  <2> QED
    BY <2>2, <2>3, <2>9
<1>5. ASSUME NEW b, NEW c, Delivers(b, c, st, kp),
             f.kind \in Results => Delivered(b, c, ks[1], Merge(f))
      PROVE  Delivers(b, c, new, kn)
  BY <1>1, <1>5 DEF Delivers
<1> QED
  BY <1>2, <1>3, <1>4, <1>5

(* The frame on top is gone. *)
Under(st, kp, new, kn) ==
  /\ st \in Seq(Frame) /\ kp \in Seq(Seq(Nat)) /\ Len(kp) = Len(st) /\ st # <<>>
  /\ new = SubSeq(st, 1, Len(st) - 1) /\ kn = SubSeq(kp, 1, Len(kp) - 1)

(* No operand is held by the activation on top. *)
Shallow(h, st) == \A k \in 1..Len(h) : h[k].depth < Len(st)

LEMMA UnderAt ==
  ASSUME NEW st, NEW kp, NEW new, NEW kn, Under(st, kp, new, kn)
  PROVE  /\ Len(st) \in Nat /\ Len(new) = Len(st) - 1
         /\ \A i \in 1..Len(new) : new[i] = st[i] /\ kn[i] = kp[i] /\ i \in 1..Len(st) /\ i < Len(st)
<1>1. Len(st) \in Nat /\ Len(st) # 0 /\ Len(kp) = Len(st)
  BY DEF Under
<1>2. PICK e \in Nat : e = Len(st) - 1
  <2>1. Len(st) - 1 \in Nat
    BY <1>1
  <2> QED
    BY <2>1
<1>3. new = SubSeq(st, 1, e) /\ kn = SubSeq(kp, 1, e)
  BY <1>1, <1>2 DEF Under
<1>4. Len(new) = e /\ \A i \in 1..e : new[i] = st[i]
  BY <1>1, <1>2, <1>3
<1>5. \A i \in 1..e : kn[i] = kp[i]
  BY <1>1, <1>2, <1>3
<1> QED
  BY <1>1, <1>2, <1>4, <1>5

LEMMA UnderNames ==
  ASSUME NEW st, NEW kp, NEW new, NEW kn, Under(st, kp, new, kn)
  PROVE  /\ \A h, t, p : Needed(t, p, new, h, kn) => Needed(t, p, st, h, kp)
         /\ \A h, t, p : Shallow(h, st) /\ Needed(t, p, new, h, kn) => p < Len(st)
         /\ \A t : Awaits(t, new, kn) => Awaits(t, st, kp)
         /\ \A b, c : Delivers(b, c, st, kp) => Delivers(b, c, new, kn)
         /\ \A m : Back(st, m) => Back(new, m)
         /\ \A h \in Seq([name : Nat, depth : Nat]) : Depths(h, st) /\ Shallow(h, st) => Depths(h, new)
<1>1. /\ Len(st) \in Nat /\ Len(new) = Len(st) - 1
      /\ \A i \in 1..Len(new) : new[i] = st[i] /\ kn[i] = kp[i] /\ i \in 1..Len(st) /\ i < Len(st)
  BY UnderAt
<1>2. \A h, t, p : Needed(t, p, new, h, kn) => Needed(t, p, st, h, kp)
  BY <1>1 DEF Needed
<1>3. ASSUME NEW h, NEW t, NEW p, Shallow(h, st), Needed(t, p, new, h, kn) PROVE p < Len(st)
  <2>1. CASE \E k \in 1..Len(h) : h[k].name = t /\ h[k].depth = p
    BY <1>3, <2>1 DEF Shallow
  <2>2. ASSUME NEW i \in 1..Len(new), p = i - 1 PROVE p < Len(st)
    BY <1>1, <2>2
  <2> QED
    BY <1>3, <2>1, <2>2 DEF Needed
<1>4. \A t : Awaits(t, new, kn) => Awaits(t, st, kp)
  BY <1>1 DEF Awaits
<1>5. \A b, c : Delivers(b, c, st, kp) => Delivers(b, c, new, kn)
  BY <1>1 DEF Delivers
<1>6. \A m : Back(st, m) => Back(new, m)
  BY <1>1 DEF Back
<1>7. ASSUME NEW h \in Seq([name : Nat, depth : Nat]), Depths(h, st), Shallow(h, st)
      PROVE  Depths(h, new)
  <2>0. PICK m \in Nat : m = Len(st)
    BY <1>1
  <2>9. Len(new) = m - 1
    BY <1>1, <2>0
  <2> SUFFICES ASSUME NEW k \in 1..Len(h) PROVE h[k].depth <= Len(new)
    BY <1>7 DEF Depths
  <2>1. h[k].depth < m
    BY <1>7, <2>0 DEF Shallow
  <2>2. PICK d \in Nat : d = h[k].depth
    BY HeldDepth
  <2>3. d <= m - 1
    <3>1. d < m
      BY <2>1, <2>2
    <3> QED
      BY <3>1, NextTo
  <2> QED
    BY <2>2, <2>3, <2>9
<1> QED
  BY <1>2, <1>3, <1>4, <1>5, <1>6, <1>7

(* The frame on top goes on with what it has left. *)
Narrowed(st, f, ks, new) ==
  /\ st \in Seq(Frame) /\ st # <<>> /\ Len(new) = Len(st) /\ new[Len(st)] = f
  /\ \A i \in 1..Len(st) : i # Len(st) => new[i] = st[i]
  /\ Uses(f.kind, ks) \subseteq Uses(st[Len(st)].kind, ks)
  /\ f.kind \in Results => st[Len(st)].kind \in Results /\ Merge(f) = Merge(st[Len(st)])
  /\ f.kind \in Repeats => st[Len(st)].kind \in Repeats /\ f.head = st[Len(st)].head
  /\ Range(f.todo) \subseteq Range(st[Len(st)].todo)

LEMMA NarrowedAt ==
  ASSUME NEW st, NEW f, NEW ks, NEW new, Narrowed(st, f, ks, new)
  PROVE  /\ Len(st) \in 1..Len(st) /\ Len(new) = Len(st)
         /\ \A i \in 1..Len(new) : i <= Len(st) /\ i \in 1..Len(st) /\ Aims(new[i]) \subseteq Aims(st[i])
                                   /\ Range(new[i].todo) \subseteq Range(st[i].todo)
<1>1. Len(st) \in 1..Len(st) /\ Len(new) = Len(st) /\ Len(st) \in Nat
  BY DEF Narrowed
<1>2. Aims(f) \subseteq Aims(st[Len(st)]) /\ Range(f.todo) \subseteq Range(st[Len(st)].todo)
  BY DEF Narrowed, Aims
<1>3. ASSUME NEW i \in 1..Len(new)
      PROVE  Aims(new[i]) \subseteq Aims(st[i]) /\ Range(new[i].todo) \subseteq Range(st[i].todo)
  <2>1. CASE i = Len(st)
    BY <1>2, <2>1 DEF Narrowed
  <2>2. CASE i # Len(st)
    <3>1. new[i] = st[i]
      BY <1>1, <2>2 DEF Narrowed
    <3> QED
      BY <3>1
  <2> QED
    BY <2>1, <2>2
<1>4. \A i \in 1..Len(new) : i \in 1..Len(st) /\ i <= Len(st)
  BY <1>1
<1> QED
  BY <1>1, <1>3, <1>4

LEMMA NarrowedNames ==
  ASSUME NEW st, NEW f, NEW kp, NEW new, Len(kp) = Len(st), Narrowed(st, f, kp[Len(kp)], new)
  PROVE  /\ \A h, t, p : Needed(t, p, new, h, kp) => Needed(t, p, st, h, kp)
         /\ \A h, t, p : Shallow(h, st) /\ Needed(t, p, new, h, kp) => p < Len(st)
         /\ \A t : Awaits(t, new, kp) => Awaits(t, st, kp)
         /\ \A b, c : Delivers(b, c, st, kp) => Delivers(b, c, new, kp)
         /\ \A m : Back(st, m) => Back(new, m)
         /\ \A h : Depths(h, st) => Depths(h, new)
<1>0. /\ Len(st) \in 1..Len(st) /\ Len(new) = Len(st)
      /\ \A i \in 1..Len(new) : i <= Len(st) /\ i \in 1..Len(st)
                                /\ Range(new[i].todo) \subseteq Range(st[i].todo)
  BY NarrowedAt
<1>1. \A i \in 1..Len(new) :
         /\ Uses(new[i].kind, kp[i]) \subseteq Uses(st[i].kind, kp[i])
         /\ new[i].kind \in Results => st[i].kind \in Results /\ Merge(new[i]) = Merge(st[i])
         /\ new[i].kind \in Repeats => st[i].kind \in Repeats /\ new[i].head = st[i].head
  <2> TAKE i \in 1..Len(new)
  <2>1. CASE i = Len(st)
    <3>1. new[i] = f /\ kp[i] = kp[Len(kp)] /\ st[i] = st[Len(st)]
      BY <2>1 DEF Narrowed
    <3> QED
      BY <3>1 DEF Narrowed
  <2>2. CASE i # Len(st)
    <3>1. new[i] = st[i]
      BY <1>0, <2>2 DEF Narrowed
    <3> QED
      BY <3>1
  <2> QED
    BY <2>1, <2>2
<1>2. \A h, t, p : Needed(t, p, new, h, kp) => Needed(t, p, st, h, kp)
  BY <1>0, <1>1 DEF Needed
<1>3. ASSUME NEW h, NEW t, NEW p, Shallow(h, st), Needed(t, p, new, h, kp) PROVE p < Len(st)
  <2>1. CASE \E k \in 1..Len(h) : h[k].name = t /\ h[k].depth = p
    BY <1>3, <2>1 DEF Shallow
  <2>2. ASSUME NEW i \in 1..Len(new), p = i - 1 PROVE p < Len(st)
    BY <1>0, <2>2
  <2> QED
    BY <1>3, <2>1, <2>2 DEF Needed
<1>4. \A t : Awaits(t, new, kp) => Awaits(t, st, kp)
  BY <1>0, <1>1 DEF Awaits
<1>5. \A b, c : Delivers(b, c, st, kp) => Delivers(b, c, new, kp)
  BY <1>0, <1>1 DEF Delivers
<1>6. ASSUME NEW m, Back(st, m) PROVE Back(new, m)
  <2> SUFFICES ASSUME NEW i \in 1..Len(new), new[i].kind \in Repeats
               PROVE  /\ new[i].head \in Nat /\ new[i].head < m
                      /\ \A j \in 1..Len(new) : new[i].head \notin Range(new[j].todo)
    BY DEF Back
  <2>1. i \in 1..Len(st) /\ st[i].kind \in Repeats /\ new[i].head = st[i].head
    BY <1>0, <1>1
  <2>2. /\ st[i].head \in Nat /\ st[i].head < m
        /\ \A j \in 1..Len(st) : st[i].head \notin Range(st[j].todo)
    BY <1>6, <2>1 DEF Back
  <2> QED
    BY <1>0, <2>1, <2>2
<1>7. \A h : Depths(h, st) => Depths(h, new)
  BY <1>0 DEF Depths
<1> QED
  BY <1>2, <1>3, <1>4, <1>5, <1>6, <1>7

-----------------------------------------------------------------------------
(* What holds between two steps.                                            *)

Good == Placed /\ Delivers(blocks, code, stack, keep) /\ Covered(emitted, {val}, nextId)

(* The label at which an open construct continues is one it waits for.      *)
LEMMA MergeIn ==
  ASSUME TypeInv, NEW i \in 1..Len(stack), stack[i].kind \in Results
  PROVE  Merge(stack[i]) \in Range(stack[i].todo)
<1>0. stack \in Seq(Frame)
  BY DEF TypeInv, TypeOK
<1>1. stack[i] \in Frame /\ FrameOK(stack[i])
  <2>1. stack[i] \in Frame /\ i \in DOMAIN stack
    BY <1>0
  <2> QED
    BY <2>1 DEF TypeInv, Shape, StackOK
<1>2. PICK f : f = stack[i]
  OBVIOUS
<1>3. f \in Frame /\ FrameOK(f) /\ f.kind \in Results
  BY <1>1, <1>2
<1>4. f.todo \in Seq(Label) /\ f.todo # <<>>
  <2>1. f.todo \in Seq(Label)
    BY <1>3 DEF Frame
  <2>2. f.kind = "arm" => f.todo # <<>>
    <3>1. PICK n : n = Len(f.todo)
      OBVIOUS
    <3>2. f.kind = "arm" => n % 2 = 1
      BY <1>3, <3>1 DEF FrameOK
    <3>3. f.todo = <<>> => n = 0
      BY <3>1
    <3>4. 0 % 2 = 0
      OBVIOUS
    <3> QED
      BY <3>2, <3>3, <3>4
  <2>3. f.kind # "arm" => Len(f.todo) = 2 \/ Len(f.todo) = 1
    BY <1>3 DEF FrameOK, Results
  <2>4. f.kind # "arm" => Len(f.todo) # 0
    <3>1. \A n : n = 2 \/ n = 1 => n # 0
      OBVIOUS
    <3> QED
      BY <2>3, <3>1, Zenon
  <2>5. f.kind # "arm" => f.todo # <<>>
    BY <2>4, NonEmpty
  <2> QED
    BY <2>1, <2>2, <2>5
<1>5. Len(f.todo) \in DOMAIN f.todo
  BY <1>4, LastIn
<1> QED
  BY <1>2, <1>5 DEF Merge, Range

LEMMA TargetsIn ==
  ASSUME NEW b \in Seq(Block)
  PROVE  \A j \in 1..Len(b) : \A l \in Range(b[j].to) : l \in Int
<1> SUFFICES ASSUME NEW j \in 1..Len(b), NEW l \in Range(b[j].to) PROVE l \in Int
  OBVIOUS
<1>1. PICK S : S = Block
  OBVIOUS
<1>2. b[j] \in S
  <2>1. b \in Seq(S)
    BY <1>1
  <2> QED
    BY <2>1
<1>3. b[j].to \in Seq(Label)
  BY <1>1, <1>2 DEF Block
<1>4. l \in Label
  BY <1>3 DEF Range
<1> QED
  BY <1>4 DEF Label, Entry

LEMMA BelowMore ==
  ASSUME NEW b \in Seq(Block), NEW a, NEW m \in Nat, NEW m2 \in Nat, m <= m2, Below(b, m),
         \A l \in Range(a.to) : l < m2
  PROVE  Below(Append(b, a), m2)
<1>1. /\ Len(Append(b, a)) = Len(b) + 1 /\ Len(b) \in Nat
      /\ \A i \in 1..Len(b) : Append(b, a)[i] = b[i]
      /\ Append(b, a)[Len(b) + 1] = a
  BY AppendAt
<1>2. ASSUME NEW j \in 1..Len(b), NEW l \in Range(b[j].to) PROVE l < m2
  <2>1. l < m /\ l \in Int
    BY <1>2, TargetsIn DEF Below
  <2> QED
    BY <2>1
<1>3. ASSUME NEW j \in 1..(Len(b) + 1) PROVE \A l \in Range(Append(b, a)[j].to) : l < m2
  <2>1. CASE j \in 1..Len(b)
    BY <1>1, <1>2, <2>1
  <2>2. CASE j \notin 1..Len(b)
    <3>1. j = Len(b) + 1
      BY <1>1, <2>2
    <3> QED
      BY <1>1, <3>1
  <2> QED
    BY <2>1, <2>2
<1> QED
  BY <1>1, <1>3 DEF Below

LEMMA BelowLater ==
  ASSUME NEW b \in Seq(Block), NEW m \in Nat, NEW m2 \in Nat, m <= m2, Below(b, m)
  PROVE  Below(b, m2)
<1> SUFFICES ASSUME NEW j \in 1..Len(b), NEW l \in Range(b[j].to) PROVE l < m2
  BY DEF Below
<1>1. l < m /\ l \in Int
  BY TargetsIn DEF Below
<1> QED
  BY <1>1

LEMMA BackLater ==
  ASSUME NEW st, NEW m \in Nat, NEW m2 \in Nat, m <= m2, Back(st, m)
  PROVE  Back(st, m2)
<1> SUFFICES ASSUME NEW i \in 1..Len(st), st[i].kind \in Repeats PROVE st[i].head < m2
  BY DEF Back
<1>1. PICK h \in Nat : h = st[i].head
  BY DEF Back
<1>2. h < m
  BY <1>1 DEF Back
<1>3. h < m2
  BY <1>2
<1> QED
  BY <1>1, <1>3

LEMMA DeliveredMore ==
  ASSUME NEW b \in Seq(Block), NEW c \in Seq(Seq(Instr)), Len(b) = Len(c), NEW t, NEW l,
         Delivered(b, c, t, l), NEW a, NEW x, l \in Range(a.to) => t \in Dests(x)
  PROVE  Delivered(Append(b, a), Append(c, x), t, l)
<1>1. /\ Len(Append(c, x)) = Len(c) + 1 /\ Len(c) \in Nat
      /\ Append(c, x)[Len(c) + 1] = x /\ Append(b, a)[Len(c) + 1] = a
      /\ \A i \in 1..Len(c) : Append(c, x)[i] = c[i] /\ Append(b, a)[i] = b[i]
  BY AppendAt
<1> SUFFICES ASSUME NEW j \in 1..(Len(c) + 1), l \in Range(Append(b, a)[j].to)
             PROVE  t \in Dests(Append(c, x)[j])
  BY <1>1 DEF Delivered
<1>2. CASE j \in 1..Len(c)
  BY <1>1, <1>2 DEF Delivered
<1>3. CASE j \notin 1..Len(c)
  <2>1. j = Len(c) + 1
    BY <1>1, <1>3
  <2> QED
    BY <1>1, <2>1
<1> QED
  BY <1>2, <1>3

(* Block a with instructions x delivers the result of a construct if it     *)
(* jumps to where that one continues.                                       *)
Fine(a, x) ==
  \A i \in 1..Len(stack) :
     stack[i].kind \in Results /\ Merge(stack[i]) \in Range(a.to) => keep[i][1] \in Dests(x)

LEMMA DeliversMore ==
  ASSUME NEW b \in Seq(Block), NEW c \in Seq(Seq(Instr)), Len(b) = Len(c),
         Delivers(b, c, stack, keep), NEW a, NEW x, Fine(a, x)
  PROVE  Delivers(Append(b, a), Append(c, x), stack, keep)
<1> SUFFICES ASSUME NEW i \in 1..Len(stack), stack[i].kind \in Results
             PROVE  Delivered(Append(b, a), Append(c, x), keep[i][1], Merge(stack[i]))
  BY DEF Delivers
<1>1. Delivered(b, c, keep[i][1], Merge(stack[i]))
  BY DEF Delivers
<1>2. Merge(stack[i]) \in Range(a.to) => keep[i][1] \in Dests(x)
  BY DEF Fine
<1> QED
  BY <1>1, <1>2, DeliveredMore

LEMMA FineFresh ==
  ASSUME TypeInv, Unique, Placed, NEW a, Range(a.to) \subseteq From(nextBlock), NEW x
  PROVE  Fine(a, x) /\ Aimed(a)
<1>1. ASSUME NEW i \in 1..Len(stack), stack[i].kind \in Results, Merge(stack[i]) \in Range(a.to)
      PROVE  FALSE
  <2>1. PICK l : l = Merge(stack[i])
    OBVIOUS
  <2>2. l \in Range(stack[i].todo)
    BY <1>1, <2>1, MergeIn
  <2>3. l \in Aims(stack[i])
    BY <2>2 DEF Aims
  <2>4. l \notin From(nextBlock)
    BY <2>3, AimsOld
  <2> QED
    BY <1>1, <2>1, <2>4
<1> QED
  BY <1>1 DEF Fine, Aimed

(* Nothing jumps to a label before it is handed out. *)
LEMMA Unreached ==
  ASSUME NEW b \in Seq(Block), NEW c, Len(b) = Len(c), NEW m \in Nat, Below(b, m), NEW l \in Nat, m <= l
  PROVE  \A t : Delivered(b, c, t, l)
<1>1. ASSUME NEW j \in 1..Len(c), l \in Range(b[j].to) PROVE FALSE
  <2>1. l < m
    BY <1>1 DEF Below
  <2> QED
    BY <2>1
<1> QED
  BY <1>1 DEF Delivered

-----------------------------------------------------------------------------
(* What a step does to the open constructs.                                 *)

Shifts == \A b, c : Delivers(b, c, stack, keep) => Delivers(b, c, stack', keep')
Settled == Back(stack', nextBlock') /\ Depths(held', stack')

LEMMA Lists ==
  ASSUME TypeInv
  PROVE  /\ nextBlock \in Nat /\ stack \in Seq(Frame) /\ Len(stack) \in Nat
         /\ blocks \in Seq(Block)
<1>1. nextBlock \in Nat /\ stack \in Seq(Frame) /\ blocks \in Seq(Block)
  BY DEF TypeInv, TypeOK
<1> QED
  BY <1>1

LEMMA ListsNext ==
  ASSUME TypeInv'
  PROVE  /\ nextBlock' \in Nat /\ stack' \in Seq(Frame) /\ Len(stack') \in Nat
         /\ blocks' \in Seq(Block)
<1>1. nextBlock' \in Nat /\ stack' \in Seq(Frame) /\ blocks' \in Seq(Block)
  BY DEF TypeInv, TypeOK
<1> QED
  BY <1>1

(* The open constructs wait. *)
LEMMA GoStill ==
  ASSUME TypeInv, TypeInv', Placed, Still(stack, stack'), keep' = keep, held' = held,
         nextBlock <= nextBlock'
  PROVE  /\ Moves /\ Settled /\ Shifts
         /\ \A V, n : val' \in V \cup {NoName} /\ n <= nextId' => Hands(V, n)
<1>1. nextBlock \in Nat /\ nextBlock' \in Nat /\ Len(stack') = Len(stack) /\ Len(stack) \in Nat
  BY Lists, ListsNext DEF Still
<1>2. /\ \A h, kp, t, p : Needed(t, p, stack', h, kp) => Needed(t, p, stack, h, kp)
      /\ \A kp, t : Awaits(t, stack', kp) => Awaits(t, stack, kp)
      /\ \A h : Depths(h, stack) => Depths(h, stack')
      /\ \A m : Back(stack, m) => Back(stack', m)
      /\ \A b, c, kp : Delivers(b, c, stack, kp) => Delivers(b, c, stack', kp)
      /\ \A i \in 1..Len(stack') : Aims(stack'[i]) = Aims(stack[i]) /\ stack'[i].todo = stack[i].todo
  BY StillFrames
<1>3. Moves
  BY <1>1, <1>2 DEF Moves
<1>4. Settled
  <2>1. Back(stack', nextBlock)
    BY <1>2 DEF Placed
  <2> QED
    BY <1>1, <1>2, <2>1, BackLater DEF Settled, Placed
<1>5. Shifts
  BY <1>2 DEF Shifts
<1>6. \A V, n : val' \in V \cup {NoName} /\ n <= nextId' => Hands(V, n)
  BY <1>2 DEF Hands
<1> QED
  BY <1>3, <1>4, <1>5, <1>6

(* An operand that waited has been read. *)
LEMMA DepthsFront ==
  ASSUME NEW h \in Seq([name : Nat, depth : Nat]), h # <<>>, NEW st, Depths(h, st)
  PROVE  /\ Depths(Front(h), st)
         /\ \A t, p, kp : Needed(t, p, st, Front(h), kp) => Needed(t, p, st, h, kp)
<1>1. PICK g : g = Front(h)
  OBVIOUS
<1>2. Len(g) = Len(h) - 1 /\ \A i \in 1..(Len(h) - 1) : g[i] = h[i]
  BY <1>1, FrontIn
<1>3. PICK e \in Nat : e = Len(h)
  OBVIOUS
<1>a. Len(g) = e - 1 /\ \A i \in 1..(e - 1) : g[i] = h[i]
  BY <1>2, <1>3
<1>b. \A i \in 1..(e - 1) : i \in 1..e /\ \A j \in 1..i : j \in 1..(e - 1)
  OBVIOUS
<1>4. \A i \in 1..Len(g) : i \in 1..Len(h) /\ g[i] = h[i]
  BY <1>3, <1>a, <1>b
<1>5. \A i \in 1..Len(g) : \A j \in 1..i : j \in 1..Len(g)
  BY <1>a, <1>b
<1>6. Depths(g, st)
  BY <1>4, <1>5 DEF Depths
<1>7. \A t, p, kp : Needed(t, p, st, g, kp) => Needed(t, p, st, h, kp)
  BY <1>4 DEF Needed
<1> QED
  BY <1>1, <1>6, <1>7

(* A construct is opened. *)
Opens(f, ks) ==
  /\ Over(stack, keep, f, ks, stack', keep') /\ Aims(f) \subseteq From(nextBlock)
  /\ nextBlock <= nextBlock' /\ held' \in {held, Front(held)} /\ (held' # held => held # <<>>)
  /\ f.kind \in Repeats => f.head \in Nat /\ f.head < nextBlock' /\ f.head \notin Range(f.todo)

LEMMA HeadHere == \A f : f.kind \in Repeats => f.head \in Aims(f)
  BY DEF Aims

LEMMA OpensBack ==
  ASSUME TypeInv, TypeInv', Unique, Placed, NEW f, NEW ks, Opens(f, ks)
  PROVE  Back(stack', nextBlock')
<1>1. nextBlock \in Nat /\ nextBlock' \in Nat /\ nextBlock <= nextBlock'
  BY Lists, ListsNext DEF Opens
<1>2. /\ \A i \in 1..Len(stack) : stack'[i] = stack[i]
      /\ \A i \in 1..Len(stack') : i \in 1..Len(stack)
                                   \/ (i = Len(stack) + 1 /\ stack'[i] = f)
  BY OverAt DEF Opens
<1>3. Back(stack, nextBlock')
  BY <1>1, BackLater DEF Placed
<1>4. /\ \A i \in 1..Len(stack) : \A l \in Aims(stack[i]) : l \notin From(nextBlock)
      /\ Aims(f) \subseteq From(nextBlock) /\ Range(f.todo) \subseteq Aims(f)
  BY AimsOld DEF Opens, Aims
<1>5. \A i \in 1..Len(stack) : Range(stack[i].todo) \subseteq Aims(stack[i])
  BY DEF Aims
<1> SUFFICES ASSUME NEW i \in 1..Len(stack'), stack'[i].kind \in Repeats
             PROVE  /\ stack'[i].head \in Nat /\ stack'[i].head < nextBlock'
                    /\ \A j \in 1..Len(stack') : stack'[i].head \notin Range(stack'[j].todo)
  BY DEF Back
<1>6. CASE i \in 1..Len(stack)
  <2>1. stack'[i] = stack[i]
    BY <1>2, <1>6
  <2>2. /\ stack[i].head \in Nat /\ stack[i].head < nextBlock'
        /\ \A j \in 1..Len(stack) : stack[i].head \notin Range(stack[j].todo)
    BY <1>3, <1>6, <2>1 DEF Back
  <2>3. stack[i].head \in Aims(stack[i])
    BY <2>1, HeadHere
  <2>4. stack[i].head \notin Range(f.todo)
    BY <1>4, <1>6, <2>3
  <2>5. \A j \in 1..Len(stack') : stack[i].head \notin Range(stack'[j].todo)
    BY <1>2, <2>2, <2>4
  <2> QED
    BY <2>1, <2>2, <2>5
<1>7. CASE i \notin 1..Len(stack)
  <2>1. stack'[i] = f /\ f.kind \in Repeats
    BY <1>2, <1>7
  <2>2. f.head \in Nat /\ f.head < nextBlock' /\ f.head \notin Range(f.todo)
    BY <2>1 DEF Opens
  <2>3. f.head \in From(nextBlock)
    BY <1>4, <2>1, HeadHere
  <2>4. \A j \in 1..Len(stack) : f.head \notin Range(stack[j].todo)
    BY <1>4, <1>5, <2>3
  <2>5. \A j \in 1..Len(stack') : f.head \notin Range(stack'[j].todo)
    BY <1>2, <2>2, <2>4
  <2> QED
    BY <2>1, <2>2, <2>5
<1> QED
  BY <1>6, <1>7

LEMMA GoOpen ==
  ASSUME TypeInv, TypeInv', VInv, Unique, Placed, NEW f, NEW ks, Opens(f, ks)
  PROVE  /\ Moves /\ Settled
         /\ \A t, p : Needed(t, p, stack', held', keep')
               => Needed(t, p, stack, held, keep) \/ (t \in Uses(f.kind, ks) /\ p = Len(stack))
         /\ \A t : Awaits(t, stack', keep') => Awaits(t, stack, keep) \/ (f.kind \in Results /\ t = ks[1])
         /\ \A b, c : Delivers(b, c, stack, keep) /\ (f.kind \in Results => Delivered(b, c, ks[1], Merge(f)))
               => Delivers(b, c, stack', keep')
<1>1. /\ Len(stack) \in Nat /\ Len(stack') = Len(stack) + 1
      /\ \A i \in 1..Len(stack) : stack'[i] = stack[i]
      /\ \A i \in 1..Len(stack') : i \in 1..Len(stack) \/ (i = Len(stack) + 1 /\ stack'[i] = f)
  BY OverAt DEF Opens
<1>2. held \in Seq([name : Nat, depth : Nat])
  BY DEF VInv, ValueTypeOK, Name
<1>3. Over(stack, keep, f, ks, stack', keep')
  BY DEF Opens
<1>4. /\ \A h, t, p : Needed(t, p, stack', h, keep')
               => Needed(t, p, stack, h, keep) \/ (t \in Uses(f.kind, ks) /\ p = Len(stack))
      /\ \A t : Awaits(t, stack', keep') => Awaits(t, stack, keep) \/ (f.kind \in Results /\ t = ks[1])
      /\ \A h \in Seq([name : Nat, depth : Nat]) : Depths(h, stack) => Depths(h, stack')
      /\ \A b, c : Delivers(b, c, stack, keep) /\ (f.kind \in Results => Delivered(b, c, ks[1], Merge(f)))
               => Delivers(b, c, stack', keep')
  BY <1>3, OverNames
<1>5. /\ held' \in Seq([name : Nat, depth : Nat]) /\ Depths(held', stack)
      /\ \A t, p : Needed(t, p, stack, held', keep) => Needed(t, p, stack, held, keep)
  <2>1. CASE held' = held
    BY <1>2, <2>1 DEF Placed
  <2>2. CASE held' # held
    <3>1. held' = Front(held) /\ held # <<>>
      BY <2>2 DEF Opens
    <3> QED
      BY <1>2, <3>1, FrontIn, DepthsFront DEF Placed
  <2> QED
    BY <2>1, <2>2
<1>6. Settled
  BY <1>4, <1>5, OpensBack DEF Settled
<1>7. Moves
  <2> SUFFICES ASSUME NEW i \in 1..Len(stack')
               PROVE  IF i <= Len(stack)
                      THEN Aims(stack'[i]) \subseteq Aims(stack[i]) /\ Range(stack'[i].todo) \subseteq Range(stack[i].todo)
                      ELSE Aims(stack'[i]) \subseteq From(nextBlock)
    BY DEF Moves, Opens
  <2>1. CASE i \in 1..Len(stack)
    BY <1>1, <2>1
  <2>2. CASE i \notin 1..Len(stack)
    <3>1. stack'[i] = f /\ ~(i <= Len(stack))
      BY <1>1, <2>2
    <3> QED
      BY <3>1 DEF Opens
  <2> QED
    BY <2>1, <2>2
<1> QED
  BY <1>4, <1>5, <1>6, <1>7

(* When no operand waits on top, those that wait do so further down. *)
LEMMA NoneOnTop ==
  ASSUME VInv, TypeInv, Complete, Placed
  PROVE  Shallow(held, stack)
<1>1. held \in Seq([name : Nat, depth : Nat]) /\ Len(stack) \in Nat
  BY Lists DEF VInv, ValueTypeOK, Name
<1>2. PICK m \in Nat, e \in Nat : m = Len(stack) /\ e = Len(held)
  <2>1. Len(held) \in Nat
    BY <1>1
  <2> QED
    BY <1>1, <2>1
<1> SUFFICES ASSUME NEW k \in 1..e PROVE held[k].depth < m
  BY <1>2 DEF Shallow
<1>3. e \in 1..e /\ k <= e /\ k \in 1..e /\ e # 0
  OBVIOUS
<1>4. held # <<>>
  <2>1. Len(<<>>) = 0
    OBVIOUS
  <2> QED
    BY <1>2, <1>3, <2>1
<1>5. held[e].depth # m
  BY <1>2, <1>4 DEF Complete, HeldHere
<1>6. held[e].depth <= m /\ held[k].depth <= held[e].depth
  BY <1>2, <1>3 DEF Placed, Depths
<1>7. PICK d \in Nat, b \in Nat : d = held[k].depth /\ b = held[e].depth
  BY <1>1, <1>2, <1>3, HeldDepth
<1>8. d <= b /\ b <= m /\ b # m
  BY <1>5, <1>6, <1>7
<1>9. d < m
  BY <1>8
<1> QED
  BY <1>7, <1>9

(* What stays open does not lose what it needs. *)
Spares ==
  /\ \A t, p : Needed(t, p, stack', held', keep') => Needed(t, p, stack, held, keep) /\ p < Len(stack)
  /\ \A t : Awaits(t, stack', keep') => Awaits(t, stack, keep)

LEMMA GoClose ==
  ASSUME TypeInv, TypeInv', VInv, Placed, Complete, Under(stack, keep, stack', keep'), held' = held,
         nextBlock <= nextBlock'
  PROVE  /\ Moves /\ Settled /\ Shifts /\ Spares
         /\ \A i \in 1..Len(stack') : i <= Len(stack) /\ stack'[i] = stack[i]
<1>1. nextBlock \in Nat /\ nextBlock' \in Nat
  BY Lists, ListsNext
<1>2. /\ Len(stack) \in Nat /\ Len(stack') = Len(stack) - 1
      /\ \A i \in 1..Len(stack') : stack'[i] = stack[i] /\ keep'[i] = keep[i] /\ i \in 1..Len(stack) /\ i < Len(stack)
  BY UnderAt
<1>3. /\ \A h, t, p : Needed(t, p, stack', h, keep') => Needed(t, p, stack, h, keep)
      /\ \A h, t, p : Shallow(h, stack) /\ Needed(t, p, stack', h, keep') => p < Len(stack)
      /\ \A t : Awaits(t, stack', keep') => Awaits(t, stack, keep)
      /\ \A b, c : Delivers(b, c, stack, keep) => Delivers(b, c, stack', keep')
      /\ \A m : Back(stack, m) => Back(stack', m)
      /\ \A h \in Seq([name : Nat, depth : Nat]) : Depths(h, stack) /\ Shallow(h, stack) => Depths(h, stack')
  BY UnderNames
<1>4. held \in Seq([name : Nat, depth : Nat]) /\ Shallow(held, stack)
  BY NoneOnTop DEF VInv, ValueTypeOK, Name
<1>5. \A i \in 1..Len(stack') : i <= Len(stack) /\ stack'[i] = stack[i]
  BY <1>2
<1>6. Moves
  BY <1>5 DEF Moves
<1>7. Settled
  <2>1. Back(stack', nextBlock)
    BY <1>3 DEF Placed
  <2> QED
    BY <1>1, <1>3, <1>4, <2>1, BackLater DEF Settled, Placed
<1>8. Shifts /\ Spares
  BY <1>3, <1>4 DEF Shifts, Spares
<1> QED
  BY <1>5, <1>6, <1>7, <1>8

LEMMA GoTurn ==
  ASSUME TypeInv, TypeInv', VInv, Placed, Complete, NEW f, Narrowed(stack, f, Kept, stack'),
         keep' = keep, held' = held, nextBlock' = nextBlock, currentLabel' \in Range(Top.todo)
  PROVE  Turns /\ Settled /\ Shifts /\ Spares
<1>1. nextBlock \in Nat /\ nextBlock' \in Nat /\ stack # <<>>
  BY Lists, ListsNext DEF Narrowed
<1>2. /\ Len(stack') = Len(stack)
      /\ \A i \in 1..Len(stack') : i <= Len(stack) /\ i \in 1..Len(stack) /\ Aims(stack'[i]) \subseteq Aims(stack[i])
                                   /\ Range(stack'[i].todo) \subseteq Range(stack[i].todo)
  BY NarrowedAt
<1>3. Len(keep) = Len(stack) /\ Narrowed(stack, f, keep[Len(keep)], stack')
  BY DEF VInv, Fits, Kept
<1>4. /\ \A h, t, p : Needed(t, p, stack', h, keep) => Needed(t, p, stack, h, keep)
      /\ \A h, t, p : Shallow(h, stack) /\ Needed(t, p, stack', h, keep) => p < Len(stack)
      /\ \A t : Awaits(t, stack', keep) => Awaits(t, stack, keep)
      /\ \A b, c : Delivers(b, c, stack, keep) => Delivers(b, c, stack', keep)
      /\ \A m : Back(stack, m) => Back(stack', m)
      /\ \A h : Depths(h, stack) => Depths(h, stack')
  BY <1>3, NarrowedNames
<1>5. Shallow(held, stack)
  BY NoneOnTop
<1>6. Turns
  BY <1>1, <1>2 DEF Turns
<1>7. Settled
  BY <1>4 DEF Settled, Placed
<1>8. Shifts /\ Spares
  BY <1>4, <1>5 DEF Shifts, Spares
<1> QED
  BY <1>6, <1>7, <1>8

-----------------------------------------------------------------------------
(* What a step does to the blocks.                                          *)

(* The block that is finished, when the next one is fresh. *)
LEMMA StepAt ==
  ASSUME TypeInv, TypeInv', VInv, VInv', NEW y, NEW V, NEW n \in Nat, NEW t \in Nat, NEW T,
         Covers(t, T, emitted \o y, V, n),
         NEW a, NEW s, Adds(y, a, s), a.label = currentLabel, Aimed(a), Moves, PassesAt(t, V, n),
         Reads(s) \subseteq V, currentLabel' \in From(nextBlock)
  PROVE  Covers(t, T, emitted, {val}, nextId)'
<1>1. PICK x : x = emitted \o y
  OBVIOUS
<1>2. nextId' \in Nat
  BY DEF VInv, ValueTypeOK
<1>3. blocks' = Append(blocks, a) /\ code' = Append(code, x) /\ emitted' = s
  BY <1>1 DEF Adds
<1>4. Begins(x, V) /\ Covers(t, T, x, V, n)
  BY <1>1, <1>3 DEF Begins
<1>5. Flow(t, T, blocks', code')
  BY <1>3, <1>4, FlowEnd
<1> QED
  BY <1>2, <1>4, <1>5, Onward

LEMMA Step1 ==
  ASSUME TypeInv, TypeInv', VInv, VInv', NEW y, NEW V, NEW n \in Nat, Covered(emitted \o y, V, n),
         NEW a, NEW s, Adds(y, a, s), a.label = currentLabel, Aimed(a), Moves, Hands(V, n),
         Reads(s) \subseteq V, currentLabel' \in From(nextBlock)
  PROVE  Covered(emitted, {val}, nextId)'
<1>1. ASSUME NEW t \in Nat PROVE \E T : Covers(t, T, emitted, {val}, nextId)'
  <2>1. PICK T : Covers(t, T, emitted \o y, V, n)
    BY DEF Covered
  <2>2. Covers(t, T, emitted, {val}, nextId)'
    BY <2>1, StepAt, PassesEach
  <2> QED
    BY <2>2
<1> QED
  BY <1>1 DEF Covered

(* No block is finished. *)
LEMMA Step0 ==
  ASSUME TypeInv, TypeInv', VInv, VInv', NEW y, NEW V, NEW n \in Nat, Covered(emitted \o y, V, n),
         blocks' = blocks, code' = code, emitted' = emitted \o y,
         currentLabel' \in {currentLabel} \cup From(nextBlock), Moves, Hands(V, n)
  PROVE  Covered(emitted, {val}, nextId)'
<1>1. PICK x : x = emitted \o y
  OBVIOUS
<1>2. nextId' \in Nat
  BY DEF VInv, ValueTypeOK
<1>4. Begins(x, V)
  BY <1>1 DEF Begins
<1>5. ASSUME NEW t \in Nat PROVE \E T : Covers(t, T, emitted, {val}, nextId)'
  <2>1. PICK T : Covers(t, T, x, V, n)
    BY <1>1 DEF Covered
  <2>2. Flow(t, T, blocks', code')
    BY <2>1 DEF Covers
  <2>3. Covers(t, T, emitted, {val}, nextId)'
    BY <1>2, <1>4, <2>1, <2>2, Onward, PassesEach
  <2> QED
    BY <2>3
<1> QED
  BY <1>5 DEF Covered

(* A block that is finished as soon as it is started. *)
LEMMA FlowFresh ==
  ASSUME NEW t, NEW T, NEW x, NEW V, NEW n, Covers(t, T, x, V, n),
         NEW b \in Seq(Block), NEW c \in Seq(Seq(Instr)), Len(b) = Len(c), Flow(t, T, b, c),
         NEW a, a.label \in From(nextBlock), Aimed(a), NEW y, t \in Reads(y) => t \in V
  PROVE  Flow(t, T, Append(b, a), Append(c, y))
<1>1. Hit(T, nextBlock, stack) \/ t \in V => a.label \in T
  BY DEF Covers, Sure
<1>2. t \in Reads(y) => a.label \in T
  BY <1>1
<1>3. ASSUME NEW l \in Range(a.to) \cap T PROVE a.label \in T \/ t \in Dests(y)
  BY <1>1, AimedHit
<1> QED
  BY <1>2, <1>3, FlowMore

(* The construct on top goes on, or what it was in. *)
LEMMA Turn1 ==
  ASSUME TypeInv, TypeInv', VInv, VInv', Unique, Unique', Placed,
         NEW y, NEW V, NEW n \in Nat, Covered(emitted \o y, V, n),
         NEW a, Adds(y, a, <<>>), a.label = currentLabel, Aimed(a), Turns, Stays(n)
  PROVE  \A t \in Nat : t # val' => \E T : Covers(t, T, emitted, {val}, nextId)'
<1>1. PICK x : x = emitted \o y
  OBVIOUS
<1>2. nextId' \in Nat
  BY DEF VInv, ValueTypeOK
<1>3. blocks' = Append(blocks, a) /\ code' = Append(code, x)
  BY <1>1 DEF Adds
<1>5. ASSUME NEW t \in Nat, t # val' PROVE \E T : Covers(t, T, emitted, {val}, nextId)'
  <2>1. PICK T : Covers(t, T, x, V, n)
    BY <1>1 DEF Covered
  <2>2. Flow(t, T, blocks', code')
    BY <1>3, <2>1, FlowEnd
  <2> QED
    BY <1>2, <1>5, <2>1, <2>2, Turned
<1> QED
  BY <1>5

-----------------------------------------------------------------------------
(* Steps that finish no block.                                              *)

LEMMA GoodNext ==
  ASSUME Settled, Below(blocks', nextBlock'), Delivers(blocks', code', stack', keep'),
         Covered(emitted, {val}, nextId)'
  PROVE  Good'
  BY DEF Good, Settled, Placed

LEMMA GoodParts ==
  ASSUME Good
  PROVE  /\ Placed /\ Delivers(blocks, code, stack, keep) /\ Covered(emitted, {val}, nextId)
         /\ Below(blocks, nextBlock) /\ Depths(held, stack)
  BY DEF Good, Placed

LEMMA Emits ==
  ASSUME TypeInv, TypeInv', VInv, VInv', Good, NEW y, NEW V, NEW n \in Nat, Covered(emitted \o y, V, n),
         blocks' = blocks, code' = code, emitted' = emitted \o y,
         currentLabel' \in {currentLabel} \cup From(nextBlock), Moves, Hands(V, n), Settled, Shifts
  PROVE  Good'
<1>1. Covered(emitted, {val}, nextId)'
  BY Step0
<1>2. Below(blocks', nextBlock')
  BY Lists, ListsNext, BelowLater, GoodParts DEF Moves
<1>3. Delivers(blocks', code', stack', keep')
  BY GoodParts DEF Shifts
<1> QED
  BY <1>1, <1>2, <1>3, GoodNext

(* The operand a construct starts with. *)
LEMMA BehindGood ==
  ASSUME TypeInv, VInv, WInv, Unique, Good, NEW y, NEW D, NEW R, Chunk(y, D, R), R \subseteq {val},
         NEW G, G \subseteq D, NEW n \in Nat, nextId <= n, Between(G, nextId, n)
  PROVE  Covered(emitted \o y, {val} \cup G, n)
<1>1. emitted \in Seq(Instr) /\ nextId \in Nat /\ Covered(emitted, {val}, nextId) /\ Placed
  BY GoodParts DEF VInv, ValueTypeOK
<1>2p. PICK m \in Nat, e \in Seq(Instr) : m = nextId /\ e = emitted
  BY <1>1
<1>2. PICK V : m = nextId /\ e = emitted /\ V = {val}
  BY <1>2p
<1>3. Covered(e, V, m) /\ nextId <= m /\ m <= n /\ R \subseteq V
  BY <1>1, <1>2
<1>4. \A d \in G : d \in Nat /\ m <= d /\ d < n
  BY <1>2 DEF Between
<1>5. Covered(e \o y, V \cup G, n)
  BY <1>1, <1>3, <1>4, Behind
<1> QED
  BY <1>2, <1>5

LEMMA PastVal == Past \subseteq {val}
  BY DEF Past

(* The operand is there behind its code. *)
LEMMA OpdThere ==
  ASSUME ValueTypeOK
  PROVE  Opd \in {val} \cup Leaf
<1>1. Opd \in Leaf \cup Past
  BY OpdChunk
<1> QED
  BY <1>1, PastVal

LEMMA SameStill ==
  ASSUME stack' = stack
  PROVE  Still(stack, stack')
<1>1. Still(stack, stack)
  BY DEF Still
<1> QED
  BY <1>1

LEMMA HoldGood ==
  ASSUME TypeInv, TypeInv', VInv, VInv', WInv, Unique, Good, HoldLeft
  PROVE  Good'
<1>1. /\ Later(0) \in Nat /\ Later(0) >= nextId /\ nextId \in Nat /\ Opd \in Nat
      /\ \A t \in Leaf : t = nextId /\ t < Later(0)
  BY Fresh DEF VInv
<1>2. Chunk(OpdCode, Leaf, {})
  BY OpdChunk DEF VInv
<1>3. /\ emitted' = emitted \o OpdCode /\ blocks' = blocks /\ code' = code /\ stack' = stack
      /\ keep' = keep /\ nextId' = Later(0) /\ val' = NoName /\ nextBlock' = nextBlock
      /\ currentLabel' = currentLabel
  BY DEF HoldLeft, vars, Took, Becomes
<1>4. PICK r : r = [name |-> Opd, depth |-> Len(stack)]
  OBVIOUS
<1>5. r.name = Opd /\ r.depth = Len(stack) /\ held' = Append(held, r)
  BY <1>4 DEF HoldLeft
<1>6. PICK n \in Nat : n = Later(0)
  BY <1>1
<1>7. PICK V : V = {val} \cup Leaf
  OBVIOUS
<1>8. Covered(emitted \o OpdCode, V, n)
  <2>1. Between(Leaf, nextId, n) /\ nextId <= n
    BY <1>1, <1>6 DEF Between
  <2> QED
    BY <1>2, <1>7, <2>1, BehindGood
<1>9. Opd \in V
  BY <1>7, OpdThere DEF VInv
<1>10. held \in Seq([name : Nat, depth : Nat]) /\ Len(stack) \in Nat
  BY Lists DEF VInv, ValueTypeOK, Name
<1>11. /\ Len(held') = Len(held) + 1 /\ Len(held) \in Nat
       /\ \A i \in 1..Len(held) : held'[i] = held[i]
       /\ held'[Len(held) + 1] = r
  BY <1>5, <1>10, AppendAt
<1>12. \A k \in 1..Len(held') : k \in 1..Len(held) \/ (k = Len(held) + 1 /\ held'[k] = r)
  BY <1>11
<1>13. \A t, p : Needed(t, p, stack', held', keep')
           => Needed(t, p, stack, held, keep) \/ (t = Opd /\ p = Len(stack))
  BY <1>3, <1>5, <1>11, <1>12 DEF Needed
<1>14. Hands(V, n)
  <2>1. val' \in V \cup {NoName} /\ n <= nextId'
    BY <1>1, <1>3, <1>6
  <2>2. \A t \in Nat : Awaits(t, stack', keep') => Awaits(t, stack, keep)
    BY <1>3
  <2> QED
    BY <1>9, <1>13, <2>1, <2>2 DEF Hands
<1>15. Depths(held', stack)
  <2>0. PICK e \in Nat, m \in Nat : e = Len(held) /\ m = Len(stack)
    BY <1>10, <1>11
  <2>1. \A k \in 1..e : /\ held'[k] = held[k] /\ held[k].depth <= m
                        /\ \A j \in 1..k : held[j].depth <= held[k].depth
    BY <1>11, <2>0, GoodParts DEF Depths
  <2>2. \A k \in 1..e : \A j \in 1..k : j \in 1..e
    BY <2>0
  <2>3. \A k \in 1..e : held'[k].depth <= m /\ \A j \in 1..k : held'[j].depth <= held'[k].depth
    BY <2>1, <2>2
  <2>4. held'[e + 1].depth = m /\ Len(held') = e + 1
    BY <1>5, <1>11, <2>0
  <2>5. \A k \in 1..(e + 1) : k \in 1..e \/ k = e + 1
    BY <2>0
  <2>6. m <= m
    BY <2>0
  <2>7. \A k \in 1..(e + 1) : held'[k].depth <= m
    BY <2>3, <2>4, <2>5, <2>6
  <2>8. \A k \in 1..(e + 1) : \A j \in 1..k : held'[j].depth <= held'[k].depth
    <3> TAKE k \in 1..(e + 1)
    <3>1. CASE k \in 1..e
      BY <2>3, <3>1
    <3>2. CASE k = e + 1
      BY <2>4, <2>7, <3>2
    <3> QED
      BY <2>5, <3>1, <3>2
  <2> QED
    BY <2>0, <2>4, <2>7, <2>8 DEF Depths
<1>16. Moves
  <2>1. nextBlock \in Nat
    BY Lists
  <2> QED
    BY <1>3, <2>1 DEF Moves
<1>17. Settled /\ Shifts
  BY <1>3, <1>15, GoodParts DEF Settled, Shifts, Placed
<1> QED
  BY <1>3, <1>8, <1>14, <1>16, <1>17, Emits

LEMMA OperateGood ==
  ASSUME TypeInv, TypeInv', VInv, VInv', WInv, Unique, Good, Operate
  PROVE  Good'
<1>1. /\ Later(0) \in Nat /\ Later(1) = Later(0) + 1 /\ Later(0) >= nextId /\ nextId \in Nat
      /\ \A t \in Leaf : t = nextId /\ t < Later(0)
  BY Fresh DEF VInv
<1>2. PICK h \in Nat : h = held[Len(held)].name
  BY HeldLess DEF Operate
<1>3. PICK y : y = OpdCode \o <<Write(Later(0), <<h, Opd>>)>>
  OBVIOUS
<1>4. Chunk(y, Leaf \cup {Later(0)}, Past \cup {h})
  BY <1>3, OperateChunk DEF VInv
<1>5. emitted \in Seq(Instr) /\ OpdCode \in Seq(Instr) /\ <<Write(Later(0), <<h, Opd>>)>> \in Seq(Instr)
  <2>1. Opd \in Nat
    BY Fresh DEF VInv
  <2> QED
    BY <1>1, <2>1, VInvParts, Operand, Instrs, Seq1, Seq2 DEF CodeOK, VInv
<1>6. emitted' = emitted \o y
  <2>1. PICK z \in Seq(Instr) : z = <<Write(Later(0), <<h, Opd>>)>>
    BY <1>5
  <2>2. emitted' = emitted \o OpdCode \o z
    BY <1>2, <2>1 DEF Operate
  <2>3. (emitted \o OpdCode) \o z = emitted \o (OpdCode \o z)
    BY <1>5, Regrouped, SMTT(30)
  <2> QED
    BY <1>3, <2>1, <2>2, <2>3
<1>7. /\ blocks' = blocks /\ code' = code /\ stack' = stack /\ keep' = keep /\ nextId' = Later(1)
      /\ nextBlock' = nextBlock /\ currentLabel' = currentLabel /\ val' = Later(0)
      /\ held' = Front(held) /\ held # <<>>
  BY DEF Operate, vars, Took, Becomes, HeldHere
<1>8. held \in Seq([name : Nat, depth : Nat]) /\ nextBlock \in Nat /\ emitted \in Seq(Instr)
  BY Lists DEF VInv, ValueTypeOK, Name
<1>9. \E p \in Nat : Needed(h, p, stack, held, keep)
  <2>1. Len(held) \in 1..Len(held)
    BY <1>7, <1>8
  <2>2. held[Len(held)].depth \in Nat
    BY <1>8, <2>1, HeldDepth
  <2> QED
    BY <1>2, <2>1, <2>2 DEF Needed
<1>10p. PICK m \in Nat, e \in Seq(Instr) : m = nextId /\ e = emitted
  BY <1>1, <1>8
<1>10. PICK W, V : m = nextId /\ e = emitted /\ W = {val} \cup {h}
                            /\ V = W \cup (Leaf \cup {Later(0)})
  BY <1>10p
<1>11. PICK n \in Nat : n = Later(1)
  BY <1>1
<1>12. Covered(e, W, m)
  <2>1. Covered(e, {val}, m)
    BY <1>10, GoodParts
  <2>2. \A t \in {h} : \E p \in Nat : Needed(t, p, stack, held, keep)
    BY <1>9
  <2>3. Covered(e, {val} \cup {h}, m)
    BY <2>1, <2>2, Also
  <2> QED
    BY <1>10, <2>3
<1>13. Covered(e \o y, V, n)
  <2>1. PICK D, R : D = Leaf \cup {Later(0)} /\ R = Past \cup {h}
    OBVIOUS
  <2>2. Chunk(y, D, R) /\ R \subseteq W /\ V = W \cup D
    BY <1>4, <1>10, <2>1, PastVal
  <2>3. m <= n /\ nextId <= m /\ \A d \in D : d \in Nat /\ m <= d /\ d < n
    BY <1>1, <1>10, <1>11, <2>1
  <2>4. Placed
    BY GoodParts
  <2> QED
    BY <1>12, <2>2, <2>3, <2>4, Behind
<1>14. /\ Depths(held', stack)
       /\ \A t, p : Needed(t, p, stack', held', keep') => Needed(t, p, stack, held, keep)
  <2>1. PICK g : g = Front(held)
    OBVIOUS
  <2>2. Depths(g, stack) /\ \A t, p, kp : Needed(t, p, stack, g, kp) => Needed(t, p, stack, held, kp)
    BY <1>7, <1>8, <2>1, GoodParts, DepthsFront
  <2> QED
    BY <1>7, <2>1, <2>2
<1>15. Hands(V, n)
  <2>1. val' \in V \cup {NoName} /\ n <= nextId'
    BY <1>7, <1>10, <1>11
  <2>2. \A t \in Nat : Awaits(t, stack', keep') => Awaits(t, stack, keep)
    BY <1>7
  <2> QED
    BY <1>14, <2>1, <2>2 DEF Hands
<1>16. Moves
  BY <1>7, <1>8 DEF Moves
<1>17. Settled /\ Shifts
  BY <1>7, <1>14, GoodParts DEF Settled, Shifts, Placed
<1>18. Covered(emitted \o y, V, n)
  BY <1>10, <1>13
<1> QED
  BY <1>6, <1>7, <1>15, <1>16, <1>17, <1>18, Emits

(* The constructs wait, the names are as before or have been read. *)
LEMMA Quiet ==
  ASSUME TypeInv, TypeInv', VInv, VInv', WInv, Unique, Good, NEW y, NEW R, Chunk(y, {}, R), R \subseteq {val},
         emitted' = emitted \o y, blocks' = blocks, code' = code, Still(stack, stack'), keep' = keep,
         held' = held, nextId' = nextId, nextBlock' = nextBlock, currentLabel' = currentLabel,
         val' \in {val, NoName}
  PROVE  Good'
<1>1. nextId \in Nat /\ nextBlock \in Nat
  BY Lists DEF VInv, ValueTypeOK
<1>2. PICK V : V = {val} \cup {}
  OBVIOUS
<1>3. Covered(emitted \o y, V, nextId)
  <2>1. Between({}, nextId, nextId) /\ nextId <= nextId /\ {} \subseteq {}
    BY <1>1 DEF Between
  <2>2. PICK n \in Nat : n = nextId
    BY <1>1
  <2>3. Covered(emitted \o y, {val} \cup {}, n)
    BY <2>1, <2>2, BehindGood
  <2> QED
    BY <1>2, <2>2, <2>3
<1>4. /\ Moves /\ Settled /\ Shifts
      /\ \A W, n : val' \in W \cup {NoName} /\ n <= nextId' => Hands(W, n)
  BY <1>1, GoodParts, GoStill
<1>5. Hands(V, nextId)
  BY <1>1, <1>2, <1>4
<1> QED
  BY <1>1, <1>3, <1>4, <1>5, Emits

LEMMA NothingMore ==
  ASSUME VInv
  PROVE  emitted \o <<>> = emitted
<1>1. emitted \in Seq(Instr)
  BY DEF VInv, ValueTypeOK
<1> QED
  BY <1>1

LEMMA StoreGood ==
  ASSUME TypeInv, TypeInv', VInv, VInv', WInv, Unique, Good, StoreValue
  PROVE  Good'
<1>1. val \in Nat /\ emitted \in Seq(Instr) /\ nextId \in Nat
  BY VInvParts DEF StoreValue, NamesOK, CodeOK
<1>2. <<val>> \in Seq(Nat) /\ Use(<<val>>) \in Instr
  BY <1>1, Seq1, Instrs
<1>3. PICK y : y = <<Use(<<val>>)>>
  OBVIOUS
<1>4. Chunk(y, {}, Range(<<val>>)) /\ Range(<<val>>) \subseteq {val}
  BY <1>2, <1>3, ChunkUse, Range1
<1>5. emitted' = emitted \o y
  BY <1>1, <1>2, <1>3 DEF StoreValue
<1>6. /\ blocks' = blocks /\ code' = code /\ stack' = stack /\ keep' = keep /\ nextId' = nextId
      /\ held' = held /\ nextBlock' = nextBlock /\ currentLabel' = currentLabel /\ val' = NoName
  BY DEF StoreValue, vars, Becomes
<1> QED
  BY <1>4, <1>5, <1>6, SameStill, Quiet

LEMMA DeferGood ==
  ASSUME TypeInv, TypeInv', VInv, VInv', WInv, Unique, Good, ValueDefer
  PROVE  Good'
<1>1. /\ blocks' = blocks /\ code' = code /\ stack' = stack /\ keep' = keep /\ nextId' = nextId
      /\ held' = held /\ nextBlock' = nextBlock /\ currentLabel' = currentLabel /\ val' = val
      /\ emitted' = emitted
  BY DEF ValueDefer, LowerDefer, nameVars
<1>2. emitted' = emitted \o <<>>
  BY <1>1, NothingMore
<1>5. PICK y, R : y = <<>> /\ R = {}
  OBVIOUS
<1>4. Chunk(y, {}, R) /\ R \subseteq {val} /\ emitted' = emitted \o y
  BY <1>2, <1>5, ChunkNone
<1> QED
  BY <1>1, <1>4, SameStill, Quiet

LEMMA FlushNextGood ==
  ASSUME TypeInv, TypeInv', VInv, VInv', WInv, Unique, Good, ValueFlushNext
  PROVE  Good'
<1>1. /\ blocks' = blocks /\ code' = code /\ keep' = keep /\ nextId' = nextId
      /\ held' = held /\ nextBlock' = nextBlock /\ currentLabel' = currentLabel /\ val' = NoName
      /\ emitted' = emitted
  BY DEF ValueFlushNext, FlushNext, Becomes
<1>2. emitted' = emitted \o <<>>
  BY <1>1, NothingMore
<1>3. Still(stack, stack')
  <2>1. stack \in Seq(Frame) /\ TopIs(FlushKinds)
    BY Lists DEF ValueFlushNext, FlushNext
  <2>2. Top \in Frame /\ stack[Len(stack)] = Top /\ Len(stack) \in 1..Len(stack)
    BY <2>1, TopHere
  <2>3. PICK f : f = [Top EXCEPT !.rest = Tail(@)]
    OBVIOUS
  <2>4. f.kind = Top.kind /\ f.todo = Top.todo /\ f.head = Top.head
    BY <2>2, <2>3 DEF Frame
  <2>5. PICK new : new = [stack EXCEPT ![Len(stack)] = f]
    OBVIOUS
  <2>6. stack' = new
    BY <2>3, <2>5 DEF ValueFlushNext, FlushNext, ReplaceTop
  <2>7. Len(new) = Len(stack) /\ new[Len(stack)] = f /\ \A i \in 1..Len(stack) : i # Len(stack) => new[i] = stack[i]
    BY <2>1, <2>2, <2>5
  <2>8. \A i \in 1..Len(stack) : new[i].kind = stack[i].kind /\ new[i].todo = stack[i].todo /\ new[i].head = stack[i].head
    BY <2>2, <2>4, <2>7
  <2> QED
    BY <2>6, <2>7, <2>8 DEF Still
<1>5. PICK y, R : y = <<>> /\ R = {}
  OBVIOUS
<1>4. Chunk(y, {}, R) /\ R \subseteq {val} /\ emitted' = emitted \o y
  BY <1>2, <1>5, ChunkNone
<1> QED
  BY <1>1, <1>3, <1>4, Quiet

(* A flush begins: what is returned waits in its frame. *)
LEMMA FlushGood ==
  ASSUME TypeInv, TypeInv', VInv, VInv', WInv, Unique, Good, NEW kind \in FlushKinds, BeginFlush(kind),
         BeginValueFlush, blocks' = blocks, nextBlock' = nextBlock, currentLabel' = currentLabel
  PROVE  Good'
<1>1. PICK f, ks : f = [NewFrame(kind, <<>>, NoLabel, FALSE) EXCEPT !.rest = Reverse(Front(deferred))]
                   /\ ks = Returned
  OBVIOUS
<1>2. f.kind = kind /\ f.todo = <<>>
  BY <1>1 DEF NewFrame
<1>3. f.kind \notin Results /\ f.kind \notin Repeats /\ Uses(f.kind, ks) \subseteq Range(ks)
  BY <1>2 DEF FlushKinds, Results, Repeats, LoopKinds, Uses
<1>4. stack' = Append(stack, f) /\ keep' = Append(keep, ks)
  BY <1>1, Zenon DEF BeginFlush, Push, BeginValueFlush, Keep
<1>5. /\ emitted' = emitted /\ code' = code /\ nextId' = nextId /\ nextId \in Nat /\ val' = NoName
      /\ held' = held /\ nextBlock \in Nat
  BY VInvParts, Lists DEF BeginValueFlush, NamesOK, Becomes
<1>6. Range(ks) \subseteq {val}
  <2>1. Range(<<>>) = {} /\ Range(<<val>>) = {val}
    BY Range0, Range1
  <2> QED
    BY <1>1, <2>1 DEF Returned
<1>7. Opens(f, ks)
  <2>1. Over(stack, keep, f, ks, stack', keep')
    <3>1. stack \in Seq(Frame) /\ keep \in Seq(Seq(Nat)) /\ Len(keep) = Len(stack)
      BY Lists DEF VInv, Fits
    <3> QED
      BY <1>4, <3>1 DEF Over
  <2>2. Aims(f) = {}
    BY <1>2, <1>3, Range0 DEF Aims
  <2> QED
    BY <1>3, <1>5, <2>1, <2>2 DEF Opens
<1>8. /\ Moves /\ Settled
      /\ \A t, p : Needed(t, p, stack', held', keep')
            => Needed(t, p, stack, held, keep) \/ (t \in Uses(f.kind, ks) /\ p = Len(stack))
      /\ \A t : Awaits(t, stack', keep') => Awaits(t, stack, keep) \/ (f.kind \in Results /\ t = ks[1])
      /\ \A b, c : Delivers(b, c, stack, keep) /\ (f.kind \in Results => Delivered(b, c, ks[1], Merge(f)))
            => Delivers(b, c, stack', keep')
  BY <1>7, GoodParts, GoOpen
<1>9. Shifts
  BY <1>3, <1>8 DEF Shifts
<1>13. PICK V, y : V = {val} /\ y = <<>>
  OBVIOUS
<1>14. PICK n \in Nat : n = nextId
  BY <1>5
<1>10. V = {val} /\ y = <<>> /\ n = nextId
  BY <1>13, <1>14
<1>11. Hands(V, n)
  <2>1. val' \in V \cup {NoName} /\ n <= nextId'
    BY <1>5, <1>10
  <2>2. \A t, p \in Nat : Needed(t, p, stack', held', keep')
           => Needed(t, p, stack, held, keep) \/ (t \in V /\ p = Len(stack))
    BY <1>3, <1>6, <1>8, <1>10
  <2>3. \A t \in Nat : Awaits(t, stack', keep') => Awaits(t, stack, keep)
    BY <1>3, <1>8
  <2> QED
    BY <2>1, <2>2, <2>3 DEF Hands
<1>12. Covered(emitted \o y, V, n) /\ emitted' = emitted \o y
  BY <1>5, <1>10, NothingMore, GoodParts
<1> QED
  BY <1>5, <1>8, <1>9, <1>11, <1>12, Emits

(* The result of a match without arms is not written; the block behind it   *)
(* is not reached.                                                          *)
LEMMA EmptyMatchGood ==
  ASSUME TypeInv, TypeInv', VInv, VInv', WInv, Unique, Good, ValueEmptyMatch
  PROVE  Good'
<1>1. /\ Later(0) \in Nat /\ Later(1) = Later(0) + 1 /\ Later(2) = Later(0) + 2
      /\ Later(0) >= nextId /\ nextId \in Nat /\ \A t \in Leaf : t = nextId /\ t < Later(0)
  BY Fresh DEF VInv
<1>2. PICK d \in Nat : d = Later(1) /\ d \notin Leaf
  BY <1>1
<1>3. PICK y : y = OpdCode \o <<Write(d, <<Opd>>)>>
  OBVIOUS
<1>4. Chunk(y, Leaf \cup {d}, Past)
  BY <1>2, <1>3, WriteOpd DEF VInv
<1>5. emitted \in Seq(Instr) /\ OpdCode \in Seq(Instr) /\ <<Write(d, <<Opd>>)>> \in Seq(Instr)
  <2>1. Opd \in Nat
    BY Fresh DEF VInv
  <2> QED
    BY <1>2, <2>1, VInvParts, Operand, Instrs, Seq1 DEF CodeOK, VInv
<1>6. emitted' = emitted \o y
  <2>1. PICK z \in Seq(Instr) : z = <<Write(d, <<Opd>>)>>
    BY <1>5
  <2>2. emitted' = emitted \o OpdCode \o z
    BY <1>2, <2>1 DEF ValueEmptyMatch
  <2>3. (emitted \o OpdCode) \o z = emitted \o (OpdCode \o z)
    BY <1>5, Regrouped, SMTT(30)
  <2> QED
    BY <1>3, <2>1, <2>2, <2>3
<1>7. /\ blocks' = blocks /\ code' = code /\ stack' = stack /\ keep' = keep /\ nextId' = Later(2)
      /\ held' = held /\ val' = Later(0) /\ currentLabel' = nextBlock /\ nextBlock' = nextBlock + 1
  BY DEF ValueEmptyMatch, EmptyMatch, vars, Took, Becomes
<1>8. nextBlock \in Nat /\ nextBlock' \in Nat /\ Len(stack) \in Nat /\ nextId' \in Nat
  BY <1>1, <1>7, Lists, ListsNext
<1>9. /\ Moves /\ Settled /\ Shifts
      /\ \A W, n : val' \in W \cup {NoName} /\ n <= nextId' => Hands(W, n)
  BY <1>7, <1>8, GoodParts, SameStill, GoStill
<1>10. PICK n \in Nat, m \in Nat, r \in Nat : n = Later(2) /\ m = nextId /\ r = Later(0)
  BY <1>1
<1>11. PICK V, W, x : V = {val} \cup Leaf /\ W = V \cup {r} /\ x = emitted \o y
  OBVIOUS
<1>12. Covered(x, V, n)
  <2>1. Between(Leaf, nextId, n) /\ nextId <= n /\ Leaf \subseteq Leaf \cup {d}
    BY <1>1, <1>10 DEF Between
  <2> QED
    BY <1>4, <1>11, <2>1, BehindGood, PastVal
<1>13. Hands(W, n)
  BY <1>7, <1>9, <1>10, <1>11, <1>1
<1>14. Begins(x, W)
  BY <1>6, <1>7, <1>8, <1>11, FreshFrom DEF Begins
<1>15. ASSUME NEW t \in Nat PROVE \E T : Covers(t, T, emitted, {val}, nextId)'
  <2>1. CASE t # r
    <3>1. PICK T : Covers(t, T, x, V, n)
      BY <1>12 DEF Covered
    <3>2. Covers(t, T, x, W, n)
      BY <1>11, <2>1, <3>1 DEF Covers
    <3>3. Flow(t, T, blocks', code')
      BY <1>7, <3>1 DEF Covers
    <3>4. Covers(t, T, emitted, {val}, nextId)'
      BY <1>8, <1>9, <1>13, <1>14, <3>2, <3>3, Onward, PassesEach
    <3> QED
      BY <3>4
  <2>2. CASE t = r
    <3>1. PICK U : U = {val}
      OBVIOUS
    <3>2. PICK T : Covers(t, T, emitted, U, m)
      BY <1>10, <3>1, GoodParts DEF Covered
    <3>3. t >= m /\ t < nextId' /\ Placed /\ Below(blocks, nextBlock)
      BY <1>1, <1>7, <1>10, <2>2, GoodParts
    <3>4. Flow(t, {}, blocks, code) /\ \A p \in Nat : ~Needed(t, p, stack, held, keep)
      BY <1>8, <3>2, <3>3, NotYet
    <3>5. PICK k \in Nat : k = nextBlock
      BY <1>8
    <3>6. Flow(t, From(k), blocks', code')
      <4>1. Len(blocks) = Len(code) /\ k <= k
        BY <3>5 DEF VInv
      <4>2. Flow(t, From(k), blocks, code)
        BY <3>3, <3>4, <3>5, <4>1, GivenFlow
      <4> QED
        BY <1>7, <4>2
    <3>7. Above(k)
      BY <1>7, <1>8, <3>5, FreshFrom DEF Above
    <3>8. ~Awaits(t, stack', keep')
      <4>1. \A i \in 1..Len(stack) : stack[i].kind \in Owners => keep[i][1] \in Nat /\ keep[i][1] < nextId
        BY OwnersOld
      <4>2. ~(t < m)
        BY <3>3
      <4> QED
        BY <1>7, <1>10, <4>1, <4>2 DEF Awaits, Owners
    <3>9. Covers(t, From(k), emitted, {val}, nextId)'
      <4>1. \A p \in Nat : Needed(t, p, stack', held', keep') => Needed(t, p, stack, held, keep) \/ p = Len(stack)
        BY <1>7
      <4>2. \A i \in 1..Len(stack') : i > Len(stack) => i = Len(stack) + 1
        BY <1>7, <1>8
      <4> QED
        BY <1>8, <3>2, <3>3, <3>6, <3>7, <3>8, <4>1, <4>2, Given
    <3> QED
      BY <3>9
  <2> QED
    BY <2>1, <2>2
<1>16. Covered(emitted, {val}, nextId)'
  BY <1>15 DEF Covered
<1>17. Below(blocks', nextBlock')
  BY <1>7, <1>8, Lists, BelowLater, GoodParts
<1>18. Delivers(blocks', code', stack', keep')
  BY <1>7, <1>9, GoodParts DEF Shifts
<1> QED
  BY <1>9, <1>16, <1>17, <1>18, GoodNext

-----------------------------------------------------------------------------
(* Steps that finish one block and go on in a fresh one.                    *)

LEMMA Goes ==
  ASSUME TypeInv, TypeInv', VInv, VInv', Good, NEW y, NEW a, NEW s, Adds(y, a, s), Settled,
         nextBlock <= nextBlock', Fine(a, emitted \o y), \A l \in Range(a.to) : l < nextBlock',
         Delivers(blocks', code', stack, keep) => Delivers(blocks', code', stack', keep'),
         Covered(emitted, {val}, nextId)'
  PROVE  Good'
<1>2. PICK x : x = emitted \o y
  OBVIOUS
<1>3. blocks' = Append(blocks, a) /\ code' = Append(code, x) /\ Fine(a, x)
  BY <1>2 DEF Adds
<1>4. Below(blocks', nextBlock')
  <2>1. nextBlock \in Nat /\ nextBlock' \in Nat /\ nextBlock <= nextBlock' /\ blocks \in Seq(Block)
    BY Lists, ListsNext
  <2>2. Below(blocks, nextBlock)
    BY GoodParts
  <2> QED
    BY <1>3, <2>1, <2>2, BelowMore
<1>5. Delivers(blocks', code', stack, keep)
  <2>1. blocks \in Seq(Block) /\ code \in Seq(Seq(Instr)) /\ Len(blocks) = Len(code)
    BY Lists DEF VInv, ValueTypeOK
  <2>2. Delivers(blocks, code, stack, keep)
    BY GoodParts
  <2> QED
    BY <1>3, <2>1, <2>2, DeliversMore
<1> QED
  BY <1>4, <1>5, GoodNext

LEMMA Goes1 ==
  ASSUME TypeInv, TypeInv', VInv, VInv', Good, NEW y, NEW V, NEW n \in Nat, Covered(emitted \o y, V, n),
         NEW a, NEW s, Adds(y, a, s), a.label = currentLabel, Aimed(a), Moves, Hands(V, n),
         Reads(s) \subseteq V, currentLabel' \in From(nextBlock), Settled, Fine(a, emitted \o y),
         \A l \in Range(a.to) : l < nextBlock',
         Delivers(blocks', code', stack, keep) => Delivers(blocks', code', stack', keep')
  PROVE  Good'
<1>1. Covered(emitted, {val}, nextId)'
  BY Step1
<1>2. nextBlock <= nextBlock'
  BY DEF Moves
<1> QED
  BY <1>1, <1>2, Goes

(* Nothing is computed. *)
LEMMA OnlyReads ==
  ASSUME TypeInv, VInv, WInv, Unique, Good, NEW y, NEW R, Chunk(y, {}, R), R \subseteq {val}
  PROVE  Covered(emitted \o y, {val}, nextId)
<1>1. PICK n \in Nat : n = nextId
  BY DEF VInv, ValueTypeOK
<1>2. PICK G : G = {}
  OBVIOUS
<1>3. Between(G, nextId, n) /\ nextId <= n /\ G \subseteq {}
  BY <1>1, <1>2 DEF Between
<1>4. Covered(emitted \o y, {val} \cup G, n)
  BY <1>1, <1>3, BehindGood
<1>5. {val} \cup G = {val}
  BY <1>2
<1> QED
  BY <1>1, <1>4, <1>5

LEMMA ReadsNone == Reads(<<>>) = {}
  BY ChunkNone DEF Chunk

LEMMA ReturnedIn == Range(Returned) \subseteq {val}
<1>1. Range(<<>>) = {} /\ Range(<<val>>) = {val}
  BY Range0, Range1
<1> QED
  BY <1>1 DEF Returned

(* A block that jumps nowhere. *)
LEMMA NoTargets ==
  ASSUME NEW a, a.to = <<>>
  PROVE  Aimed(a) /\ (\A x : Fine(a, x)) /\ \A l \in Range(a.to) : l < nextBlock'
<1>1. Range(a.to) = {}
  BY Range0
<1> QED
  BY <1>1 DEF Aimed, Fine

LEMMA PlainReturnGood ==
  ASSUME TypeInv, TypeInv', VInv, VInv', WInv, Unique, Good, ValueReturn, deferred = <<>>
  PROVE  Good'
<1>1. /\ Switch("return", <<>>, nextBlock) /\ nextBlock' = nextBlock + 1 /\ ReturnBlock(Returned)
      /\ stack' = stack /\ keep' = keep
  BY DEF ValueReturn, LowerReturn, FinishReturn
<1>2. PICK a, y, s : a = Finished("return", <<>>) /\ y = ReadBack(Returned) /\ s = <<>>
  OBVIOUS
<1>3. Adds(y, a, s) /\ currentLabel' = nextBlock /\ val' = NoName /\ nextId' = nextId /\ held' = held
  BY <1>1, <1>2, ReturnedType, ReturnAdds
<1>4. a.label = currentLabel /\ a.to = <<>> /\ Reads(s) = {}
  BY <1>2, ReadsNone DEF Finished, BB
<1>5. Covered(emitted \o y, {val}, nextId)
  <2>1. PICK R : R = Range(Returned)
    OBVIOUS
  <2>2. Chunk(y, {}, R) /\ R \subseteq {val}
    BY <1>2, <2>1, ReturnedType, ReadBackChunk, ReturnedIn
  <2> QED
    BY <2>2, OnlyReads
<1>6p. PICK n \in Nat : n = nextId
  BY DEF VInv, ValueTypeOK
<1>6. PICK V, x : n = nextId /\ V = {val} /\ x = emitted \o y
  BY <1>6p
<1>7. nextBlock \in Nat /\ nextBlock <= nextBlock' /\ currentLabel' \in From(nextBlock)
  BY <1>1, <1>3, Lists, FreshFrom
<1>8. /\ Moves /\ Settled /\ Shifts
      /\ \A W, m : val' \in W \cup {NoName} /\ m <= nextId' => Hands(W, m)
  BY <1>1, <1>3, <1>7, GoodParts, SameStill, GoStill
<1>9. Hands(V, n) /\ Covered(x, V, n)
  BY <1>3, <1>5, <1>6, <1>8
<1>10. Aimed(a) /\ Fine(a, x) /\ \A l \in Range(a.to) : l < nextBlock'
  BY <1>4, NoTargets
<1>11. Delivers(blocks', code', stack, keep) => Delivers(blocks', code', stack', keep')
  BY <1>1
<1> QED
  BY <1>3, <1>4, <1>6, <1>7, <1>8, <1>9, <1>10, <1>11, Goes1

(* What a loop jumps to is not where another construct continues. *)
LEMMA NotMerge ==
  ASSUME TypeInv, Unique, Placed, NEW i \in 1..Len(stack), stack[i].kind \in Repeats,
         NEW l \in Aims(stack[i])
  PROVE  \A j \in 1..Len(stack) : stack[j].kind \in Results => Merge(stack[j]) # l
<1> SUFFICES ASSUME NEW j \in 1..Len(stack), stack[j].kind \in Results, Merge(stack[j]) = l PROVE FALSE
  OBVIOUS
<1>1. l \in Range(stack[j].todo)
  BY MergeIn
<1>2. i # j
  BY DEF Repeats, Results, LoopKinds
<1>3. CASE l \in Range(stack[i].todo)
  <2>1. PICK a \in DOMAIN stack[i].todo : stack[i].todo[a] = l
    BY <1>3 DEF Range
  <2>2. PICK b \in DOMAIN stack[j].todo : stack[j].todo[b] = l
    BY <1>1 DEF Range
  <2>3. DistinctTodo(stack) /\ i \in DOMAIN stack /\ j \in DOMAIN stack
    BY UniqueParts, StackBounds DEF Unique
  <2> QED
    BY <1>2, <2>1, <2>2, <2>3 DEF DistinctTodo
<1>4. CASE l = stack[i].head
  BY <1>1, <1>4 DEF Placed, Back
<1> QED
  BY <1>3, <1>4 DEF Aims

LEMMA LoopJump ==
  ASSUME TypeInv, Unique, Placed, NEW i \in 1..Len(stack), stack[i].kind \in Repeats,
         NEW a, Range(a.to) \subseteq Aims(stack[i])
  PROVE  Aimed(a) /\ (\A x : Fine(a, x)) /\ \A l \in Range(a.to) : l < nextBlock
<1>1. Aimed(a)
  BY DEF Aimed
<1>2. \A x : Fine(a, x)
  <2>1. ASSUME NEW j \in 1..Len(stack), stack[j].kind \in Results, Merge(stack[j]) \in Range(a.to)
        PROVE  FALSE
    <3>1. PICK l \in Aims(stack[i]) : l = Merge(stack[j])
      BY <2>1
    <3> QED
      BY <2>1, <3>1, NotMerge
  <2> QED
    BY <2>1 DEF Fine
<1>3. \A l \in Range(a.to) : l < nextBlock
  BY AimsOld
<1> QED
  BY <1>1, <1>2, <1>3

LEMMA StillOut ==
  ASSUME TypeInv,
         stack' = stack \/ \E i \in DOMAIN stack : stack' = [stack EXCEPT ![i].exit = @ \/ live]
  PROVE  Still(stack, stack')
<1>1. stack \in Seq(Frame)
  BY Lists
<1>3. ASSUME NEW i \in DOMAIN stack, stack' = [stack EXCEPT ![i].exit = @ \/ live]
      PROVE  Still(stack, stack')
  <2>1. PICK new : new = stack'
    OBVIOUS
  <2>2. Len(new) = Len(stack) /\ \A j \in 1..Len(stack) : j # i => new[j] = stack[j]
    BY <1>1, <1>3, <2>1
  <2>3. new[i] = [stack[i] EXCEPT !.exit = @ \/ live] /\ stack[i] \in Frame
    BY <1>1, <1>3, <2>1
  <2>4. new[i].kind = stack[i].kind /\ new[i].todo = stack[i].todo /\ new[i].head = stack[i].head
    BY <2>3 DEF Frame
  <2>5. \A j \in 1..Len(stack) :
           new[j].kind = stack[j].kind /\ new[j].todo = stack[j].todo /\ new[j].head = stack[j].head
    BY <2>2, <2>4
  <2> QED
    BY <2>1, <2>2, <2>5 DEF Still
<1> QED
  BY <1>3, SameStill

(* break and continue. *)
LEMMA OutGood ==
  ASSUME TypeInv, TypeInv', VInv, VInv', WInv, Unique, Loops, Good, ValueBreak \/ ValueContinue
  PROVE  Good'
<1>1. PICK l : /\ Adds(<<>>, Finished("jump", <<l>>), <<>>)
               /\ loopStack # <<>>
               /\ l \in {loopStack[Len(loopStack)].brk, loopStack[Len(loopStack)].cont}
               /\ currentLabel' = nextBlock /\ nextBlock' = nextBlock + 1
               /\ \/ stack' = stack
                  \/ \E i \in DOMAIN stack : stack' = [stack EXCEPT ![i].exit = @ \/ live]
               /\ keep' = keep /\ held' = held /\ nextId' = nextId /\ val' = val /\ val = NoName
  BY OutAdds
<1>2. PICK a, y, s : a = Finished("jump", <<l>>) /\ y = <<>> /\ s = <<>>
  OBVIOUS
<1>3. Adds(y, a, s) /\ a.label = currentLabel /\ a.to = <<l>> /\ Reads(s) = {}
  BY <1>1, <1>2, ReadsNone DEF Finished, BB
<1>4. Covered(emitted \o y, {val}, nextId)
  <2>1. PICK R : R = {}
    OBVIOUS
  <2>2. Chunk(y, {}, R) /\ R \subseteq {val}
    BY <1>2, <2>1, ChunkNone
  <2> QED
    BY <2>2, OnlyReads
<1>5. 1 \in 1..Len(stack) /\ stack[1].kind \in Repeats /\ l \in Aims(stack[1])
  <2>1. stack # <<>> /\ stack[1].kind \in LoopKinds /\ loopStack = <<LoopOf(stack[1])>>
    BY <1>1 DEF Loops
  <2>2. 1 \in 1..Len(stack)
    BY <2>1, StackBounds
  <2>3. l \in {Merge(stack[1]), stack[1].head}
    <3>1. PICK r : r = LoopOf(stack[1])
      OBVIOUS
    <3>2. loopStack[Len(loopStack)] = r
      BY <2>1, <3>1
    <3>3. r.brk = Merge(stack[1]) /\ r.cont = stack[1].head
      BY <3>1 DEF LoopOf
    <3> QED
      BY <1>1, <3>2, <3>3
  <2>4. Merge(stack[1]) \in Range(stack[1].todo)
    <3>1. PICK f : f = stack[1]
      OBVIOUS
    <3>2. f \in Frame /\ FrameOK(f) /\ f.kind \in LoopKinds
      <4>1. stack \in Seq(Frame) /\ 1 \in DOMAIN stack
        BY <2>2, Lists
      <4> QED
        BY <2>1, <3>1, <4>1 DEF TypeInv, Shape, StackOK
    <3>3. f.todo \in Seq(Label) /\ Len(f.todo) = 1
      BY <3>2 DEF Frame, FrameOK
    <3>4. 1 \in DOMAIN f.todo
      BY <3>3
    <3> QED
      BY <3>1, <3>3, <3>4 DEF Merge, Range
  <2> QED
    BY <2>1, <2>2, <2>3, <2>4 DEF Aims, Repeats
<1>6. Range(a.to) \subseteq Aims(stack[1])
  <2>1. Range(<<l>>) = {l}
    BY Range1
  <2> QED
    BY <1>3, <1>5, <2>1
<1>7. nextBlock \in Nat /\ nextBlock' \in Nat /\ nextBlock <= nextBlock' /\ currentLabel' \in From(nextBlock)
  BY <1>1, Lists, ListsNext, FreshFrom
<1>8. Aimed(a) /\ (\A x : Fine(a, x)) /\ \A k \in Range(a.to) : k < nextBlock'
  <2>1. PICK i \in 1..Len(stack) : stack[i].kind \in Repeats /\ Range(a.to) \subseteq Aims(stack[i])
    BY <1>5, <1>6
  <2>2. Aimed(a) /\ (\A x : Fine(a, x)) /\ \A k \in Range(a.to) : k < nextBlock
    BY <2>1, GoodParts, LoopJump
  <2>3. a.to \in Seq(Int)
    <3>1. l \in Label
      <4>1. LoopOf(stack[1]).brk = Merge(stack[1]) /\ LoopOf(stack[1]).cont = stack[1].head
        BY DEF LoopOf
      <4>2. Finished("jump", <<l>>) \in Block
        BY <1>1, AddedBlocks DEF Adds
      <4>3. a.to \in Seq(Label)
        BY <1>2, <4>2 DEF Block
      <4>4. a.to[1] = l /\ 1 \in DOMAIN a.to
        BY <1>3
      <4> QED
        BY <4>3, <4>4
    <3> QED
      BY <1>3, <3>1 DEF Label, Entry
  <2>4. \A k \in Range(a.to) : k \in Int
    BY <2>3 DEF Range
  <2>5. ASSUME NEW k \in Range(a.to) PROVE k < nextBlock'
    <3>1. k < nextBlock /\ k \in Int
      BY <2>2, <2>4
    <3> QED
      BY <1>7, <3>1
  <2> QED
    BY <2>2, <2>5
<1>9. /\ Moves /\ Settled /\ Shifts
      /\ \A W, m : val' \in W \cup {NoName} /\ m <= nextId' => Hands(W, m)
  BY <1>1, <1>7, StillOut, GoodParts, GoStill
<1>10p. PICK n \in Nat : n = nextId
  BY DEF VInv, ValueTypeOK
<1>10. PICK V, x : n = nextId /\ V = {val} /\ x = emitted \o y
  BY <1>10p
<1>11. Hands(V, n) /\ Covered(x, V, n)
  BY <1>1, <1>4, <1>9, <1>10
<1>12. Delivers(blocks', code', stack, keep) => Delivers(blocks', code', stack', keep')
  BY <1>9 DEF Shifts
<1> QED
  BY <1>3, <1>7, <1>8, <1>9, <1>10, <1>11, <1>12, Goes1

(* Opening a construct, the block that leads there being finished. *)
LEMMA OpenPasses ==
  ASSUME TypeInv, TypeInv', VInv, Unique, Placed, NEW f, NEW ks, Opens(f, ks), NEW V, NEW n,
         Uses(f.kind, ks) \subseteq V, val' \in V \cup {NoName}, n <= nextId', NEW t \in Nat,
         f.kind \in Results /\ t = ks[1] => t >= n
  PROVE  PassesAt(t, V, n)
<1>1. /\ \A p : Needed(t, p, stack', held', keep')
            => Needed(t, p, stack, held, keep) \/ (t \in Uses(f.kind, ks) /\ p = Len(stack))
      /\ Awaits(t, stack', keep') => Awaits(t, stack, keep) \/ (f.kind \in Results /\ t = ks[1])
  BY GoOpen
<1> QED
  BY <1>1 DEF PassesAt

LEMMA OpenDelivers ==
  ASSUME TypeInv, TypeInv', VInv, Unique, Placed, NEW f, NEW ks, Opens(f, ks), NEW x, NEW a,
         blocks' = Append(blocks, a), code' = Append(code, x),
         f.kind \in Results => Merge(f) \in From(nextBlock) /\ (Merge(f) \in Range(a.to) => ks[1] \in Dests(x))
  PROVE  Delivers(blocks', code', stack, keep) => Delivers(blocks', code', stack', keep')
<1>1. ASSUME f.kind \in Results PROVE Delivered(blocks', code', ks[1], Merge(f))
  <2>1. blocks \in Seq(Block) /\ code \in Seq(Seq(Instr)) /\ Len(blocks) = Len(code) /\ nextBlock \in Nat
    BY Lists DEF VInv, ValueTypeOK
  <2>2. PICK l, t : l = Merge(f) /\ t = ks[1]
    OBVIOUS
  <2>3. l \in Nat /\ nextBlock <= l
    BY <1>1, <2>2 DEF From
  <2>4. Delivered(blocks, code, t, l)
    BY <2>1, <2>3, Unreached DEF Placed
  <2>5. Delivered(Append(blocks, a), Append(code, x), t, l)
    BY <1>1, <2>1, <2>2, <2>4, DeliveredMore
  <2> QED
    BY <2>2, <2>5
<1> QED
  BY <1>1, GoOpen

LEMMA OpenGood1 ==
  ASSUME TypeInv, TypeInv', VInv, VInv', Unique, Good, NEW y, NEW V, NEW n \in Nat,
         Covered(emitted \o y, V, n), NEW a, NEW s, Adds(y, a, s), a.label = currentLabel,
         Reads(s) \subseteq V, currentLabel' \in From(nextBlock), NEW f, NEW ks, Opens(f, ks),
         Uses(f.kind, ks) \subseteq V, val' \in V \cup {NoName}, n <= nextId',
         Range(a.to) \subseteq From(nextBlock), \A l \in Range(a.to) : l < nextBlock',
         f.kind \in Results => /\ ks[1] >= n
                               /\ Merge(f) \in From(nextBlock) /\ Merge(f) \notin Range(a.to)
  PROVE  Good'
<1>1. PICK x : x = emitted \o y
  OBVIOUS
<1>2. Moves /\ Settled
  BY GoodParts, GoOpen
<1>3. Hands(V, n)
  <2>1. ASSUME NEW t \in Nat PROVE PassesAt(t, V, n)
    BY GoodParts, OpenPasses
  <2>2. 0 \in Nat
    OBVIOUS
  <2> QED
    BY <2>1, <2>2 DEF Hands, PassesAt
<1>4. Delivers(blocks', code', stack, keep) => Delivers(blocks', code', stack', keep')
  BY <1>1, GoodParts, OpenDelivers DEF Adds
<1>5. Aimed(a) /\ Fine(a, x)
  BY GoodParts, FineFresh
<1> QED
  BY <1>1, <1>2, <1>3, <1>4, <1>5, Goes1

(* while and loop. *)
LEMMA LoopGood ==
  ASSUME TypeInv, TypeInv', VInv, VInv', WInv, Unique, Good, ValueOpenWhile \/ ValueOpenLoop
  PROVE  Good'
<1>1. /\ Adds(<<>>, Finished("jump", <<nextBlock>>), <<>>)
      /\ currentLabel' = nextBlock /\ keep' = Append(keep, <<>>) /\ held' = held
      /\ nextId' = nextId /\ val' = val /\ val = NoName
  BY LoopAdds
<1>2. PICK a, y, s, ks : a = Finished("jump", <<nextBlock>>) /\ y = <<>> /\ s = <<>> /\ ks = <<>>
  OBVIOUS
<1>3. Adds(y, a, s) /\ a.label = currentLabel /\ a.to = <<nextBlock>> /\ Reads(s) = {}
  BY <1>1, <1>2, ReadsNone DEF Finished, BB
<1>4. Covered(emitted \o y, {val}, nextId)
  <2>1. PICK R : R = {}
    OBVIOUS
  <2>2. Chunk(y, {}, R) /\ R \subseteq {val}
    BY <1>2, <2>1, ChunkNone
  <2> QED
    BY <2>2, OnlyReads
<1>5. nextBlock \in Nat /\ nextBlock' \in Nat
  BY Lists, ListsNext
<1>6. PICK f : /\ stack' = Append(stack, f) /\ f.kind \in {"cond", "loop"} /\ f.head = nextBlock
               /\ Range(f.todo) \subseteq {nextBlock + 1, nextBlock + 2}
               /\ nextBlock + 1 <= nextBlock'
  <2>1. CASE ValueOpenWhile
    <3>1. /\ stack' = Append(stack, NewFrame("cond", <<nextBlock + 1, nextBlock + 2>>, nextBlock, FALSE))
          /\ nextBlock' = nextBlock + 3
      BY <2>1 DEF ValueOpenWhile, OpenWhile, Push
    <3>2. PICK f : f = NewFrame("cond", <<nextBlock + 1, nextBlock + 2>>, nextBlock, FALSE)
      OBVIOUS
    <3>3. f.kind = "cond" /\ f.head = nextBlock /\ f.todo = <<nextBlock + 1, nextBlock + 2>>
      BY <3>2 DEF NewFrame
    <3>4. Range(f.todo) = {nextBlock + 1, nextBlock + 2}
      BY <3>3, Range2
    <3>5. stack' = Append(stack, f)
      BY <3>1, <3>2, Zenon
    <3>6. /\ f.kind \in {"cond", "loop"} /\ f.head = nextBlock /\ nextBlock + 1 <= nextBlock'
          /\ Range(f.todo) \subseteq {nextBlock + 1, nextBlock + 2}
      <4>1. f.kind \in {"cond", "loop"} /\ f.head = nextBlock
        BY <3>3
      <4>2. nextBlock + 1 <= nextBlock'
        BY <1>5, <2>1 DEF ValueOpenWhile, OpenWhile
      <4> QED
        BY <3>4, <4>1, <4>2
    <3> QED
      BY <3>5, <3>6, Zenon
  <2>2. CASE ValueOpenLoop
    <3>1. /\ stack' = Append(stack, NewFrame("loop", <<nextBlock + 1>>, nextBlock, FALSE))
          /\ nextBlock' = nextBlock + 2
      BY <2>2 DEF ValueOpenLoop, OpenLoop, Push
    <3>2. PICK f : f = NewFrame("loop", <<nextBlock + 1>>, nextBlock, FALSE)
      OBVIOUS
    <3>3. f.kind = "loop" /\ f.head = nextBlock /\ f.todo = <<nextBlock + 1>>
      BY <3>2 DEF NewFrame
    <3>4. Range(f.todo) = {nextBlock + 1}
      BY <3>3, Range1
    <3>5. stack' = Append(stack, f)
      BY <3>1, <3>2, Zenon
    <3>6. /\ f.kind \in {"cond", "loop"} /\ f.head = nextBlock /\ nextBlock + 1 <= nextBlock'
          /\ Range(f.todo) \subseteq {nextBlock + 1, nextBlock + 2}
      BY <1>5, <3>1, <3>3, <3>4
    <3> QED
      BY <3>5, <3>6, Zenon
  <2> QED
    BY <2>1, <2>2
<1>7. f.kind \notin Results /\ Uses(f.kind, ks) = {}
  BY <1>6 DEF Results, Uses, FlushKinds
<1>8. nextBlock + 1 \in From(nextBlock) /\ nextBlock + 2 \in From(nextBlock) /\ nextBlock \in From(nextBlock)
  BY <1>5 DEF From
<1>9. Opens(f, ks)
  <2>1. Over(stack, keep, f, ks, stack', keep')
    <3>1. stack \in Seq(Frame) /\ keep \in Seq(Seq(Nat)) /\ Len(keep) = Len(stack)
      BY Lists DEF VInv, Fits
    <3> QED
      BY <1>1, <1>2, <1>6, <3>1 DEF Over
  <2>2. Aims(f) \subseteq From(nextBlock)
    BY <1>6, <1>8 DEF Aims
  <2>3. f.head \notin Range(f.todo) /\ f.head < nextBlock' /\ nextBlock <= nextBlock' /\ f.head \in Nat
    BY <1>5, <1>6
  <2> QED
    BY <1>1, <2>1, <2>2, <2>3 DEF Opens
<1>10. Range(a.to) = {nextBlock} /\ nextBlock < nextBlock'
  <2>1. Range(a.to) = {nextBlock}
    BY <1>3, Range1
  <2> QED
    BY <1>5, <1>6, <2>1
<1>11p. PICK n \in Nat : n = nextId
  BY DEF VInv, ValueTypeOK
<1>11. PICK V : n = nextId /\ V = {val}
  BY <1>11p
<1>12. Covered(emitted \o y, V, n) /\ Uses(f.kind, ks) \subseteq V /\ val' \in V \cup {NoName} /\ n <= nextId'
  BY <1>1, <1>4, <1>7, <1>11
<1>13. Range(a.to) \subseteq From(nextBlock) /\ currentLabel' \in From(nextBlock) /\ Reads(s) \subseteq V
       /\ \A l \in Range(a.to) : l < nextBlock'
  BY <1>1, <1>3, <1>8, <1>10
<1> QED
  BY <1>3, <1>7, <1>9, <1>12, <1>13, OpenGood1

(* if. *)
LEMMA IfGood ==
  ASSUME TypeInv, TypeInv', VInv, VInv', WInv, Unique, Good, ValueOpenIf
  PROVE  Good'
<1>1. /\ Adds(OpdCode \o <<Use(<<Opd>>)>>, Finished("branch", <<nextBlock, nextBlock + 1>>), <<>>)
      /\ currentLabel' = nextBlock /\ nextBlock' = nextBlock + 3
      /\ stack' = Append(stack, NewFrame("then", <<nextBlock + 1, nextBlock + 2>>, NoLabel, FALSE))
      /\ keep' = Append(keep, <<Later(0)>>) /\ held' = held
      /\ nextId' = Later(1) /\ val' = NoName
  BY IfAdds
<1>2. /\ Later(0) \in Nat /\ Later(1) = Later(0) + 1 /\ Later(0) >= nextId /\ nextId \in Nat
      /\ \A t \in Leaf : t = nextId /\ t < Later(0)
  BY Fresh DEF VInv
<1>3. PICK a, y, s, f, ks :
         /\ a = Finished("branch", <<nextBlock, nextBlock + 1>>) /\ y = OpdCode \o <<Use(<<Opd>>)>>
         /\ s = <<>> /\ f = NewFrame("then", <<nextBlock + 1, nextBlock + 2>>, NoLabel, FALSE)
         /\ ks = <<Later(0)>>
  OBVIOUS
<1>4. Adds(y, a, s) /\ a.label = currentLabel /\ a.to = <<nextBlock, nextBlock + 1>> /\ Reads(s) = {}
  BY <1>1, <1>3, ReadsNone DEF Finished, BB
<1>5. stack' = Append(stack, f) /\ keep' = Append(keep, ks)
  BY <1>1, <1>3, Zenon
<1>6. nextBlock \in Nat /\ nextBlock' \in Nat
  BY Lists, ListsNext
<1>7. f.kind = "then" /\ f.todo = <<nextBlock + 1, nextBlock + 2>> /\ ks[1] = Later(0)
  BY <1>3 DEF NewFrame
<1>8. /\ Range(f.todo) = {nextBlock + 1, nextBlock + 2} /\ Merge(f) = nextBlock + 2
      /\ Range(a.to) = {nextBlock, nextBlock + 1}
  <2>1. Range(f.todo) = {nextBlock + 1, nextBlock + 2} /\ Range(a.to) = {nextBlock, nextBlock + 1}
    BY <1>4, <1>7, Range2
  <2>2. Merge(f) = nextBlock + 2
    BY <1>7 DEF Merge
  <2> QED
    BY <2>1, <2>2
<1>9. nextBlock + 1 \in From(nextBlock) /\ nextBlock + 2 \in From(nextBlock) /\ nextBlock \in From(nextBlock)
  BY <1>6 DEF From
<1>10. f.kind \notin Repeats /\ Uses(f.kind, ks) = {}
  BY <1>7 DEF Repeats, LoopKinds, Uses, FlushKinds
<1>11. Opens(f, ks)
  <2>1. Over(stack, keep, f, ks, stack', keep')
    <3>1. stack \in Seq(Frame) /\ keep \in Seq(Seq(Nat)) /\ Len(keep) = Len(stack)
      BY Lists DEF VInv, Fits
    <3> QED
      BY <1>5, <3>1 DEF Over
  <2>2. Aims(f) \subseteq From(nextBlock)
    BY <1>8, <1>9, <1>10 DEF Aims
  <2>3. nextBlock <= nextBlock'
    BY <1>1, <1>6
  <2> QED
    BY <1>1, <1>10, <2>1, <2>2, <2>3 DEF Opens
<1>12p. PICK n \in Nat : n = Later(0)
  BY <1>2
<1>12. PICK V : n = Later(0) /\ V = {val} \cup Leaf
  BY <1>12p
<1>13. Covered(emitted \o y, V, n)
  <2>1. Chunk(y, Leaf, Past)
    BY <1>3, UseOpd DEF VInv
  <2>2. Between(Leaf, nextId, n) /\ nextId <= n /\ Leaf \subseteq Leaf
    BY <1>2, <1>12 DEF Between
  <2> QED
    BY <1>12, <2>1, <2>2, BehindGood, PastVal
<1>14. val' \in V \cup {NoName} /\ n <= nextId' /\ ks[1] >= n
  BY <1>1, <1>2, <1>7, <1>12
<1>15. /\ Merge(f) \in From(nextBlock) /\ Merge(f) \notin Range(a.to)
       /\ Range(a.to) \subseteq From(nextBlock) /\ \A l \in Range(a.to) : l < nextBlock'
  BY <1>1, <1>6, <1>8, <1>9
<1> QED
  BY <1>1, <1>4, <1>9, <1>10, <1>11, <1>13, <1>14, <1>15, OpenGood1

(* match.  The names of the dispatch are known in each arm; the result is   *)
(* given by them.                                                           *)
LEMMA MatchNames ==
  ASSUME TypeInv, VInv, WInv, Unique, Good, NEW pat, NEW V, V = {val} \cup Leaf \cup {Later(1)}
  PROVE  \A t \in Nat : \E T : \E n \in Nat :
            Covers(t, T, emitted \o MatchCode(pat), V, n) /\ n <= Later(2) /\ (t = Later(0) => t >= n)
<1>1. /\ Later(0) \in Nat /\ Later(1) = Later(0) + 1 /\ Later(2) = Later(0) + 2
      /\ Later(0) >= nextId /\ nextId \in Nat /\ \A t \in Leaf : t = nextId /\ t < Later(0)
  BY Fresh DEF VInv
<1>2. PICK x, y : y = MatchCode(pat) /\ x = emitted \o y
  OBVIOUS
<1>3. PICK Y : Y = Leaf \cup {Later(1)} \cup Tested(pat, Later(2))
  OBVIOUS
<1>4. Chunk(y, Y, Past)
  BY <1>2, <1>3, MatchChunk DEF VInv, MatchCode
<1>5. PICK m \in Nat, n \in Nat : m = nextId /\ n = Later(2)
  BY <1>1
<1>6. PICK G : G = Leaf \cup {Later(1)}
  OBVIOUS
<1>7. Covered(x, V, n)
  <2>1. Between(G, nextId, n) /\ nextId <= n /\ G \subseteq Y
    BY <1>1, <1>3, <1>5, <1>6 DEF Between
  <2>2. Covered(x, {val} \cup G, n)
    BY <1>2, <1>4, <2>1, BehindGood, PastVal
  <2> QED
    BY <1>6, <2>2
<1>8. Covered(x, {val}, m)
  <2>1. PICK E : E = {}
    OBVIOUS
  <2>2. Between(E, nextId, m) /\ nextId <= m /\ E \subseteq Y
    BY <1>1, <1>5, <2>1 DEF Between
  <2>3. Covered(x, {val} \cup E, m)
    BY <1>2, <1>4, <2>2, BehindGood, PastVal
  <2>4. {val} \cup E = {val}
    BY <2>1
  <2> QED
    BY <2>3, <2>4
<1>9. ASSUME NEW t \in Nat
      PROVE  \E T : \E k \in Nat : Covers(t, T, x, V, k) /\ k <= Later(2) /\ (t = Later(0) => t >= k)
  <2>1. CASE t # Later(0)
    <3>1. PICK T : Covers(t, T, x, V, n)
      BY <1>7 DEF Covered
    <3>2. T \in SUBSET Nat /\ n <= Later(2)
      BY <1>1, <1>5, <3>1 DEF Covers
    <3> QED
      BY <1>5, <2>1, <3>1, <3>2
  <2>2. CASE t = Later(0)
    <3>1. PICK U : U = {val}
      OBVIOUS
    <3>2. PICK T : Covers(t, T, x, U, m)
      BY <1>8, <3>1 DEF Covered
    <3>3. t \notin V
      <4>1. t \notin U
        BY <1>1, <1>5, <2>2, <3>2, Lists, NotYet
      <4> QED
        BY <1>1, <2>2, <3>1, <4>1
    <3>4. Covers(t, T, x, V, m)
      BY <3>2, <3>3 DEF Covers
    <3>5. m <= Later(2) /\ t >= m
      BY <1>1, <1>5, <2>2
    <3> QED
      BY <1>5, <3>4, <3>5
  <2> QED
    BY <2>1, <2>2
<1> QED
  BY <1>2, <1>9

Dispatches(n, pat, f, a, next) ==
    /\ LastArmOK(pat, n = 1) /\ f = MatchFrame(n, pat = "wild") /\ next = nextBlock + 2 * n
    /\ a.to = DispatchTo(pat = "wild", nextBlock + 1, MatchTodo(n)[1])

LEMMA MatchOpens ==
  ASSUME TypeInv, PartialMatches = FALSE, NEW n \in 1..MaxArms, NEW pat, NEW f, NEW a,
         Dispatches(n, pat, f, a, nextBlock')
  PROVE  /\ f.kind = "arm" /\ f.todo = MatchTodo(n)
         /\ Range(f.todo) \subseteq From(nextBlock) /\ nextBlock <= nextBlock'
         /\ nextBlock + 1 \in From(nextBlock)
         /\ Merge(f) \in From(nextBlock) /\ Merge(f) \notin Range(a.to)
         /\ Range(a.to) \subseteq From(nextBlock) /\ \A l \in Range(a.to) : l < nextBlock'
<1>0. /\ LastArmOK(pat, n = 1) /\ f = MatchFrame(n, pat = "wild") /\ nextBlock' = nextBlock + 2 * n
      /\ a.to = DispatchTo(pat = "wild", nextBlock + 1, MatchTodo(n)[1])
  BY DEF Dispatches
<1>1. n \in Nat /\ n >= 1 /\ nextBlock \in Nat
  BY BoundsAssumption, Lists
<1>2. f.kind = "arm" /\ f.todo = MatchTodo(n)
  BY <1>0 DEF MatchFrame, NewFrame
<1>3. Range(f.todo) \subseteq nextBlock..(nextBlock + (2 * n - 1))
  BY <1>1, <1>2, MatchTodoDistinct
<1>4. Range(f.todo) \subseteq From(nextBlock)
  BY <1>1, <1>3 DEF From
<1>5. Len(f.todo) = 2 * n - 1
  BY <1>2, MatchTodoType
<1>6. Merge(f) = nextBlock
  <2>1. 2 * n - 1 \in 1..(2 * n - 1)
    BY <1>1
  <2> QED
    BY <1>2, <1>5, <2>1 DEF Merge, MatchTodo
<1>7. Range(a.to) \subseteq (nextBlock + 1)..(nextBlock + 2 * n - 1)
  <2>1. CASE pat = "wild"
    <3>1. a.to = <<nextBlock + 1>>
      BY <1>0, <2>1 DEF DispatchTo
    <3>2. Range(a.to) = {nextBlock + 1}
      BY <3>1, Range1
    <3> QED
      BY <1>1, <3>2
  <2>2. CASE pat # "wild"
    <3>1. n # 1
      BY <1>0, <2>2 DEF LastArmOK
    <3>2. 1 \in 1..(2 * n - 1) /\ 1 # 2 * n - 1 /\ n >= 2
      BY <1>1, <3>1
    <3>3. MatchTodo(n)[1] = nextBlock + n + 1
      <4>1. 1 % 2 = 1 /\ (1 + 1) \div 2 = 1
        OBVIOUS
      <4> QED
        BY <3>2, <4>1 DEF MatchTodo
    <3>4. Range(a.to) = {nextBlock + 1, nextBlock + n + 1}
      <4>1. a.to = <<nextBlock + 1, MatchTodo(n)[1]>>
        BY <1>0, <2>2 DEF DispatchTo
      <4> QED
        BY <3>3, <4>1, Range2
    <3> QED
      BY <1>1, <3>2, <3>4
  <2> QED
    BY <2>1, <2>2
<1>8. \A l \in (nextBlock + 1)..(nextBlock + 2 * n - 1) : l \in Nat /\ l # nextBlock /\ l >= nextBlock /\ l < nextBlock'
  BY <1>0, <1>1
<1>9. nextBlock <= nextBlock' /\ nextBlock + 1 \in From(nextBlock) /\ nextBlock \in From(nextBlock)
  BY <1>0, <1>1 DEF From
<1>10. Range(a.to) \subseteq From(nextBlock) /\ \A l \in Range(a.to) : l < nextBlock' /\ l # nextBlock
  BY <1>7, <1>8 DEF From
<1> QED
  BY <1>2, <1>4, <1>6, <1>9, <1>10

LEMMA MatchGood ==
  ASSUME TypeInv, TypeInv', VInv, VInv', WInv, Unique, Good, PartialMatches = FALSE,
         NEW n \in 1..MaxArms, NEW pat \in Patterns, ValueOpenMatch(n, pat)
  PROVE  Good'
<1>1. /\ Adds(MatchCode(pat),
              Finished(DispatchTerm(pat = "wild"),
                       DispatchTo(pat = "wild", nextBlock + 1, MatchTodo(n)[1])),
              ArmStart(pat, Later(2), Opd))
      /\ currentLabel' = nextBlock + 1 /\ nextBlock' = nextBlock + 2 * n
      /\ stack' = Append(stack, MatchFrame(n, pat = "wild"))
      /\ keep' = Append(keep, <<Later(0), Later(1), Opd>>) /\ held' = held
      /\ nextId' = Later(2 + ArmNames(pat)) /\ val' = NoName /\ LastArmOK(pat, n = 1)
  BY MatchAdds
<1>2. /\ Later(0) \in Nat /\ Later(1) = Later(0) + 1 /\ Later(2) = Later(0) + 2 /\ Opd \in Nat
  BY Fresh DEF VInv
<1>3. PICK a, y, s, f, ks :
         /\ a = Finished(DispatchTerm(pat = "wild"),
                         DispatchTo(pat = "wild", nextBlock + 1, MatchTodo(n)[1]))
         /\ y = MatchCode(pat) /\ s = ArmStart(pat, Later(2), Opd)
         /\ f = MatchFrame(n, pat = "wild") /\ ks = <<Later(0), Later(1), Opd>>
  OBVIOUS
<1>4. /\ Adds(y, a, s) /\ a.label = currentLabel
      /\ a.to = DispatchTo(pat = "wild", nextBlock + 1, MatchTodo(n)[1])
  BY <1>1, <1>3 DEF Finished, BB
<1>5. stack' = Append(stack, f) /\ keep' = Append(keep, ks)
  BY <1>1, <1>3, Zenon
<1>6. /\ f.kind = "arm" /\ Range(f.todo) \subseteq From(nextBlock) /\ nextBlock <= nextBlock'
      /\ nextBlock + 1 \in From(nextBlock)
      /\ Merge(f) \in From(nextBlock) /\ Merge(f) \notin Range(a.to)
      /\ Range(a.to) \subseteq From(nextBlock) /\ \A l \in Range(a.to) : l < nextBlock'
  <2>1. f = MatchFrame(n, pat = "wild")
    BY <1>3
  <2>2. nextBlock' = nextBlock + 2 * n /\ LastArmOK(pat, n = 1)
    BY <1>1
  <2>3. a.to = DispatchTo(pat = "wild", nextBlock + 1, MatchTodo(n)[1])
    BY <1>4
  <2>4. Dispatches(n, pat, f, a, nextBlock')
    BY <2>1, <2>2, <2>3 DEF Dispatches
  <2> QED
    BY <2>4, MatchOpens
<1>7. PICK V : V = {val} \cup Leaf \cup {Later(1)}
  OBVIOUS
<1>8. Opd \in V
  BY <1>7, OpdThere DEF VInv
<1>9. f.kind \notin Repeats /\ ks[1] = Later(0) /\ Uses(f.kind, ks) \subseteq V
  <2>1. ks[1] = Later(0) /\ ks[2] = Later(1) /\ ks[3] = Opd
    BY <1>3
  <2> QED
    BY <1>6, <1>7, <1>8, <2>1 DEF Repeats, LoopKinds, Uses
<1>10. Opens(f, ks)
  <2>1. Over(stack, keep, f, ks, stack', keep')
    <3>1. stack \in Seq(Frame) /\ keep \in Seq(Seq(Nat)) /\ Len(keep) = Len(stack)
      BY Lists DEF VInv, Fits
    <3> QED
      BY <1>5, <3>1 DEF Over
  <2>2. Aims(f) \subseteq From(nextBlock)
    BY <1>6, <1>9 DEF Aims
  <2> QED
    BY <1>1, <1>6, <1>9, <2>1, <2>2 DEF Opens
<1>11. Reads(s) \subseteq V
  <2>1. PICK l, o \in Nat : l = Later(2) /\ o = Opd
    BY <1>2
  <2>2. Chunk(ArmStart(pat, l, o), Loaded(pat, l), {o})
    BY TestChunk, Zenon
  <2> QED
    BY <1>3, <1>8, <2>1, <2>2 DEF Chunk
<1>12. Later(2) <= nextId'
  <2>1. PICK k \in Nat : k = 2 + ArmNames(pat) /\ 2 <= k
    BY DEF ArmNames
  <2>2. nextId' = Later(0) + k
    BY <1>1, <2>1, Operand DEF VInv
  <2> QED
    BY <1>2, <2>1, <2>2
<1>13. Placed /\ Moves /\ Settled /\ Aimed(a) /\ \A x : Fine(a, x)
  BY <1>6, <1>10, GoodParts, GoOpen, FineFresh
<1>14. ASSUME NEW t \in Nat PROVE \E T : Covers(t, T, emitted, {val}, nextId)'
  <2>1. PICK T : \E m \in Nat : Covers(t, T, emitted \o y, V, m) /\ m <= Later(2) /\ (t = Later(0) => t >= m)
    BY <1>3, <1>7, MatchNames
  <2>6. PICK m \in Nat : Covers(t, T, emitted \o y, V, m) /\ m <= Later(2) /\ (t = Later(0) => t >= m)
    BY <2>1
  <2>2. m <= nextId'
    <3>1. nextId' \in Nat
      BY DEF VInv, ValueTypeOK
    <3> QED
      BY <1>2, <1>12, <2>6, <3>1
  <2>3. val' \in V \cup {NoName}
    BY <1>1
  <2>4. PassesAt(t, V, m)
    BY <1>9, <1>10, <1>13, <2>6, <2>2, <2>3, OpenPasses
  <2>5. Covers(t, T, emitted, {val}, nextId)'
    BY <1>1, <1>4, <1>6, <1>11, <1>13, <2>6, <2>4, StepAt
  <2> QED
    BY <2>5
<1>15. Covered(emitted, {val}, nextId)'
  BY <1>14 DEF Covered
<1>16. PICK x : x = emitted \o y
  OBVIOUS
<1>17. Delivers(blocks', code', stack, keep) => Delivers(blocks', code', stack', keep')
  BY <1>4, <1>6, <1>10, <1>13, <1>16, OpenDelivers DEF Adds
<1> QED
  BY <1>4, <1>6, <1>13, <1>15, <1>17, Goes

-----------------------------------------------------------------------------
(* Steps that close the construct on top or go on to its next part.         *)

(* The names in the local variables of the construct on top are needed.     *)
LEMMA TopNeeds ==
  ASSUME TypeInv, VInv, stack # <<>>
  PROVE  /\ Len(stack) - 1 \in Nat
         /\ \A t \in Uses(Top.kind, Kept) : Needed(t, Len(stack) - 1, stack, held, keep)
<1>1. Len(stack) \in 1..Len(stack) /\ Len(stack) - 1 \in Nat /\ Len(keep) = Len(stack)
  BY Lists DEF VInv, Fits
<1>2. stack[Len(stack)] = Top /\ keep[Len(stack)] = Kept
  BY <1>1 DEF Top, Kept
<1> SUFFICES ASSUME NEW t \in Uses(Top.kind, Kept) PROVE Needed(t, Len(stack) - 1, stack, held, keep)
  BY <1>1
<1>3. t \in Uses(stack[Len(stack)].kind, keep[Len(stack)])
  BY <1>2
<1> QED
  BY <1>1, <1>3 DEF Needed

(* Instructions behind emitted that read what is needed. *)
LEMMA BehindNeeded ==
  ASSUME TypeInv, VInv, WInv, Unique, Good, NEW y, NEW D, NEW R, Chunk(y, D, R),
         NEW W, \A t \in W : \E p \in Nat : Needed(t, p, stack, held, keep), R \subseteq {val} \cup W,
         NEW G, G \subseteq D, NEW n \in Nat, nextId <= n, Between(G, nextId, n)
  PROVE  Covered(emitted \o y, {val} \cup W \cup G, n)
<1>1. emitted \in Seq(Instr) /\ nextId \in Nat /\ Covered(emitted, {val}, nextId) /\ Placed
  BY GoodParts DEF VInv, ValueTypeOK
<1>2p. PICK m \in Nat, e \in Seq(Instr) : m = nextId /\ e = emitted
  BY <1>1
<1>2. PICK V : m = nextId /\ e = emitted /\ V = {val} \cup W
  BY <1>2p
<1>3. Covered(e, V, m) /\ nextId <= m /\ m <= n /\ R \subseteq V
  <2>1. PICK U : U = {val}
    OBVIOUS
  <2>2. Covered(e, U, m)
    BY <1>1, <1>2, <2>1
  <2>3. Covered(e, U \cup W, m)
    BY <2>2, Also
  <2> QED
    BY <1>2, <2>1, <2>3
<1>4. \A d \in G : d \in Nat /\ m <= d /\ d < n
  BY <1>2 DEF Between
<1>5. Covered(e \o y, V \cup G, n)
  BY <1>1, <1>3, <1>4, Behind
<1> QED
  BY <1>2, <1>5

(* The pop of a frame. *)
LEMMA Popped ==
  ASSUME TypeInv, VInv, stack # <<>>, stack' = SubSeq(stack, 1, Len(stack) - 1),
         keep' = SubSeq(keep, 1, Len(keep) - 1)
  PROVE  Under(stack, keep, stack', keep')
<1>1. stack \in Seq(Frame) /\ keep \in Seq(Seq(Nat)) /\ Len(keep) = Len(stack)
  BY Lists DEF VInv, Fits
<1> QED
  BY <1>1 DEF Under

LEMMA FlushReturnGood ==
  ASSUME TypeInv, TypeInv', VInv, VInv', WInv, Unique, Good, ValueEndFlushReturn
  PROVE  Good'
<1>1. /\ TopIs({"flush_return"}) /\ Switch("return", <<>>, nextBlock) /\ nextBlock' = nextBlock + 1
      /\ ReturnBlock(Kept) /\ Complete
      /\ stack' = SubSeq(stack, 1, Len(stack) - 1) /\ keep' = SubSeq(keep, 1, Len(keep) - 1)
  BY DEF ValueEndFlushReturn, EndFlushReturn, FinishReturn, Pop, Drop
<1>2. stack # <<>> /\ Top.kind = "flush_return" /\ Kept \in Seq(Nat)
  BY <1>1, FitsTop DEF TopIs
<1>3. PICK a, y, s : a = Finished("return", <<>>) /\ y = ReadBack(Kept) /\ s = <<>>
  OBVIOUS
<1>4. Adds(y, a, s) /\ currentLabel' = nextBlock /\ val' = NoName /\ nextId' = nextId /\ held' = held
  BY <1>1, <1>2, <1>3, ReturnAdds
<1>5. a.label = currentLabel /\ a.to = <<>> /\ Reads(s) = {}
  BY <1>3, ReadsNone DEF Finished, BB
<1>6p. PICK n \in Nat : n = nextId
  BY DEF VInv, ValueTypeOK
<1>6. PICK W, G : n = nextId /\ W = Range(Kept) /\ G = {}
  BY <1>6p
<1>7. Covered(emitted \o y, {val} \cup W \cup G, n)
  <2>1. Chunk(y, {}, W)
    BY <1>2, <1>3, <1>6, ReadBackChunk
  <2>2. \A t \in W : \E p \in Nat : Needed(t, p, stack, held, keep)
    <3>1. Uses(Top.kind, Kept) = W
      BY <1>2, <1>6 DEF Uses, FlushKinds
    <3> QED
      BY <1>2, <3>1, TopNeeds
  <2>3. Between(G, nextId, n) /\ nextId <= n /\ G \subseteq {} /\ W \subseteq {val} \cup W
    BY <1>6 DEF Between
  <2> QED
    BY <2>1, <2>2, <2>3, BehindNeeded
<1>8. PICK V, x : V = {val} \cup W \cup G /\ x = emitted \o y
  OBVIOUS
<1>9. nextBlock \in Nat /\ nextBlock <= nextBlock' /\ currentLabel' \in From(nextBlock)
  BY <1>1, <1>4, Lists, FreshFrom
<1>10. Moves /\ Settled /\ Shifts /\ Spares
  <2>1. Under(stack, keep, stack', keep')
    BY <1>1, <1>2, Popped
  <2> QED
    BY <1>1, <1>4, <1>9, <2>1, GoodParts, GoClose
<1>11. Hands(V, n)
  <2>1. val' \in V \cup {NoName} /\ n <= nextId'
    BY <1>4, <1>6
  <2> QED
    BY <1>10, <2>1 DEF Hands, Spares
<1>12. Aimed(a) /\ Fine(a, x) /\ \A l \in Range(a.to) : l < nextBlock'
  BY <1>5, NoTargets
<1>13. Delivers(blocks', code', stack, keep) => Delivers(blocks', code', stack', keep')
  BY <1>10 DEF Shifts
<1> QED
  BY <1>4, <1>5, <1>7, <1>8, <1>9, <1>10, <1>11, <1>12, <1>13, Goes1

-----------------------------------------------------------------------------
(* Steps that finish several blocks.                                        *)

LEMMA SeqsMore ==
  ASSUME TypeInv, VInv, NEW a, NEW x \in Seq(Instr), a \in Block
  PROVE  /\ Append(blocks, a) \in Seq(Block) /\ Append(code, x) \in Seq(Seq(Instr))
         /\ Len(Append(blocks, a)) = Len(Append(code, x))
         /\ blocks \in Seq(Block) /\ code \in Seq(Seq(Instr)) /\ Len(blocks) = Len(code)
<1>1. blocks \in Seq(Block) /\ code \in Seq(Seq(Instr)) /\ Len(blocks) = Len(code)
  BY Lists DEF VInv, ValueTypeOK
<1> QED
  BY <1>1

LEMMA FlowTwo ==
  ASSUME TypeInv, VInv, NEW t, NEW T, NEW x \in Seq(Instr), NEW V, NEW n, Covers(t, T, x, V, n),
         NEW a \in Block, a.label = currentLabel, Aimed(a),
         NEW a2, a2.label \in From(nextBlock), Aimed(a2), NEW y2, t \in Reads(y2) => t \in V
  PROVE  Flow(t, T, Append(Append(blocks, a), a2), Append(Append(code, x), y2))
<1>1. Flow(t, T, Append(blocks, a), Append(code, x))
  BY FlowEnd
<1>2. PICK b \in Seq(Block), c \in Seq(Seq(Instr)) : b = Append(blocks, a) /\ c = Append(code, x)
  BY SeqsMore
<1>3. Len(b) = Len(c)
  BY <1>2, SeqsMore
<1>4. Flow(t, T, b, c)
  BY <1>1, <1>2
<1>5. Flow(t, T, Append(b, a2), Append(c, y2))
  BY <1>3, <1>4, FlowFresh
<1> QED
  BY <1>2, <1>5

LEMMA Step2At ==
  ASSUME TypeInv, TypeInv', VInv, VInv', NEW y, NEW V, NEW n \in Nat, NEW t \in Nat, NEW T,
         Covers(t, T, emitted \o y, V, n), emitted \o y \in Seq(Instr),
         NEW a \in Block, NEW y2, NEW a2, NEW s, Adds2(y, a, y2, a2, s), a.label = currentLabel, Aimed(a),
         a2.label \in From(nextBlock), Aimed(a2), Reads(y2) \subseteq V,
         Moves, PassesAt(t, V, n), Reads(s) \subseteq V, currentLabel' \in From(nextBlock)
  PROVE  Covers(t, T, emitted, {val}, nextId)'
<1>1. PICK x \in Seq(Instr) : x = emitted \o y
  OBVIOUS
<1>2. nextId' \in Nat
  BY DEF VInv, ValueTypeOK
<1>3. blocks' = Append(Append(blocks, a), a2) /\ code' = Append(Append(code, x), y2) /\ emitted' = s
  BY <1>1 DEF Adds2
<1>4. Begins(x, V) /\ Covers(t, T, x, V, n)
  BY <1>1, <1>3 DEF Begins
<1>5. t \in Reads(y2) => t \in V
  OBVIOUS
<1>6. Flow(t, T, blocks', code')
  BY <1>3, <1>4, <1>5, FlowTwo
<1> QED
  BY <1>2, <1>4, <1>6, Onward

LEMMA Goes2 ==
  ASSUME TypeInv, TypeInv', VInv, VInv', Good, NEW y, NEW a \in Block, NEW y2, NEW a2, NEW s,
         Adds2(y, a, y2, a2, s), emitted \o y \in Seq(Instr), Settled, nextBlock <= nextBlock',
         Fine(a, emitted \o y), \A l \in Range(a.to) : l < nextBlock',
         Fine(a2, y2), \A l \in Range(a2.to) : l < nextBlock',
         Delivers(blocks', code', stack, keep) => Delivers(blocks', code', stack', keep'),
         Covered(emitted, {val}, nextId)'
  PROVE  Good'
<1>1. PICK x \in Seq(Instr) : x = emitted \o y
  OBVIOUS
<1>2. PICK b \in Seq(Block), c \in Seq(Seq(Instr)) : b = Append(blocks, a) /\ c = Append(code, x)
  BY SeqsMore
<1>3. blocks' = Append(b, a2) /\ code' = Append(c, y2) /\ Len(b) = Len(c) /\ Fine(a, x)
  BY <1>1, <1>2, SeqsMore DEF Adds2
<1>4. nextBlock \in Nat /\ nextBlock' \in Nat /\ nextBlock <= nextBlock' /\ nextBlock' <= nextBlock'
  BY Lists, ListsNext
<1>5. Below(blocks', nextBlock')
  <2>1. Below(blocks, nextBlock) /\ blocks \in Seq(Block)
    BY GoodParts, Lists
  <2>2. Below(b, nextBlock')
    BY <1>2, <1>4, <2>1, BelowMore
  <2> QED
    BY <1>3, <1>4, <2>2, BelowMore
<1>6. Delivers(blocks', code', stack, keep)
  <2>1. blocks \in Seq(Block) /\ code \in Seq(Seq(Instr)) /\ Len(blocks) = Len(code)
    BY Lists DEF VInv, ValueTypeOK
  <2>2. Delivers(blocks, code, stack, keep)
    BY GoodParts
  <2>3. Delivers(b, c, stack, keep)
    BY <1>2, <1>3, <2>1, <2>2, DeliversMore
  <2> QED
    BY <1>3, <2>3, DeliversMore
<1> QED
  BY <1>5, <1>6, GoodNext

LEMMA OneLonger ==
  ASSUME NEW S, NEW s \in Seq(S), NEW x \in S
  PROVE  Append(s, x) \in Seq(S) /\ Len(Append(s, x)) = Len(s) + 1
  OBVIOUS

LEMMA FlowThree ==
  ASSUME TypeInv, VInv, NEW t, NEW T, NEW x \in Seq(Instr), NEW V, NEW n, Covers(t, T, x, V, n),
         NEW a \in Block, a.label = currentLabel, Aimed(a),
         NEW a2 \in Block, a2.label \in From(nextBlock), Aimed(a2), NEW y2 \in Seq(Instr),
         t \in Reads(y2) => t \in V,
         NEW a3, a3.label \in From(nextBlock), Aimed(a3), NEW y3, t \in Reads(y3) => t \in V
  PROVE  Flow(t, T, Append(Append(Append(blocks, a), a2), a3), Append(Append(Append(code, x), y2), y3))
<1>1. Flow(t, T, Append(Append(blocks, a), a2), Append(Append(code, x), y2))
  BY FlowTwo
<1>2. PICK b1 \in Seq(Block), c1 \in Seq(Seq(Instr)) : b1 = Append(blocks, a) /\ c1 = Append(code, x)
  BY SeqsMore
<1>3. Len(b1) = Len(c1)
  BY <1>2, SeqsMore
<1>8. Append(b1, a2) \in Seq(Block) /\ Append(c1, y2) \in Seq(Seq(Instr))
  BY OneLonger
<1>6. PICK b \in Seq(Block), c \in Seq(Seq(Instr)) : b = Append(b1, a2) /\ c = Append(c1, y2)
  BY <1>8
<1>7. Len(b) = Len(c)
  BY <1>3, <1>6, OneLonger
<1>4. Flow(t, T, b, c)
  BY <1>1, <1>2, <1>6
<1>5. Flow(t, T, Append(b, a3), Append(c, y3))
  BY <1>7, <1>4, FlowFresh
<1> QED
  BY <1>2, <1>5, <1>6

LEMMA Step3At ==
  ASSUME TypeInv, TypeInv', VInv, VInv', NEW y, NEW V, NEW n \in Nat, NEW t \in Nat, NEW T,
         Covers(t, T, emitted \o y, V, n), emitted \o y \in Seq(Instr),
         NEW a \in Block, NEW y2 \in Seq(Instr), NEW a2 \in Block, NEW y3, NEW a3, NEW s,
         Adds3(y, a, y2, a2, y3, a3, s), a.label = currentLabel, Aimed(a),
         a2.label \in From(nextBlock), Aimed(a2), Reads(y2) \subseteq V,
         a3.label \in From(nextBlock), Aimed(a3), Reads(y3) \subseteq V,
         Moves, PassesAt(t, V, n), Reads(s) \subseteq V, currentLabel' \in From(nextBlock)
  PROVE  Covers(t, T, emitted, {val}, nextId)'
<1>1. PICK x \in Seq(Instr) : x = emitted \o y
  OBVIOUS
<1>2. nextId' \in Nat
  BY DEF VInv, ValueTypeOK
<1>3. /\ blocks' = Append(Append(Append(blocks, a), a2), a3)
      /\ code' = Append(Append(Append(code, x), y2), y3) /\ emitted' = s
  BY <1>1 DEF Adds3
<1>4. Begins(x, V) /\ Covers(t, T, x, V, n)
  BY <1>1, <1>3 DEF Begins
<1>5. (t \in Reads(y2) => t \in V) /\ (t \in Reads(y3) => t \in V)
  OBVIOUS
<1>6. Flow(t, T, blocks', code')
  BY <1>3, <1>4, <1>5, FlowThree
<1> QED
  BY <1>2, <1>4, <1>6, Onward

LEMMA Goes3 ==
  ASSUME TypeInv, TypeInv', VInv, VInv', Good, NEW y, NEW a \in Block, NEW y2 \in Seq(Instr),
         NEW a2 \in Block, NEW y3, NEW a3, NEW s,
         Adds3(y, a, y2, a2, y3, a3, s), emitted \o y \in Seq(Instr), Settled, nextBlock <= nextBlock',
         Fine(a, emitted \o y), \A l \in Range(a.to) : l < nextBlock',
         Fine(a2, y2), \A l \in Range(a2.to) : l < nextBlock',
         Fine(a3, y3), \A l \in Range(a3.to) : l < nextBlock',
         Delivers(blocks', code', stack, keep) => Delivers(blocks', code', stack', keep'),
         Covered(emitted, {val}, nextId)'
  PROVE  Good'
<1>1. PICK x \in Seq(Instr) : x = emitted \o y
  OBVIOUS
<1>2. PICK b \in Seq(Block), c \in Seq(Seq(Instr)) : b = Append(blocks, a) /\ c = Append(code, x)
  BY SeqsMore
<1>9. Append(b, a2) \in Seq(Block) /\ Append(c, y2) \in Seq(Seq(Instr))
  BY OneLonger
<1>7. PICK b2 \in Seq(Block), c2 \in Seq(Seq(Instr)) : b2 = Append(b, a2) /\ c2 = Append(c, y2)
  BY <1>9
<1>8. Len(b) = Len(c)
  BY <1>2, SeqsMore
<1>3. blocks' = Append(b2, a3) /\ code' = Append(c2, y3) /\ Len(b2) = Len(c2) /\ Fine(a, x)
  <2>1. blocks' = Append(b2, a3)
    BY <1>2, <1>7 DEF Adds3
  <2>2. code' = Append(c2, y3)
    BY <1>1, <1>2, <1>7 DEF Adds3
  <2>3. Len(b2) = Len(c2)
    BY <1>7, <1>8, OneLonger
  <2> QED
    BY <1>1, <2>1, <2>2, <2>3
<1>4. nextBlock \in Nat /\ nextBlock' \in Nat /\ nextBlock <= nextBlock' /\ nextBlock' <= nextBlock'
  BY Lists, ListsNext
<1>5. Below(blocks', nextBlock')
  <2>1. Below(blocks, nextBlock) /\ blocks \in Seq(Block)
    BY GoodParts, Lists
  <2>2. Below(b, nextBlock')
    BY <1>2, <1>4, <2>1, BelowMore
  <2>3. Below(b2, nextBlock')
    BY <1>4, <1>7, <2>2, BelowMore
  <2> QED
    BY <1>3, <1>4, <2>3, BelowMore
<1>6. Delivers(blocks', code', stack, keep)
  <2>1. blocks \in Seq(Block) /\ code \in Seq(Seq(Instr)) /\ Len(blocks) = Len(code)
    BY Lists DEF VInv, ValueTypeOK
  <2>2. Delivers(blocks, code, stack, keep)
    BY GoodParts
  <2>3. Delivers(b, c, stack, keep)
    BY <1>2, <1>3, <2>1, <2>2, DeliversMore
  <2>4. Delivers(b2, c2, stack, keep)
    BY <1>7, <1>8, <2>3, DeliversMore
  <2> QED
    BY <1>3, <2>4, DeliversMore
<1> QED
  BY <1>5, <1>6, GoodNext

LEMMA OpenDelivers2 ==
  ASSUME TypeInv, TypeInv', VInv, Unique, Placed, NEW f, NEW ks, Opens(f, ks),
         NEW x \in Seq(Instr), NEW a \in Block, NEW x2, NEW a2,
         blocks' = Append(Append(blocks, a), a2), code' = Append(Append(code, x), x2),
         f.kind \in Results => /\ Merge(f) \in From(nextBlock) /\ Merge(f) \notin Range(a.to)
                               /\ (Merge(f) \in Range(a2.to) => ks[1] \in Dests(x2))
  PROVE  Delivers(blocks', code', stack, keep) => Delivers(blocks', code', stack', keep')
<1>1. ASSUME f.kind \in Results PROVE Delivered(blocks', code', ks[1], Merge(f))
  <2>1. blocks \in Seq(Block) /\ code \in Seq(Seq(Instr)) /\ Len(blocks) = Len(code) /\ nextBlock \in Nat
    BY Lists DEF VInv, ValueTypeOK
  <2>2. PICK l, t : l = Merge(f) /\ t = ks[1]
    OBVIOUS
  <2>3. l \in Nat /\ nextBlock <= l
    BY <1>1, <2>2 DEF From
  <2>4. Delivered(blocks, code, t, l)
    BY <2>1, <2>3, Unreached DEF Placed
  <2>5. PICK b \in Seq(Block), c \in Seq(Seq(Instr)) : b = Append(blocks, a) /\ c = Append(code, x)
    BY SeqsMore
  <2>6. Len(b) = Len(c)
    BY <2>5, SeqsMore
  <2>7. Delivered(b, c, t, l)
    BY <1>1, <2>1, <2>2, <2>4, <2>5, DeliveredMore
  <2>8. Delivered(Append(b, a2), Append(c, x2), t, l)
    BY <1>1, <2>2, <2>6, <2>7, DeliveredMore
  <2> QED
    BY <2>2, <2>5, <2>8
<1> QED
  BY <1>1, GoOpen

(* or_else.  The result is written in the ok block; neither the default nor *)
(* what follows reads the tag, the zero and the test.                       *)
LEMMA OrElseGood ==
  ASSUME TypeInv, TypeInv', VInv, VInv', WInv, Unique, Good, ValueOpenOrElse
  PROVE  Good'
<1>1. /\ Adds2(Unwrap, Finished("branch", <<nextBlock, nextBlock + 1>>),
               GetPayload, BB(nextBlock, <<>>, "jump", <<nextBlock + 2>>, live), <<>>)
      /\ currentLabel' = nextBlock + 1 /\ nextBlock' = nextBlock + 3
      /\ stack' = Append(stack, NewFrame("default", <<nextBlock + 2>>, NoLabel, live))
      /\ keep' = Append(keep, <<Later(1)>>) /\ held' = held
      /\ nextId' = Later(4) /\ val' = NoName
  BY OrElseAdds
<1>2. /\ Later(0) \in Nat /\ Later(1) = Later(0) + 1 /\ Later(4) = Later(0) + 4
      /\ Later(0) >= nextId /\ nextId \in Nat /\ Opd \in Nat
      /\ \A t \in Leaf : t = nextId /\ t < Later(0)
  BY Fresh DEF VInv
<1>3. PICK a, y, a2, y2, s, f, ks :
         /\ a = Finished("branch", <<nextBlock, nextBlock + 1>>) /\ y = Unwrap
         /\ a2 = BB(nextBlock, <<>>, "jump", <<nextBlock + 2>>, live) /\ y2 = GetPayload
         /\ s = <<>> /\ f = NewFrame("default", <<nextBlock + 2>>, NoLabel, live)
         /\ ks = <<Later(1)>>
  OBVIOUS
<1>4. Adds2(y, a, y2, a2, s) /\ Reads(s) = {}
  BY <1>1, <1>3, ReadsNone
<1>5. /\ a.label = currentLabel /\ a.to = <<nextBlock, nextBlock + 1>>
      /\ a2.label = nextBlock /\ a2.to = <<nextBlock + 2>>
  BY <1>3 DEF Finished, BB
<1>6. a \in Block /\ a2 \in Block
  BY <1>4, AddedBlocks DEF Adds2
<1>7. stack' = Append(stack, f) /\ keep' = Append(keep, ks)
  BY <1>1, <1>3, Zenon
<1>8. nextBlock \in Nat /\ nextBlock' \in Nat
  BY Lists, ListsNext
<1>9. f.kind = "default" /\ f.todo = <<nextBlock + 2>> /\ ks[1] = Later(1)
  BY <1>3 DEF NewFrame
<1>10. /\ Range(f.todo) = {nextBlock + 2} /\ Merge(f) = nextBlock + 2
       /\ Range(a.to) = {nextBlock, nextBlock + 1} /\ Range(a2.to) = {nextBlock + 2}
  <2>1. Range(f.todo) = {nextBlock + 2} /\ Range(a.to) = {nextBlock, nextBlock + 1}
        /\ Range(a2.to) = {nextBlock + 2}
    BY <1>5, <1>9, Range1, Range2
  <2>2. Merge(f) = nextBlock + 2
    BY <1>9 DEF Merge
  <2> QED
    BY <2>1, <2>2
<1>11. nextBlock \in From(nextBlock) /\ nextBlock + 1 \in From(nextBlock) /\ nextBlock + 2 \in From(nextBlock)
  BY <1>8 DEF From
<1>12. f.kind \notin Repeats /\ Uses(f.kind, ks) = {}
  BY <1>9 DEF Repeats, LoopKinds, Uses, FlushKinds
<1>13. Opens(f, ks)
  <2>1. Over(stack, keep, f, ks, stack', keep')
    <3>1. stack \in Seq(Frame) /\ keep \in Seq(Seq(Nat)) /\ Len(keep) = Len(stack)
      BY Lists DEF VInv, Fits
    <3> QED
      BY <1>7, <3>1 DEF Over
  <2>2. Aims(f) \subseteq From(nextBlock)
    BY <1>10, <1>11, <1>12 DEF Aims
  <2>3. nextBlock <= nextBlock'
    BY <1>1, <1>8
  <2> QED
    BY <1>1, <1>12, <2>1, <2>2, <2>3 DEF Opens
<1>14. Chunk(y, Leaf \cup {Later(0), Later(2), Later(3)}, Past) /\ Chunk(y2, {Later(1)}, {Opd})
  BY <1>3, UnwrapChunk, PayloadChunk DEF VInv
<1>15p. PICK n \in Nat : n = Later(0)
  BY <1>2
<1>15. PICK V : n = Later(0) /\ V = {val} \cup Leaf
  BY <1>15p
<1>16. Covered(emitted \o y, V, n)
  <2>1. PICK Y : Y = Leaf \cup {Later(0), Later(2), Later(3)}
    OBVIOUS
  <2>2. Chunk(y, Y, Past) /\ Between(Leaf, nextId, n) /\ nextId <= n /\ Leaf \subseteq Y
    BY <1>2, <1>14, <1>15, <2>1 DEF Between
  <2> QED
    BY <1>15, <2>2, BehindGood, PastVal
<1>17. emitted \o y \in Seq(Instr)
  <2>1. emitted \in Seq(Instr) /\ y \in Seq(Instr)
    BY <1>14 DEF Chunk, VInv, ValueTypeOK
  <2> QED
    BY <2>1, Joined
<1>18. Opd \in V /\ Reads(y2) \subseteq V /\ Reads(s) \subseteq V
  <2>1. Opd \in V
    BY <1>15, OpdThere DEF VInv
  <2> QED
    BY <1>4, <1>14, <2>1 DEF Chunk
<1>19. val' \in V \cup {NoName} /\ n <= nextId' /\ ks[1] >= n
  <2>1. val' = NoName /\ nextId' = Later(4) /\ ks[1] = Later(1)
    BY <1>1, <1>9
  <2> QED
    BY <1>2, <1>15, <2>1
<1>20. /\ Range(a.to) \subseteq From(nextBlock) /\ \A l \in Range(a.to) : l < nextBlock'
       /\ Range(a2.to) \subseteq From(nextBlock) /\ \A l \in Range(a2.to) : l < nextBlock'
       /\ Merge(f) \in From(nextBlock) /\ Merge(f) \notin Range(a.to)
  BY <1>1, <1>8, <1>10, <1>11
<1>21. /\ Placed /\ Moves /\ Settled
       /\ Aimed(a) /\ Aimed(a2) /\ \A x : Fine(a, x) /\ Fine(a2, x)
  BY <1>13, <1>20, GoodParts, GoOpen, FineFresh
<1>22. ASSUME NEW t \in Nat PROVE \E T : Covers(t, T, emitted, {val}, nextId)'
  <2>1. PICK T : Covers(t, T, emitted \o y, V, n)
    BY <1>16 DEF Covered
  <2>2. PassesAt(t, V, n)
    <3>1. f.kind \in Results /\ t = ks[1] => t >= n
      BY <1>19
    <3>2. Uses(f.kind, ks) \subseteq V
      BY <1>12
    <3> QED
      BY <1>13, <1>19, <1>21, <3>1, <3>2, OpenPasses
  <2>3. a2.label \in From(nextBlock) /\ currentLabel' \in From(nextBlock)
    BY <1>1, <1>5, <1>11
  <2>4. Covers(t, T, emitted, {val}, nextId)'
    BY <1>4, <1>5, <1>6, <1>17, <1>18, <1>21, <2>1, <2>2, <2>3, Step2At
  <2> QED
    BY <2>4
<1>23. Covered(emitted, {val}, nextId)'
  BY <1>22 DEF Covered
<1>24. Delivers(blocks', code', stack, keep) => Delivers(blocks', code', stack', keep')
  <2>1. PICK x \in Seq(Instr) : x = emitted \o y
    BY <1>17
  <2>2. blocks' = Append(Append(blocks, a), a2) /\ code' = Append(Append(code, x), y2)
    BY <1>4, <2>1 DEF Adds2
  <2>3. ks[1] \in Dests(y2)
    BY <1>9, <1>14 DEF Chunk
  <2> QED
    BY <1>6, <1>13, <1>20, <1>21, <2>2, <2>3, OpenDelivers2
<1>25. nextBlock <= nextBlock'
  BY <1>1, <1>8
<1> QED
  BY <1>4, <1>6, <1>17, <1>20, <1>21, <1>23, <1>24, <1>25, Goes2

(* for.  The counter's copy is written in the block of the condition: it is *)
(* there in the body and behind the loop.                                   *)
LEMMA ForFlow ==
  ASSUME TypeInv, VInv, Placed, NEW t \in Nat, NEW T, NEW x \in Seq(Instr), NEW V, NEW n \in Nat,
         Covers(t, T, x, V, n), t >= n, NEW a \in Block, a.to = <<nextBlock>>,
         NEW a2, a2.label = nextBlock, NEW y2, t \in Dests(y2), t \notin Reads(y2),
         NEW k \in Nat, k = nextBlock + 1
  PROVE  Flow(t, From(k), Append(Append(blocks, a), a2), Append(Append(code, x), y2))
<1>1. nextBlock \in Nat /\ blocks \in Seq(Block) /\ code \in Seq(Seq(Instr)) /\ Len(blocks) = Len(code)
  BY Lists DEF VInv, ValueTypeOK
<1>2. t \notin Reads(x) /\ Flow(t, {}, blocks, code)
  BY <1>1, NotYet
<1>3. Flow(t, From(k), blocks, code)
  BY <1>1, <1>2, GivenFlow DEF Placed
<1>4. Range(a.to) \cap From(k) = {}
  <2>1. Range(a.to) = {nextBlock}
    BY Range1
  <2>2. nextBlock \notin From(k)
    BY <1>1 DEF From
  <2> QED
    BY <2>1, <2>2
<1>5. Flow(t, From(k), Append(blocks, a), Append(code, x))
  BY <1>1, <1>2, <1>3, <1>4, FlowMore
<1>6. PICK b \in Seq(Block), c \in Seq(Seq(Instr)) : b = Append(blocks, a) /\ c = Append(code, x)
  BY SeqsMore
<1>7. Len(b) = Len(c)
  BY <1>6, SeqsMore
<1>8. Flow(t, From(k), b, c)
  BY <1>5, <1>6
<1>9. Flow(t, From(k), Append(b, a2), Append(c, y2))
  BY <1>7, <1>8, FlowMore
<1> QED
  BY <1>6, <1>9

(* Instructions y, y2 and s of the initialisation, the condition and the    *)
(* body, with names V known behind y and counter i.                         *)
Counts(y, a, y2, a2, s, f, ks, V, n, i) ==
  /\ Adds2(y, a, y2, a2, s) /\ a \in Block /\ emitted \o y \in Seq(Instr)
  /\ a.label = currentLabel /\ a.to = <<nextBlock>>
  /\ a2.label = nextBlock /\ a2.to = <<nextBlock + 1, nextBlock + 2>>
  /\ Reads(y2) \subseteq V /\ i \in Dests(y2) /\ Reads(s) \subseteq V \cup {i}
  /\ f.kind = "for" /\ f.todo = <<nextBlock + 2>> /\ f.head = nextBlock
  /\ ks[2] = i /\ n <= i /\ nextId <= i

LEMMA ForOpens ==
  ASSUME TypeInv, TypeInv', VInv, NEW f, NEW ks,
         stack' = Append(stack, f), keep' = Append(keep, ks), nextBlock' = nextBlock + 3,
         f.kind = "for", f.todo = <<nextBlock + 2>>, f.head = nextBlock,
         held' = held \/ (held' = Front(held) /\ held # <<>>)
  PROVE  Opens(f, ks) /\ Range(f.todo) = {nextBlock + 2}
<1>1. nextBlock \in Nat
  BY Lists
<1>2. Range(f.todo) = {nextBlock + 2}
  BY Range1
<1>3. Over(stack, keep, f, ks, stack', keep')
  <2>1. stack \in Seq(Frame) /\ keep \in Seq(Seq(Nat)) /\ Len(keep) = Len(stack)
    BY Lists DEF VInv, Fits
  <2> QED
    BY <2>1 DEF Over
<1>4. nextBlock \in From(nextBlock) /\ nextBlock + 2 \in From(nextBlock)
  BY <1>1 DEF From
<1>5. Aims(f) \subseteq From(nextBlock)
  BY <1>2, <1>4 DEF Aims
<1>6. nextBlock <= nextBlock' /\ nextBlock \in Nat /\ nextBlock < nextBlock' /\ nextBlock \notin {nextBlock + 2}
  BY <1>1
<1> QED
  BY <1>2, <1>3, <1>5, <1>6 DEF Opens

LEMMA ForNamesGood ==
  ASSUME TypeInv, TypeInv', VInv, VInv', WInv, Unique, Good,
         NEW y, NEW a, NEW y2, NEW a2, NEW s, NEW f, NEW ks, NEW V, NEW n \in Nat, NEW i \in Nat,
         Counts(y, a, y2, a2, s, f, ks, V, n, i), Covered(emitted \o y, V, n),
         Opens(f, ks), Range(f.todo) = {nextBlock + 2},
         currentLabel' = nextBlock + 1, nextBlock' = nextBlock + 3, val' = NoName,
         n <= nextId', i < nextId'
  PROVE  Covered(emitted, {val}, nextId)'
<1>1. /\ Adds2(y, a, y2, a2, s) /\ a \in Block /\ emitted \o y \in Seq(Instr)
      /\ a.label = currentLabel /\ a.to = <<nextBlock>>
      /\ a2.label = nextBlock /\ a2.to = <<nextBlock + 1, nextBlock + 2>>
      /\ Reads(y2) \subseteq V /\ i \in Dests(y2) /\ Reads(s) \subseteq V \cup {i}
      /\ f.kind = "for" /\ ks[2] = i /\ n <= i /\ nextId <= i
  BY DEF Counts
<1>2. nextBlock \in Nat /\ Len(stack) \in Nat /\ nextId' \in Nat /\ nextId \in Nat
  <2>1. nextId' \in Nat
    BY DEF VInv, ValueTypeOK
  <2>2. nextId \in Nat
    BY DEF VInv, ValueTypeOK
  <2> QED
    BY Lists, <2>1, <2>2
<1>3. nextBlock \in From(nextBlock) /\ nextBlock + 1 \in From(nextBlock) /\ nextBlock + 2 \in From(nextBlock)
  BY <1>2 DEF From
<1>4. /\ Placed /\ Moves /\ Aimed(a) /\ Aimed(a2)
  <2>1. Range(a.to) = {nextBlock} /\ Range(a2.to) = {nextBlock + 1, nextBlock + 2}
    BY <1>1, Range1, Range2
  <2> QED
    BY <1>3, <2>1, GoodParts, GoOpen, FineFresh
<1>5. f.kind \notin Results /\ Uses(f.kind, ks) = {i}
  BY <1>1 DEF Results, Uses
<1>6. PICK W, x : W = V \cup {i} /\ x = emitted \o y
  OBVIOUS
<1>7. ASSUME NEW t \in Nat PROVE \E T : Covers(t, T, emitted, {val}, nextId)'
  <2>1. PICK T : Covers(t, T, x, V, n)
    BY <1>6 DEF Covered
  <2>2. CASE t # i
    <3>1. Covers(t, T, x, W, n)
      BY <1>6, <2>1, <2>2 DEF Covers
    <3>2. PassesAt(t, W, n)
      <4>1. val' \in W \cup {NoName} /\ Uses(f.kind, ks) \subseteq W
        BY <1>5, <1>6
      <4> QED
        BY <1>4, <1>5, <4>1, OpenPasses
    <3>3. Reads(y2) \subseteq W /\ Reads(s) \subseteq W /\ a2.label \in From(nextBlock)
          /\ currentLabel' \in From(nextBlock)
      BY <1>1, <1>3, <1>6
    <3>4. Covers(t, T, emitted, {val}, nextId)'
      BY <1>1, <1>4, <1>6, <3>1, <3>2, <3>3, Step2At
    <3> QED
      BY <3>4
  <2>3. CASE t = i
    <3>1. t >= n /\ t < nextId'
      BY <1>1, <2>3
    <3>2. t \notin V /\ t \in Dests(y2) /\ t \notin Reads(y2)
      <4>1. t \notin V
        BY <1>2, <2>1, <3>1, NotYet
      <4> QED
        BY <1>1, <2>3, <4>1
    <3>3. PICK k \in Nat : k = nextBlock + 1
      BY <1>2
    <3>4. Flow(t, From(k), blocks', code')
      <4>1. blocks' = Append(Append(blocks, a), a2) /\ code' = Append(Append(code, x), y2)
        BY <1>1, <1>6 DEF Adds2
      <4>2. x \in Seq(Instr) /\ a2.label = nextBlock /\ a.to = <<nextBlock>>
        BY <1>1, <1>6
      <4>3. Flow(t, From(k), Append(Append(blocks, a), a2), Append(Append(code, x), y2))
        BY <1>1, <1>4, <2>1, <3>1, <3>2, <3>3, <4>2, ForFlow
      <4> QED
        BY <4>1, <4>3
    <3>5. /\ \A j \in 1..Len(stack') : j \in 1..Len(stack)
                                       \/ (j = Len(stack) + 1 /\ stack'[j] = f)
          /\ \A j \in 1..Len(stack) : stack'[j] = stack[j]
      <4>1. Over(stack, keep, f, ks, stack', keep')
        BY DEF Opens
      <4> QED
        BY <4>1, OverAt
    <3>6. Above(k)
      <4>1. nextBlock <= k /\ k <= nextBlock' /\ currentLabel' \in From(k) /\ Range(f.todo) \subseteq From(k)
        BY <1>2, <3>3 DEF From
      <4>2. \A j \in 1..Len(stack') : IF j <= Len(stack) THEN stack'[j] = stack[j] ELSE Range(stack'[j].todo) \subseteq From(k)
        BY <1>2, <3>5, <4>1
      <4> QED
        BY <4>1, <4>2 DEF Above
    <3>7. /\ \A p : Needed(t, p, stack', held', keep') => Needed(t, p, stack, held, keep) \/ p = Len(stack)
          /\ Awaits(t, stack', keep') => Awaits(t, stack, keep)
      BY <1>4, <1>5, GoOpen
    <3>8. ~Awaits(t, stack', keep')
      <4>1. \A j \in 1..Len(stack) : stack[j].kind \in Owners => keep[j][1] \in Nat /\ keep[j][1] < nextId
        BY OwnersOld
      <4>2. ~(t < nextId)
        BY <1>1, <1>2, <2>3
      <4>3. ~Awaits(t, stack, keep)
        BY <4>1, <4>2 DEF Awaits, Owners
      <4> QED
        BY <3>7, <4>3
    <3>9. \A j \in 1..Len(stack') : j > Len(stack) => j = Len(stack) + 1
      BY <1>2, <3>5
    <3>10. \A p \in Nat : Needed(t, p, stack', held', keep') => Needed(t, p, stack, held, keep) \/ p = Len(stack)
      BY <3>7
    <3>11. Covers(t, From(k), emitted, {val}, nextId)'
      BY <1>2, <1>4, <2>1, <3>1, <3>4, <3>6, <3>8, <3>9, <3>10, Given
    <3> QED
      BY <3>11
  <2> QED
    BY <2>2, <2>3
<1> QED
  BY <1>7 DEF Covered

LEMMA ForPartsGood ==
  ASSUME TypeInv, TypeInv', VInv, VInv', WInv, Unique, Good,
         NEW y, NEW a, NEW y2, NEW a2, NEW s, NEW f, NEW ks, NEW V, NEW n \in Nat, NEW i \in Nat,
         Counts(y, a, y2, a2, s, f, ks, V, n, i), Covered(emitted \o y, V, n),
         stack' = Append(stack, f), keep' = Append(keep, ks),
         held' = held \/ (held' = Front(held) /\ held # <<>>),
         currentLabel' = nextBlock + 1, nextBlock' = nextBlock + 3, val' = NoName,
         n <= nextId', i < nextId'
  PROVE  Good'
<1>1. /\ Adds2(y, a, y2, a2, s) /\ a \in Block /\ emitted \o y \in Seq(Instr)
      /\ a.to = <<nextBlock>> /\ a2.to = <<nextBlock + 1, nextBlock + 2>>
      /\ f.kind = "for" /\ f.todo = <<nextBlock + 2>> /\ f.head = nextBlock
  BY DEF Counts
<1>2. Opens(f, ks) /\ Range(f.todo) = {nextBlock + 2}
  BY <1>1, ForOpens
<1>3. Covered(emitted, {val}, nextId)'
  BY <1>2, ForNamesGood
<1>4. nextBlock \in Nat /\ nextBlock <= nextBlock'
  <2>1. nextBlock \in Nat
    BY Lists
  <2>2. \A m \in Nat : m <= m + 3
    OBVIOUS
  <2> QED
    BY <2>1, <2>2
<1>5. /\ Range(a.to) \subseteq From(nextBlock) /\ Range(a2.to) \subseteq From(nextBlock)
      /\ (\A l \in Range(a.to) : l < nextBlock') /\ (\A l \in Range(a2.to) : l < nextBlock')
  <2>1. Range(a.to) = {nextBlock} /\ Range(a2.to) = {nextBlock + 1, nextBlock + 2}
    BY <1>1, Range1, Range2
  <2>2. nextBlock \in From(nextBlock) /\ nextBlock + 1 \in From(nextBlock) /\ nextBlock + 2 \in From(nextBlock)
    BY <1>4 DEF From
  <2>3. nextBlock < nextBlock' /\ nextBlock + 1 < nextBlock' /\ nextBlock + 2 < nextBlock'
    BY <1>4
  <2> QED
    BY <2>1, <2>2, <2>3
<1>6. Settled /\ \A x : Fine(a, x) /\ Fine(a2, x)
  BY <1>2, <1>5, GoodParts, GoOpen, FineFresh
<1>7. Delivers(blocks', code', stack, keep) => Delivers(blocks', code', stack', keep')
  <2>1. f.kind \notin Results
    BY <1>1 DEF Results
  <2> QED
    BY <1>2, <2>1, GoodParts, GoOpen
<1> QED
  BY <1>1, <1>3, <1>4, <1>5, <1>6, <1>7, Goes2

LEMMA ForGood ==
  ASSUME TypeInv, TypeInv', VInv, VInv', WInv, Unique, Good, ValueOpenFor
  PROVE  Good'
<1>1. /\ Later(0) \in Nat /\ Later(1) = Later(0) + 1 /\ Later(2) = Later(0) + 2
      /\ Later(3) = Later(0) + 3 /\ Later(5) = Later(0) + 5 /\ Later(8) = Later(0) + 8
      /\ Later(0) >= nextId /\ nextId \in Nat /\ \A t \in Leaf : t = nextId /\ t < Later(0)
  BY Fresh DEF VInv
<1>2. PICK f, a, a2 :
         /\ f = NewFrame("for", <<nextBlock + 2>>, nextBlock, live)
         /\ a = BB(currentLabel, Append(instrs, Ev("init", nextBlock)), "jump", <<nextBlock>>, live)
         /\ a2 = BB(nextBlock, <<>>, "lt", <<nextBlock + 1, nextBlock + 2>>, live)
  OBVIOUS
<1>3. f.kind = "for" /\ f.todo = <<nextBlock + 2>> /\ f.head = nextBlock
  BY <1>2 DEF NewFrame
<1>4. /\ a.label = currentLabel /\ a.to = <<nextBlock>>
      /\ a2.label = nextBlock /\ a2.to = <<nextBlock + 1, nextBlock + 2>>
  BY <1>2 DEF BB
<1>5. stack' = Append(stack, f)
  BY <1>2, ForAdds, Zenon
<1>6. currentLabel' = nextBlock + 1 /\ nextBlock' = nextBlock + 3 /\ val' = NoName
  BY ForAdds
<1>7. \A y, y2, s : ForBlocks(y, y2, s) => Adds2(y, a, y2, a2, s) /\ a \in Block
  BY <1>2, AddedBlocks DEF ForBlocks, Adds2
<1>8. emitted \in Seq(Instr) /\ Opd \in {val} \cup Leaf
  BY OpdThere DEF VInv, ValueTypeOK
<1>n. PICK l \in Nat : l = Later(0)
  BY <1>1
<1>9. CASE /\ HeldHere /\ held[Len(held)].name \in Nat /\ held' = Front(held)
           /\ ForBlocks(RangeInit(held[Len(held)].name), RangeCond, <<Use(<<Later(2)>>)>>)
           /\ keep' = Append(keep, <<Later(0), Later(2)>>) /\ nextId' = Later(5)
  <2>1. PICK h \in Nat : h = held[Len(held)].name
    BY <1>9
  <2>2. PICK y, y2, s, ks : /\ y = RangeInit(h) /\ y2 = RangeCond /\ s = <<Use(<<Later(2)>>)>>
                            /\ ks = <<Later(0), Later(2)>>
    OBVIOUS
  <2>3. PICK i \in Nat, n \in Nat : i = Later(2) /\ n = Later(2)
    BY <1>1
  <2>4. PICK W, G, V : W = {h} /\ G = Leaf \cup {Later(0), Later(1)} /\ V = {val} \cup W \cup G
    OBVIOUS
  <2>5. /\ Chunk(y, G, Past \cup {h}) /\ Chunk(y2, {Later(2), Later(3), Later(4)}, {Later(0), Later(1)})
        /\ Chunk(s, {}, {Later(2)})
    BY <2>2, <2>4, RangeChunks DEF VInv
  <2>6. held # <<>> /\ held' = Front(held) /\ \A t \in W : \E p \in Nat : Needed(t, p, stack, held, keep)
    <3>1. held \in Seq([name : Nat, depth : Nat]) /\ held # <<>>
      BY <1>9 DEF VInv, ValueTypeOK, Name, HeldHere
    <3>2. Len(held) \in 1..Len(held)
      BY <3>1
    <3>3. held[Len(held)].depth \in Nat
      BY <3>1, <3>2, HeldDepth
    <3> QED
      BY <1>9, <2>1, <2>4, <3>1, <3>2, <3>3 DEF Needed
  <2>7. Covered(emitted \o y, V, n)
    <3>1. PICK R : R = Past \cup {h}
      OBVIOUS
    <3>2. Chunk(y, G, R) /\ R \subseteq {val} \cup W /\ G \subseteq G
      BY <2>4, <2>5, <3>1, PastVal
    <3>3. Between(G, nextId, n) /\ nextId <= n
      <4>1. \A t \in G : t \in Nat /\ nextId <= t /\ t < n
        BY <1>1, <2>3, <2>4
      <4> QED
        BY <1>1, <2>3, <4>1 DEF Between
    <3>4. Covered(emitted \o y, {val} \cup W \cup G, n)
      BY <2>6, <3>2, <3>3, BehindNeeded
    <3> QED
      BY <2>4, <3>4
  <2>8. Counts(y, a, y2, a2, s, f, ks, V, n, i)
    <3>1. Adds2(y, a, y2, a2, s) /\ a \in Block
      <4>1. ForBlocks(y, y2, s)
        BY <1>9, <2>1, <2>2
      <4> QED
        BY <1>7, <4>1
    <3>2. emitted \o y \in Seq(Instr)
      BY <1>8, <2>5, Joined DEF Chunk
    <3>3. Reads(y2) \subseteq V /\ i \in Dests(y2) /\ Reads(s) \subseteq V \cup {i}
      BY <2>3, <2>4, <2>5 DEF Chunk
    <3>4. ks[2] = i /\ n <= i /\ nextId <= i
      BY <1>1, <2>2, <2>3
    <3> QED
      BY <1>3, <1>4, <3>1, <3>2, <3>3, <3>4 DEF Counts
  <2>9. keep' = Append(keep, ks) /\ n <= nextId' /\ i < nextId'
    <3>1. nextId' = Later(5) /\ n <= Later(5) /\ i < Later(5)
      <4>1. n <= Later(5) /\ i < Later(5)
        BY <1>1, <2>3
      <4> QED
        BY <1>9, <4>1
    <3>2. keep' = Append(keep, ks)
      BY <1>9, <2>2
    <3> QED
      BY <3>1, <3>2
  <2> QED
    BY <1>5, <1>6, <2>6, <2>7, <2>8, <2>9, ForPartsGood
<1>10. CASE /\ Complete /\ held' = held /\ ForBlocks(SliceInit, SliceCond, SliceBody)
            /\ keep' = Append(keep, <<Later(0), Later(3)>>) /\ nextId' = Later(8)
  <2>2. PICK y, y2, s, ks : /\ y = SliceInit /\ y2 = SliceCond /\ s = SliceBody
                            /\ ks = <<Later(0), Later(3)>>
    OBVIOUS
  <2>3. PICK i \in Nat, n \in Nat : i = Later(3) /\ n = Later(3)
    BY <1>1
  <2>4. PICK G, V : G = Leaf \cup {Later(0), Later(1), Later(2)} /\ V = {val} \cup G
    OBVIOUS
  <2>5. /\ Chunk(y, G, Past) /\ Chunk(y2, {Later(3), Later(4), Later(5)}, {Later(0), Later(2)})
        /\ Chunk(s, {Later(6), Later(7)}, {Opd, Later(3)})
    BY <2>2, <2>4, SliceChunks DEF VInv
  <2>7. Covered(emitted \o y, V, n)
    <3>3. Between(G, nextId, n) /\ nextId <= n
      <4>1. \A t \in G : t \in Nat /\ nextId <= t /\ t < n
        BY <1>1, <2>3, <2>4
      <4> QED
        BY <1>1, <2>3, <4>1 DEF Between
    <3> QED
      BY <2>4, <2>5, <3>3, BehindGood, PastVal
  <2>8. Counts(y, a, y2, a2, s, f, ks, V, n, i)
    <3>1. Adds2(y, a, y2, a2, s) /\ a \in Block
      BY <1>7, <1>10, <2>2
    <3>2. emitted \o y \in Seq(Instr)
      BY <1>8, <2>5, Joined DEF Chunk
    <3>3. Reads(y2) \subseteq V /\ i \in Dests(y2) /\ Reads(s) \subseteq V \cup {i}
      BY <1>8, <2>3, <2>4, <2>5 DEF Chunk
    <3>4. ks[2] = i /\ n <= i /\ nextId <= i
      BY <1>1, <2>2, <2>3
    <3> QED
      BY <1>3, <1>4, <3>1, <3>2, <3>3, <3>4 DEF Counts
  <2>9. keep' = Append(keep, ks) /\ n <= nextId' /\ i < nextId' /\ held' = held
    <3>1. nextId' = Later(8) /\ n <= Later(8) /\ i < Later(8)
      <4>1. n <= Later(8) /\ i < Later(8)
        BY <1>1, <2>3
      <4> QED
        BY <1>10, <4>1
    <3>2. keep' = Append(keep, ks) /\ held' = held
      BY <1>10, <2>2
    <3> QED
      BY <3>1, <3>2
  <2> QED
    BY <1>5, <1>6, <2>7, <2>8, <2>9, ForPartsGood
<1> QED
  BY <1>9, <1>10, ForAdds

(* or_return, or_panic, or_zero.  The result is there where the two blocks  *)
(* meet.                                                                    *)
LEMMA OrFlow ==
  ASSUME TypeInv, VInv, Placed, NEW t \in Nat, NEW T, NEW x \in Seq(Instr), NEW V, NEW n \in Nat,
         Covers(t, T, x, V, n), t >= n,
         NEW a \in Block, a.to = <<nextBlock, nextBlock + 1>>,
         NEW a2 \in Block, NEW y2 \in Seq(Instr), t \in Dests(y2), t \notin Reads(y2),
         NEW a3, NEW y3, t \notin Reads(y3), NEW k \in Nat, k = nextBlock + 2,
         \A l \in Range(a3.to) : l \in From(k) => t \in Dests(y3)
  PROVE  Flow(t, From(k), Append(Append(Append(blocks, a), a2), a3),
                          Append(Append(Append(code, x), y2), y3))
<1>1. nextBlock \in Nat /\ blocks \in Seq(Block) /\ code \in Seq(Seq(Instr)) /\ Len(blocks) = Len(code)
  BY Lists DEF VInv, ValueTypeOK
<1>2. t \notin Reads(x) /\ Flow(t, {}, blocks, code)
  BY <1>1, NotYet
<1>3. Flow(t, From(k), blocks, code)
  BY <1>1, <1>2, GivenFlow DEF Placed
<1>4. Range(a.to) \cap From(k) = {}
  <2>1. Range(a.to) = {nextBlock, nextBlock + 1}
    BY Range2
  <2>3. \A m \in Nat : ~(m >= m + 2) /\ ~(m + 1 >= m + 2)
    OBVIOUS
  <2>2. nextBlock \notin From(k) /\ nextBlock + 1 \notin From(k)
    <3>1. ~(nextBlock >= k) /\ ~(nextBlock + 1 >= k)
      BY <1>1, <2>3
    <3> QED
      BY <3>1 DEF From
  <2> QED
    BY <2>1, <2>2
<1>5. Flow(t, From(k), Append(blocks, a), Append(code, x))
  BY <1>1, <1>2, <1>3, <1>4, FlowMore
<1>6. PICK b \in Seq(Block), c \in Seq(Seq(Instr)) : b = Append(blocks, a) /\ c = Append(code, x)
  BY SeqsMore
<1>7. Len(b) = Len(c)
  BY <1>6, SeqsMore
<1>8. Flow(t, From(k), b, c)
  BY <1>5, <1>6
<1>9. Flow(t, From(k), Append(b, a2), Append(c, y2))
  BY <1>7, <1>8, FlowMore
<1>10. Append(b, a2) \in Seq(Block) /\ Append(c, y2) \in Seq(Seq(Instr))
  BY OneLonger
<1>11. PICK b2 \in Seq(Block), c2 \in Seq(Seq(Instr)) : b2 = Append(b, a2) /\ c2 = Append(c, y2)
  BY <1>10
<1>12. Len(b2) = Len(c2)
  <2>1. Len(b2) = Len(b) + 1
    BY <1>11
  <2>2. Len(c2) = Len(c) + 1
    BY <1>11
  <2> QED
    BY <1>7, <2>1, <2>2
<1>13. Flow(t, From(k), b2, c2)
  BY <1>9, <1>11
<1>14. Flow(t, From(k), Append(b2, a3), Append(c2, y3))
  BY <1>12, <1>13, FlowMore
<1> QED
  BY <1>6, <1>11, <1>14

(* The three blocks, with names V known behind y and result r.              *)
Joins(y, a, y2, a2, y3, a3, s, V, n, r) ==
  /\ Adds3(y, a, y2, a2, y3, a3, s) /\ a \in Block /\ a2 \in Block /\ emitted \o y \in Seq(Instr)
  /\ y2 \in Seq(Instr) /\ a.label = currentLabel /\ a.to = <<nextBlock, nextBlock + 1>>
  /\ a2.label = nextBlock /\ a2.to = <<nextBlock + 2>>
  /\ a3.label = nextBlock + 1 /\ Range(a3.to) \subseteq {nextBlock + 2}
  /\ Reads(y2) \subseteq V /\ Reads(y3) \subseteq V /\ Reads(s) = {} /\ r \in Dests(y2)
  /\ (Range(a3.to) # {} => r \in Dests(y3))
  /\ n <= r /\ nextId <= r

LEMMA OrPartsGood ==
  ASSUME TypeInv, TypeInv', VInv, VInv', WInv, Unique, Good,
         NEW y, NEW a, NEW y2, NEW a2, NEW y3, NEW a3, NEW s, NEW V, NEW n \in Nat, NEW r \in Nat,
         Joins(y, a, y2, a2, y3, a3, s, V, n, r), Covered(emitted \o y, V, n),
         stack' = stack, keep' = keep, held' = held,
         currentLabel' = nextBlock + 2, nextBlock' = nextBlock + 3, val' = r,
         n <= nextId', r < nextId'
  PROVE  Good'
<1>1. /\ Adds3(y, a, y2, a2, y3, a3, s) /\ a \in Block /\ a2 \in Block /\ emitted \o y \in Seq(Instr)
      /\ y2 \in Seq(Instr) /\ a.label = currentLabel /\ a.to = <<nextBlock, nextBlock + 1>>
      /\ a2.label = nextBlock /\ a2.to = <<nextBlock + 2>>
      /\ a3.label = nextBlock + 1 /\ Range(a3.to) \subseteq {nextBlock + 2}
      /\ Reads(y2) \subseteq V /\ Reads(y3) \subseteq V /\ Reads(s) = {} /\ r \in Dests(y2)
      /\ (Range(a3.to) # {} => r \in Dests(y3))
      /\ n <= r /\ nextId <= r
  BY DEF Joins
<1>2. nextBlock \in Nat /\ Len(stack) \in Nat /\ nextId' \in Nat /\ nextId \in Nat
  <2>1. nextId' \in Nat
    BY DEF VInv, ValueTypeOK
  <2>2. nextId \in Nat
    BY DEF VInv, ValueTypeOK
  <2> QED
    BY Lists, <2>1, <2>2
<1>3. /\ nextBlock \in From(nextBlock) /\ nextBlock + 1 \in From(nextBlock) /\ nextBlock + 2 \in From(nextBlock)
      /\ nextBlock <= nextBlock' /\ nextBlock < nextBlock' /\ nextBlock + 1 < nextBlock' /\ nextBlock + 2 < nextBlock'
  <2>1. \A m \in Nat : m <= m + 3 /\ m < m + 3 /\ m + 1 < m + 3 /\ m + 2 < m + 3
    OBVIOUS
  <2> QED
    BY <1>2, <2>1 DEF From
<1>4. /\ Range(a.to) \subseteq From(nextBlock) /\ Range(a2.to) \subseteq From(nextBlock)
      /\ Range(a3.to) \subseteq From(nextBlock) /\ (\A l \in Range(a.to) : l < nextBlock')
      /\ (\A l \in Range(a2.to) : l < nextBlock') /\ (\A l \in Range(a3.to) : l < nextBlock')
  <2>1. Range(a.to) = {nextBlock, nextBlock + 1} /\ Range(a2.to) = {nextBlock + 2}
    BY <1>1, Range1, Range2
  <2> QED
    BY <1>1, <1>3, <2>1
<1>5. /\ Placed /\ Aimed(a) /\ Aimed(a2) /\ Aimed(a3)
      /\ \A x : Fine(a, x) /\ Fine(a2, x) /\ Fine(a3, x)
  BY <1>4, GoodParts, FineFresh
<1>6. PICK W, x : W = V \cup {r} /\ x = emitted \o y
  OBVIOUS
<1>7. /\ Moves /\ Settled /\ Shifts
      /\ \A U, m : val' \in U \cup {NoName} /\ m <= nextId' => Hands(U, m)
  BY <1>3, <1>5, SameStill, GoStill
<1>8. ASSUME NEW t \in Nat PROVE \E T : Covers(t, T, emitted, {val}, nextId)'
  <2>1. PICK T : Covers(t, T, x, V, n)
    BY <1>6 DEF Covered
  <2>2. CASE t # r
    <3>1. Covers(t, T, x, W, n)
      BY <1>6, <2>1, <2>2 DEF Covers
    <3>2. PassesAt(t, W, n)
      <4>1. Hands(W, n)
        BY <1>6, <1>7
      <4> QED
        BY <4>1, PassesEach
    <3>3. Reads(y2) \subseteq W /\ Reads(y3) \subseteq W /\ Reads(s) \subseteq W
      BY <1>1, <1>6
    <3>4. a2.label \in From(nextBlock) /\ a3.label \in From(nextBlock) /\ currentLabel' \in From(nextBlock)
      BY <1>1, <1>3
    <3>5. Covers(t, T, emitted, {val}, nextId)'
      BY <1>1, <1>5, <1>6, <1>7, <3>1, <3>2, <3>3, <3>4, Step3At
    <3> QED
      BY <3>5
  <2>3. CASE t = r
    <3>1. t >= n /\ t < nextId'
      BY <1>1, <2>3
    <3>2. t \in Dests(y2) /\ t \notin Reads(y2) /\ t \notin Reads(y3)
      <4>1. t \notin V
        BY <1>2, <2>1, <3>1, NotYet
      <4> QED
        BY <1>1, <2>3, <4>1
    <3>3. PICK k \in Nat : k = nextBlock + 2
      BY <1>2
    <3>4. Flow(t, From(k), blocks', code')
      <4>1. /\ blocks' = Append(Append(Append(blocks, a), a2), a3)
            /\ code' = Append(Append(Append(code, x), y2), y3)
        BY <1>1, <1>6 DEF Adds3
      <4>2. x \in Seq(Instr) /\ a.to = <<nextBlock, nextBlock + 1>>
        BY <1>1, <1>6
      <4>3. \A l \in Range(a3.to) : l \in From(k) => t \in Dests(y3)
        BY <1>1, <2>3
      <4>4. Flow(t, From(k), Append(Append(Append(blocks, a), a2), a3),
                             Append(Append(Append(code, x), y2), y3))
        BY <1>1, <1>5, <2>1, <3>1, <3>2, <3>3, <4>2, <4>3, OrFlow
      <4> QED
        BY <4>1, <4>4
    <3>5. Above(k)
      BY <1>2, <3>3 DEF From, Above
    <3>6. ~Awaits(t, stack', keep')
      <4>1. \A j \in 1..Len(stack) : stack[j].kind \in Owners => keep[j][1] \in Nat /\ keep[j][1] < nextId
        BY OwnersOld
      <4>2. ~(t < nextId)
        BY <1>1, <1>2, <2>3
      <4> QED
        BY <4>1, <4>2 DEF Awaits, Owners
    <3>7. \A p \in Nat : Needed(t, p, stack', held', keep') => Needed(t, p, stack, held, keep) \/ p = Len(stack)
      OBVIOUS
    <3>8. \A j \in 1..Len(stack') : j > Len(stack) => j = Len(stack) + 1
      BY <1>2
    <3>9. Covers(t, From(k), emitted, {val}, nextId)'
      BY <1>2, <1>5, <2>1, <3>1, <3>4, <3>5, <3>6, <3>7, <3>8, Given
    <3> QED
      BY <3>9
  <2> QED
    BY <2>2, <2>3
<1>9. Covered(emitted, {val}, nextId)'
  BY <1>8 DEF Covered
<1>10. Delivers(blocks', code', stack, keep) => Delivers(blocks', code', stack', keep')
  OBVIOUS
<1> QED
  BY <1>1, <1>3, <1>4, <1>5, <1>7, <1>9, <1>10, Goes3

LEMMA OrOpGood ==
  ASSUME TypeInv, TypeInv', VInv, VInv', WInv, Unique, Good,
         NEW c, NEW term, NEW to, OrOp(c, term, to), NEW err, ValueOrOp(err),
         NEW E, Chunk(err, E, {Opd}), Range(to) \subseteq {nextBlock + 2}, Range(to) # {} => Later(1) \in E
  PROVE  Good'
<1>1. /\ Adds3(Unwrap, Finished("branch", <<nextBlock, nextBlock + 1>>),
               GetPayload, BB(nextBlock, <<>>, "jump", <<nextBlock + 2>>, live),
               err, BB(nextBlock + 1, <<>>, term, to, live), <<>>)
      /\ currentLabel' = nextBlock + 2 /\ nextBlock' = nextBlock + 3
      /\ stack' = stack /\ keep' = keep /\ held' = held /\ nextId' = Later(4) /\ val' = Later(1)
  <2>1. err \in Seq(Instr)
    BY DEF Chunk
  <2> QED
    BY <2>1, OrOpAdds
<1>2. /\ Later(0) \in Nat /\ Later(1) = Later(0) + 1 /\ Later(4) = Later(0) + 4
      /\ Later(0) >= nextId /\ nextId \in Nat /\ \A t \in Leaf : t = nextId /\ t < Later(0)
  BY Fresh DEF VInv
<1>3. PICK a, y, a2, y2, a3, s :
         /\ a = Finished("branch", <<nextBlock, nextBlock + 1>>) /\ y = Unwrap
         /\ a2 = BB(nextBlock, <<>>, "jump", <<nextBlock + 2>>, live) /\ y2 = GetPayload
         /\ a3 = BB(nextBlock + 1, <<>>, term, to, live) /\ s = <<>>
  OBVIOUS
<1>4. Adds3(y, a, y2, a2, err, a3, s) /\ Reads(s) = {}
  BY <1>1, <1>3, ReadsNone
<1>5. /\ a.label = currentLabel /\ a.to = <<nextBlock, nextBlock + 1>>
      /\ a2.label = nextBlock /\ a2.to = <<nextBlock + 2>> /\ a3.label = nextBlock + 1 /\ a3.to = to
  BY <1>3 DEF Finished, BB
<1>6. a \in Block /\ a2 \in Block
  BY <1>4, AddedBlocks DEF Adds3
<1>7. Chunk(y, Leaf \cup {Later(0), Later(2), Later(3)}, Past) /\ Chunk(y2, {Later(1)}, {Opd})
  BY <1>3, UnwrapChunk, PayloadChunk DEF VInv
<1>r. PICK r \in Nat : r = Later(1)
  BY <1>2
<1>8p. PICK n \in Nat : n = Later(0) /\ r = Later(1)
  BY <1>2, <1>r
<1>8. PICK V : n = Later(0) /\ r = Later(1) /\ V = {val} \cup Leaf
  BY <1>8p
<1>9. Covered(emitted \o y, V, n)
  <2>1. PICK Y : Y = Leaf \cup {Later(0), Later(2), Later(3)}
    OBVIOUS
  <2>2. Chunk(y, Y, Past) /\ Between(Leaf, nextId, n) /\ nextId <= n /\ Leaf \subseteq Y
    BY <1>2, <1>7, <1>8, <2>1 DEF Between
  <2> QED
    BY <1>8, <2>2, BehindGood, PastVal
<1>10. emitted \o y \in Seq(Instr)
  <2>1. emitted \in Seq(Instr) /\ y \in Seq(Instr)
    BY <1>7 DEF Chunk, VInv, ValueTypeOK
  <2> QED
    BY <2>1, Joined
<1>11. Reads(y2) \subseteq V /\ Reads(err) \subseteq V /\ r \in Dests(y2) /\ y2 \in Seq(Instr)
       /\ (Range(to) # {} => r \in Dests(err))
  <2>1. Opd \in V
    BY <1>8, OpdThere DEF VInv
  <2> QED
    BY <1>7, <1>8, <2>1 DEF Chunk
<1>12. n <= r /\ nextId <= r /\ r < Later(4) /\ n <= Later(4)
  BY <1>2, <1>8
<1>13. Joins(y, a, y2, a2, err, a3, s, V, n, r)
  BY <1>4, <1>5, <1>6, <1>10, <1>11, <1>12 DEF Joins
<1>14. val' = r /\ n <= nextId' /\ r < nextId'
  BY <1>1, <1>8, <1>12
<1> QED
  BY <1>1, <1>9, <1>13, <1>14, OrPartsGood

LEMMA OrGood ==
  ASSUME TypeInv, TypeInv', VInv, VInv', WInv, Unique, Good, ValueOrReturn \/ ValueOrPanic \/ ValueOrZero
  PROVE  Good'
<1>1. Chunk(<<Use(<<Opd>>)>>, {}, {Opd}) /\ Chunk(ErrZero(Later(1)), {Later(1)}, {Opd})
      /\ Chunk(<<>>, {}, {Opd})
  BY ErrChunk, ChunkNone, ChunkSame DEF VInv
<1>n. Range(<<>>) = {}
  BY Range0
<1>2. ASSUME ValueOrReturn PROVE Good'
  <2>1. PICK z : z = <<>>
    OBVIOUS
  <2>2. OrOp("or_return", "return", z) /\ ValueOrOp(<<Use(<<Opd>>)>>)
    BY <1>2, <2>1 DEF ValueOrReturn, OrReturn
  <2>3. Range(z) = {}
    BY <1>n, <2>1
  <2> QED
    BY <1>1, <2>2, <2>3, OrOpGood
<1>3. ASSUME ValueOrPanic PROVE Good'
  <2>1. PICK z : z = <<>>
    OBVIOUS
  <2>2. OrOp("or_panic", "unreachable", z) /\ ValueOrOp(z)
    BY <1>3, <2>1 DEF ValueOrPanic, OrPanic
  <2>3. Range(z) = {} /\ Chunk(z, {}, {Opd})
    BY <1>1, <1>n, <2>1
  <2> QED
    BY <2>2, <2>3, OrOpGood
<1>4. ASSUME ValueOrZero PROVE Good'
  <2>1. PICK z, E : z = <<nextBlock + 2>> /\ E = {Later(1)}
    OBVIOUS
  <2>2. OrOp("or_zero", "jump", z) /\ ValueOrOp(ErrZero(Later(1)))
    BY <1>4, <2>1 DEF ValueOrZero, OrZero
  <2>3. Range(z) = {nextBlock + 2} /\ Chunk(ErrZero(Later(1)), E, {Opd}) /\ Later(1) \in E
    BY <1>1, <2>1, Range1
  <2> QED
    BY <2>2, <2>3, OrOpGood
<1> QED
  BY <1>2, <1>3, <1>4

-----------------------------------------------------------------------------
(* Steps that go on in a block the construct on top has been waiting for.   *)

LEMMA StaysNone ==
  ASSUME Spares, emitted' = <<>>, NEW n, n <= nextId'
  PROVE  Stays(n)
<1>1. Reads(emitted') = {}
  BY ReadsNone
<1> QED
  BY <1>1 DEF Stays, Spares

LEMMA Turn1Good ==
  ASSUME TypeInv, TypeInv', VInv, VInv', Unique, Unique', Good,
         NEW y, NEW V, NEW n \in Nat, Covered(emitted \o y, V, n),
         NEW a, Adds(y, a, <<>>), a.label = currentLabel, Aimed(a), Fine(a, emitted \o y),
         \A l \in Range(a.to) : l < nextBlock', Turns, Settled, Shifts, Spares, n <= nextId', val' = NoName
  PROVE  Good'
<1>1. Stays(n)
  BY StaysNone DEF Adds
<1>2. \A t \in Nat : t # val' => \E T : Covers(t, T, emitted, {val}, nextId)'
  BY <1>1, GoodParts, Turn1
<1>3. \A t \in Nat : t # val'
  BY DEF NoName
<1>4. Covered(emitted, {val}, nextId)'
  BY <1>2, <1>3 DEF Covered
<1>5. nextBlock <= nextBlock'
  BY Lists DEF Turns
<1>6. PICK s : s = <<>>
  OBVIOUS
<1> QED
  BY <1>4, <1>5, <1>6, Goes DEF Shifts

(* The frame on top is replaced by one that waits for less. *)
LEMMA Replaced ==
  ASSUME TypeInv, stack # <<>>, NEW f, NEW ks, TopBecomes(f), Uses(f.kind, ks) \subseteq Uses(Top.kind, ks),
         f.kind \in Results => Top.kind \in Results /\ Merge(f) = Merge(Top),
         f.kind \in Repeats => Top.kind \in Repeats /\ f.head = Top.head,
         Range(f.todo) \subseteq Range(Top.todo)
  PROVE  Narrowed(stack, f, ks, stack')
<1>1. stack \in Seq(Frame) /\ Len(stack) \in 1..Len(stack) /\ Len(stack) \in Nat
  BY Lists
<1>2. Len(stack') = Len(stack) /\ \A i \in 1..Len(stack) : i # Len(stack) => stack'[i] = stack[i]
  BY <1>1 DEF TopBecomes
<1>3. stack'[Len(stack)] = f /\ stack[Len(stack)] = Top
  BY <1>1 DEF Top, TopBecomes
<1> QED
  BY <1>1, <1>2, <1>3 DEF Narrowed

(* The value of a branch is stored. *)
LEMMA StoreThere ==
  ASSUME TypeInv, VInv, WInv, Unique, Good, TopIs(Results)
  PROVE  /\ Covered(emitted \o StoreResult(Kept[1]), {val} \cup Leaf, Later(0)) /\ Later(0) \in Nat
         /\ Kept[1] \in Dests(emitted \o StoreResult(Kept[1]))
         /\ Kept[1] \in Nat /\ Kept[1] < nextId /\ Kept[1] < Later(0)
<1>1. Len(stack) \in 1..Len(stack) /\ stack[Len(stack)] = Top /\ Top.kind \in Results /\ Len(keep) = Len(stack)
  BY TopHere DEF VInv, Fits
<1>2. Kept[1] \in Nat /\ Kept[1] < nextId
  <2>1. Needs(Top.kind) >= 1 /\ stack # <<>>
    BY <1>1 DEF Needs, Results, TopIs
  <2>2. Kept[1] \in Nat
    BY <2>1, FitsTop
  <2> QED
    BY <1>1, <2>2, OwnersOld DEF Owners, Results, Kept
<1>3. /\ Later(0) \in Nat /\ Later(0) >= nextId /\ nextId \in Nat
      /\ \A t \in Leaf : t = nextId /\ t < Later(0)
  BY Fresh DEF VInv
<1>4. PICK d \in Nat, m \in Nat : d = Kept[1] /\ m = Later(0) /\ d < nextId /\ nextId <= m
  BY <1>2, <1>3
<1>5. PICK y : y = StoreResult(d)
  OBVIOUS
<1>6. d \notin Leaf
  BY <1>3, <1>4
<1>7. Chunk(y, Leaf \cup {d}, Past)
  BY <1>5, <1>6, ResultChunk DEF VInv
<1>8. Between(Leaf, nextId, m)
  BY <1>3, <1>4 DEF Between
<1>9. PICK D, R : D = Leaf \cup {d} /\ R = Past
  OBVIOUS
<1>10. Covered(emitted \o y, {val} \cup Leaf, m)
  BY <1>4, <1>7, <1>8, <1>9, PastVal, BehindGood
<1>11. d \in Dests(emitted \o y)
  <2>1. emitted \in Seq(Instr) /\ y \in Seq(Instr) /\ d \in Dests(y)
    BY <1>7 DEF VInv, ValueTypeOK, Chunk
  <2> QED
    BY <2>1, ReadsCat
<1>12. d < m
  BY <1>3, <1>4
<1> QED
  BY <1>2, <1>3, <1>4, <1>5, <1>10, <1>11, <1>12

LEMMA CondGood ==
  ASSUME TypeInv, TypeInv', VInv, VInv', WInv, Unique, Unique', Good, ValueCloseWhileCond
  PROVE  Good'
<1>1. /\ Adds(OpdCode \o <<Use(<<Opd>>)>>, Finished("branch", Top.todo), <<>>)
      /\ currentLabel' = Top.todo[1] /\ nextBlock' = nextBlock
      /\ stack' = [stack EXCEPT ![Len(stack)] =
                     [Top EXCEPT !.kind = "while", !.todo = Tail(@), !.exit = live]]
      /\ keep' = keep /\ held' = held /\ nextId' = Later(0) /\ val' = NoName
      /\ TopIs({"cond"}) /\ Complete
  BY CondAdds
<1>2. PICK a, y : a = Finished("branch", Top.todo) /\ y = OpdCode \o <<Use(<<Opd>>)>>
  OBVIOUS
<1>3. Adds(y, a, <<>>) /\ a.label = currentLabel /\ a.to = Top.todo
  BY <1>1, <1>2 DEF Finished, BB
<1>4. Top \in Frame /\ FrameOK(Top) /\ Top.kind = "cond" /\ stack # <<>>
      /\ Len(stack) \in 1..Len(stack) /\ stack[Len(stack)] = Top
  BY <1>1, TopHere
<1>5. Top.todo \in Seq(Label) /\ Len(Top.todo) = 2
  BY <1>4 DEF Frame, FrameOK
<1>6. Range(Top.todo) = {Top.todo[1]} \cup Range(Tail(Top.todo))
  <2>1. PICK s \in Seq(Label) : s = Top.todo /\ Len(s) = 2
    BY <1>5
  <2>0. Len(s) # 0
    BY <2>1
  <2>2. s # <<>>
    BY <2>0, NonEmpty
  <2> QED
    BY <2>1, <2>2, RangeTail
<1>8. PICK f : f = [Top EXCEPT !.kind = "while", !.todo = Tail(@), !.exit = live]
  OBVIOUS
<1>9. f.kind = "while" /\ f.todo = Tail(Top.todo) /\ f.head = Top.head
  BY <1>4, <1>8 DEF Frame
<1>10. TopBecomes(f)
  BY <1>1, <1>8 DEF TopBecomes
<1>11. Narrowed(stack, f, Kept, stack')
  <2>1. Uses(f.kind, Kept) \subseteq Uses(Top.kind, Kept)
    BY <1>9 DEF Uses, FlushKinds
  <2>2. Top.kind \in Repeats /\ f.kind \notin Results
    BY <1>4, <1>9 DEF Repeats, Results
  <2> QED
    BY <1>4, <1>6, <1>9, <1>10, <2>1, <2>2, Replaced
<1>12. Turns /\ Settled /\ Shifts /\ Spares
  <2>1. currentLabel' \in Range(Top.todo)
    BY <1>1, <1>6
  <2> QED
    BY <1>1, <1>11, <2>1, GoodParts, GoTurn
<1>13. Aimed(a) /\ Fine(a, emitted \o y) /\ \A l \in Range(a.to) : l < nextBlock'
  <2>1. stack[Len(stack)].kind \in Repeats /\ Range(a.to) \subseteq Aims(stack[Len(stack)])
    BY <1>3, <1>4 DEF Repeats, Aims
  <2> QED
    BY <1>1, <1>4, <2>1, GoodParts, LoopJump
<1>14. /\ Later(0) \in Nat /\ Later(0) >= nextId /\ nextId \in Nat
       /\ \A t \in Leaf : t = nextId /\ t < Later(0)
  BY Fresh DEF VInv
<1>15. PICK n \in Nat : n = Later(0) /\ nextId <= n
  BY <1>14
<1>16. Covered(emitted \o y, {val} \cup Leaf, n)
  <2>1. Chunk(y, Leaf, Past)
    BY <1>2, UseOpd DEF VInv
  <2>2. Between(Leaf, nextId, n)
    BY <1>14, <1>15 DEF Between
  <2> QED
    BY <1>15, <2>1, <2>2, PastVal, BehindGood
<1>17. n <= nextId'
  BY <1>1, <1>15
<1> QED
  BY <1>1, <1>3, <1>12, <1>13, <1>16, <1>17, Turn1Good

(* The jump to where the construct on top continues, its result stored.     *)
LEMMA MergeJump ==
  ASSUME TypeInv, VInv, Unique, Placed, TopIs(Results), NEW a, a.to = <<Merge(Top)>>,
         NEW x, Kept[1] \in Dests(x)
  PROVE  Aimed(a) /\ Fine(a, x) /\ \A l \in Range(a.to) : l < nextBlock
<1>1. Len(stack) \in 1..Len(stack) /\ stack[Len(stack)] = Top /\ Top.kind \in Results /\ Len(keep) = Len(stack)
  BY TopHere DEF VInv, Fits
<1>2. PICK l : l = Merge(Top)
  OBVIOUS
<1>3. Range(a.to) = {l}
  BY <1>2, Range1
<1>4. l \in Range(stack[Len(stack)].todo)
  BY <1>1, <1>2, MergeIn
<1>5. l \in Aims(stack[Len(stack)]) /\ l < nextBlock
  BY <1>1, <1>4, AimsOld DEF Aims
<1>6. ASSUME NEW j \in 1..Len(stack), stack[j].kind \in Results, Merge(stack[j]) = l
      PROVE  keep[j][1] \in Dests(x)
  <2>1. l \in Range(stack[j].todo)
    BY <1>6, MergeIn
  <2>2. j = Len(stack)
    <3>1. PICK i \in 1..Len(stack) : i = Len(stack)
      BY <1>1
    <3>2. PICK c \in DOMAIN stack[i].todo : stack[i].todo[c] = l
      BY <1>4, <3>1 DEF Range
    <3>3. PICK b \in DOMAIN stack[j].todo : stack[j].todo[b] = l
      BY <2>1 DEF Range
    <3>4. DistinctTodo(stack) /\ i \in DOMAIN stack /\ j \in DOMAIN stack
      BY UniqueParts, StackBounds DEF Unique
    <3> QED
      BY <3>1, <3>2, <3>3, <3>4 DEF DistinctTodo
  <2> QED
    BY <1>1, <2>2 DEF Kept
<1> QED
  BY <1>1, <1>3, <1>5, <1>6 DEF Aimed, Fine

LEMMA CloseThenGood ==
  ASSUME TypeInv, TypeInv', VInv, VInv', WInv, Unique, Unique', Good, ValueCloseThen
  PROVE  Good'
<1>1. /\ Adds(StoreResult(Kept[1]), Finished("jump", <<Merge(Top)>>), <<>>)
      /\ currentLabel' = Top.todo[1] /\ nextBlock' = nextBlock
      /\ stack' = [stack EXCEPT ![Len(stack)] =
                     [Top EXCEPT !.kind = "else", !.todo = Tail(@), !.exit = live]]
      /\ keep' = keep /\ held' = held /\ nextId' = Later(0) /\ val' = NoName
  BY CloseThenAdds
<1>2. TopIs({"then"}) /\ TopIs(Results) /\ Complete
  BY DEF ValueCloseThen, CloseThen, TopIs, Results
<1>3. PICK a, y : a = Finished("jump", <<Merge(Top)>>) /\ y = StoreResult(Kept[1])
  OBVIOUS
<1>4. Adds(y, a, <<>>) /\ a.label = currentLabel /\ a.to = <<Merge(Top)>>
  BY <1>1, <1>3 DEF Finished, BB
<1>5. Top \in Frame /\ FrameOK(Top) /\ Top.kind = "then" /\ stack # <<>>
  BY <1>2, TopHere
<1>6. Top.todo \in Seq(Label) /\ Len(Top.todo) = 2
  BY <1>5 DEF Frame, FrameOK
<1>7. PICK s \in Seq(Label) : s = Top.todo /\ Len(s) = 2
  BY <1>6
<1>z. Len(s) # 0
  BY <1>7
<1>8. Range(s) = {s[1]} \cup Range(Tail(s)) /\ Tail(s)[Len(Tail(s))] = s[Len(s)]
  <2>1. s # <<>>
    BY <1>z, NonEmpty
  <2>2. Len(s) >= 2
    BY <1>7
  <2> QED
    BY <2>1, <2>2, RangeTail, MergeTail
<1>9. PICK f : f = [Top EXCEPT !.kind = "else", !.todo = Tail(@), !.exit = live]
  OBVIOUS
<1>10. f.kind = "else" /\ f.todo = Tail(s)
  BY <1>5, <1>7, <1>9 DEF Frame
<1>11. TopBecomes(f)
  BY <1>1, <1>9 DEF TopBecomes
<1>12. Narrowed(stack, f, Kept, stack')
  <2>1. Uses(f.kind, Kept) \subseteq Uses(Top.kind, Kept)
    BY <1>10 DEF Uses, FlushKinds
  <2>2. Top.kind \in Results /\ Merge(f) = Merge(Top)
    BY <1>5, <1>7, <1>8, <1>10 DEF Results, Merge
  <2>3. f.kind \notin Repeats
    BY <1>10 DEF Repeats, LoopKinds
  <2>4. Range(f.todo) \subseteq Range(Top.todo)
    BY <1>7, <1>8, <1>10
  <2> QED
    BY <1>5, <1>11, <2>1, <2>2, <2>3, <2>4, Replaced
<1>13. Turns /\ Settled /\ Shifts /\ Spares
  <2>1. currentLabel' \in Range(Top.todo)
    BY <1>1, <1>7, <1>8
  <2> QED
    BY <1>1, <1>2, <1>12, <2>1, GoodParts, GoTurn
<1>14. /\ Covered(emitted \o y, {val} \cup Leaf, Later(0)) /\ Later(0) \in Nat
       /\ Kept[1] \in Dests(emitted \o y)
  BY <1>2, <1>3, StoreThere
<1>15. Aimed(a) /\ Fine(a, emitted \o y) /\ \A l \in Range(a.to) : l < nextBlock'
  BY <1>1, <1>2, <1>4, <1>14, GoodParts, MergeJump
<1>16. PICK n \in Nat : n = Later(0)
  BY <1>14
<1>17. Covered(emitted \o y, {val} \cup Leaf, n) /\ n <= nextId'
  BY <1>1, <1>14, <1>16
<1> QED
  BY <1>1, <1>4, <1>13, <1>15, <1>17, Turn1Good

(* What the end of a loop's body computes. *)
LEMMA StepThere ==
  ASSUME TypeInv, VInv, WInv, Unique, Good, TopIs(LoopKinds),
         nextId' = nextId + (IF Top.kind = "for" THEN 2 ELSE 0)
  PROVE  \E V : Covered(emitted \o Step, V, nextId')
<1>1. nextId \in Nat /\ stack # <<>> /\ Len(stack) \in 1..Len(stack) /\ stack[Len(stack)] = Top
      /\ Len(keep) = Len(stack)
  BY TopHere DEF VInv, ValueTypeOK, TopIs, Fits
<1>2. CASE Top.kind # "for"
  <2>1. PICK y, R : y = Step /\ R = {}
    OBVIOUS
  <2>2. Chunk(y, {}, R) /\ R \subseteq {val}
    BY <1>2, <2>1, ChunkNone DEF Step
  <2>3. Covered(emitted \o y, {val}, nextId)
    BY <2>2, OnlyReads
  <2>4. nextId' = nextId
    BY <1>1, <1>2
  <2> QED
    BY <2>1, <2>3, <2>4
<1>3. CASE Top.kind = "for"
  <2>1. Kept[1] \in Nat /\ Kept[2] \in Nat
    <3>1. Needs(Top.kind) >= 1 /\ Needs(Top.kind) >= 2
      BY <1>3 DEF Needs
    <3> QED
      BY <1>1, <3>1, FitsTop
  <2>2. Kept[1] < nextId
    BY <1>1, <1>3, <2>1, OwnersOld DEF Owners, Kept
  <2>3. PICK i \in Nat, c \in Nat, n \in Nat : i = Kept[1] /\ c = Kept[2] /\ n = nextId
    BY <1>1, <2>1
  <2>4. PICK y, D, W, G : y = Step /\ D = {n, n + 1, i} /\ W = {c} /\ G = {}
    OBVIOUS
  <2>5. y = <<Write(n, <<>>), Write(n + 1, <<c, n>>), Write(i, <<n + 1>>)>>
    BY <1>3, <2>3, <2>4 DEF Step
  <2>6. Chunk(y, D, W)
    <3>1. i < n
      BY <2>2, <2>3
    <3> QED
      BY <2>4, <2>5, <3>1, StepChunk
  <2>7. \A t \in W : \E p \in Nat : Needed(t, p, stack, held, keep)
    <3>1. Uses(Top.kind, Kept) = W
      BY <1>3, <2>3, <2>4 DEF Uses
    <3> QED
      BY <1>1, <3>1, TopNeeds
  <2>8. PICK m \in Nat : m = n + 2 /\ n <= m
    OBVIOUS
  <2>9. Between(G, nextId, m) /\ nextId <= m /\ G \subseteq D /\ W \subseteq {val} \cup W
    BY <2>3, <2>4, <2>8 DEF Between
  <2>10. Covered(emitted \o y, {val} \cup W \cup G, m)
    BY <2>6, <2>7, <2>9, BehindNeeded
  <2>11. nextId' = m
    BY <1>3, <2>3, <2>8
  <2> QED
    BY <2>4, <2>10, <2>11
<1> QED
  BY <1>2, <1>3

(* A loop goes on behind its body: the construct it was in waits again.     *)
LEMMA CloseLoopGood ==
  ASSUME TypeInv, TypeInv', VInv, VInv', WInv, Unique, Unique', Loops, Good, ValueCloseLoop
  PROVE  Good'
<1>1. /\ Adds(Step, BB(currentLabel, instrs \o CounterStep(Top), "jump", <<Top.head>>, live), <<>>)
      /\ currentLabel' = Merge(Top) /\ nextBlock' = nextBlock
      /\ stack' = SubSeq(stack, 1, Len(stack) - 1) /\ keep' = SubSeq(keep, 1, Len(keep) - 1)
      /\ held' = held /\ nextId' = nextId + (IF Top.kind = "for" THEN 2 ELSE 0)
      /\ val' = val /\ val = NoName /\ TopIs(LoopKinds) /\ Complete
  BY CloseLoopAdds
<1>2. PICK a, y : /\ a = BB(currentLabel, instrs \o CounterStep(Top), "jump", <<Top.head>>, live)
                  /\ y = Step
  OBVIOUS
<1>3. Adds(y, a, <<>>) /\ a.label = currentLabel /\ a.to = <<Top.head>>
  BY <1>1, <1>2 DEF BB
<1>4. Top \in Frame /\ FrameOK(Top) /\ Top.kind \in LoopKinds /\ stack # <<>>
      /\ Len(stack) \in 1..Len(stack) /\ stack[Len(stack)] = Top
  BY <1>1, TopHere
<1>5. Range(Top.todo) = {Merge(Top)}
  <2>1. Top.todo \in Seq(Label) /\ Len(Top.todo) = 1
    BY <1>4 DEF Frame, FrameOK, LoopKinds
  <2> QED
    BY <2>1, LastLabel DEF Merge
<1>6. Under(stack, keep, stack', keep')
  BY <1>1, <1>4, Popped
<1>7. nextBlock <= nextBlock'
  BY <1>1, Lists
<1>8. /\ Settled /\ Shifts /\ Spares
      /\ \A i \in 1..Len(stack') : i <= Len(stack) /\ stack'[i] = stack[i]
  BY <1>1, <1>6, <1>7, GoodParts, GoClose
<1>9. Turns
  BY <1>1, <1>4, <1>5, <1>8 DEF Turns
<1>10. Aimed(a) /\ Fine(a, emitted \o y) /\ \A l \in Range(a.to) : l < nextBlock'
  <2>1. Range(a.to) = {Top.head}
    BY <1>3, Range1
  <2>2. stack[Len(stack)].kind \in Repeats /\ Range(a.to) \subseteq Aims(stack[Len(stack)])
    BY <1>4, <2>1 DEF Repeats, Aims
  <2> QED
    BY <1>1, <1>4, <2>2, GoodParts, LoopJump
<1>11. PICK n \in Nat : n = nextId' /\ n <= nextId'
  BY DEF VInv, ValueTypeOK
<1>12. PICK V : Covered(emitted \o y, V, n)
  BY <1>1, <1>2, <1>11, StepThere
<1> QED
  BY <1>1, <1>3, <1>8, <1>9, <1>10, <1>11, <1>12, Turn1Good

(* The next arm of a match: the dispatch block that was waiting is finished *)
(* at once.                                                                 *)
LEMMA FlowArm ==
  ASSUME TypeInv, VInv, stack # <<>>,
         NEW t, NEW T, NEW x \in Seq(Instr), NEW V, NEW n, Covers(t, T, x, V, n),
         NEW a \in Block, a.label = currentLabel, Aimed(a),
         NEW a2, a2.label \in Range(Top.todo), Range(a2.to) \subseteq Range(Top.todo), NEW y2,
         t \in Reads(y2) => Needed(t, Len(stack) - 1, stack, held, keep)
  PROVE  Flow(t, T, Append(Append(blocks, a), a2), Append(Append(code, x), y2))
<1>1. Flow(t, T, Append(blocks, a), Append(code, x))
  BY FlowEnd
<1>2. PICK b \in Seq(Block), c \in Seq(Seq(Instr)) : b = Append(blocks, a) /\ c = Append(code, x)
  BY SeqsMore
<1>3. Len(b) = Len(c)
  BY <1>2, SeqsMore
<1>4. Flow(t, T, b, c)
  BY <1>1, <1>2
<1>5. Len(stack) \in 1..Len(stack) /\ stack[Len(stack)] = Top /\ Len(stack) - 1 \in Nat
      /\ Len(stack) <= Len(stack) /\ Len(stack) > Len(stack) - 1
  BY Lists DEF Top
<1>6. t \in Reads(y2) => a2.label \in T
  <2> SUFFICES ASSUME t \in Reads(y2) PROVE a2.label \in T
    OBVIOUS
  <2>1. Lasts(T, stack, Len(stack) - 1)
    BY <1>5 DEF Covers
  <2> QED
    BY <1>5, <2>1 DEF Lasts
<1>7. ASSUME NEW l \in Range(a2.to) \cap T PROVE a2.label \in T \/ t \in Dests(y2)
  <2>1. Aims(stack[Len(stack)]) \cap T # {}
    BY <1>5, <1>7 DEF Aims
  <2>2. Range(stack[Len(stack)].todo) \subseteq T
    BY <1>5, <2>1 DEF Covers, Nested
  <2> QED
    BY <1>5, <2>2
<1>8. Flow(t, T, Append(b, a2), Append(c, y2))
  BY <1>3, <1>4, <1>6, <1>7, FlowMore
<1> QED
  BY <1>2, <1>8

(* The names of a match: tag_val and subj wait for its next arms.           *)
LEMMA ArmNeeds ==
  ASSUME TypeInv, VInv, stack # <<>>, Top.kind = "arm"
  PROVE  /\ Kept[2] \in Nat /\ Kept[3] \in Nat
         /\ \A t \in {Kept[2], Kept[3]} : Needed(t, Len(stack) - 1, stack, held, keep)
<1>1. Kept[2] \in Nat /\ Kept[3] \in Nat
  <2>1. Needs(Top.kind) = 3
    BY DEF Needs
  <2>2. 3 >= 2 /\ 3 >= 3
    OBVIOUS
  <2> QED
    BY <2>1, <2>2, FitsTop
<1>2. Uses(Top.kind, Kept) = {Kept[2], Kept[3]}
  BY DEF Uses
<1> QED
  BY <1>1, <1>2, TopNeeds

(* What is left of a match, and where the dispatch block jumps.             *)
Resumes(pat, f, a2) ==
  /\ TopBecomes(f) /\ f.kind = "arm" /\ f.todo = Tail(Tail(Top.todo))
  /\ a2.label = Top.todo[1] /\ a2.to = DispatchTo(pat = "wild", Top.todo[2], Top.todo[3])

LEMMA ArmTodo ==
  ASSUME TypeInv, Unique, TopIs({"arm"}), Len(Top.todo) >= 3, PartialMatches = FALSE,
         NEW pat, LastArmOK(pat, Len(Top.todo) = 3), NEW f, NEW a2, Resumes(pat, f, a2)
  PROVE  /\ Range(f.todo) \subseteq Range(Top.todo) /\ Merge(f) = Merge(Top)
         /\ a2.label \in Range(Top.todo) /\ Range(a2.to) \subseteq Range(Top.todo)
         /\ Merge(Top) \notin Range(a2.to) /\ Top.todo[2] \in Range(Top.todo)
<1>1. Top \in Frame /\ FrameOK(Top) /\ stack # <<>> /\ Len(stack) \in DOMAIN stack /\ stack[Len(stack)] = Top
  BY TopHere
<1>2. PICK s \in Seq(Label) : s = Top.todo
  BY <1>1 DEF Frame
<1>3. Len(s) >= 3 /\ Len(s) \in Nat
  BY <1>2
<1>4. 1 \in 1..Len(s) /\ 2 \in 1..Len(s) /\ 3 \in 1..Len(s) /\ Len(s) \in 1..Len(s) /\ DOMAIN s = 1..Len(s)
  BY <1>3
<1>5. s[1] \in Range(s) /\ s[2] \in Range(s) /\ s[3] \in Range(s)
  BY <1>4 DEF Range
<1>6. Range(s) = {s[1], s[2]} \cup Range(Tail(Tail(s)))
  BY <1>3, RangeTailTail
<1>7. Merge(f) = Merge(Top)
  <2>4. Len(s) >= 2
    BY <1>3
  <2>5. Tail(s)[Len(Tail(s))] = s[Len(s)] /\ Tail(s) \in Seq(Label) /\ Len(Tail(s)) = Len(s) - 1
    BY <2>4, MergeTail
  <2>6. PICK u : u = Tail(s)
    OBVIOUS
  <2>1. u \in Seq(Label) /\ u = Tail(s) /\ Len(u) = Len(s) - 1 /\ u[Len(u)] = s[Len(s)]
    BY <2>5, <2>6
  <2>2. Len(u) >= 2
    BY <1>3, <2>1
  <2>3. Tail(u)[Len(Tail(u))] = u[Len(u)]
    BY <2>2, MergeTail
  <2> QED
    BY <1>2, <2>1, <2>3 DEF Merge, Resumes
<1>8. Range(a2.to) \subseteq {s[2], s[3]} /\ (pat = "wild" => Range(a2.to) = {s[2]})
  BY <1>2, DispatchRange, Range1 DEF Resumes, DispatchTo
<1>9. \A i, j \in DOMAIN s : s[i] = s[j] => i = j
  <2>1. DistinctTodo(stack)
    BY UniqueParts DEF Unique
  <2> QED
    BY <1>1, <1>2, <2>1 DEF DistinctTodo
<1>10. Merge(Top) = s[Len(s)]
  BY <1>2 DEF Merge
<1>11. Merge(Top) # s[2]
  BY <1>3, <1>4, <1>9, <1>10
<1>12. Merge(Top) \notin Range(a2.to)
  <2>1. CASE Len(s) = 3
    <3>1. pat = "wild"
      BY <1>2, <2>1 DEF LastArmOK
    <3> QED
      BY <1>8, <1>11, <3>1
  <2>2. CASE Len(s) # 3
    <3>1. Merge(Top) # s[3]
      BY <1>4, <1>9, <1>10, <2>2
    <3> QED
      BY <1>8, <1>11, <3>1
  <2> QED
    BY <2>1, <2>2
<1> QED
  BY <1>2, <1>5, <1>6, <1>7, <1>8, <1>12 DEF Resumes

(* Where another construct continues is not among the labels of the one on  *)
(* top.                                                                     *)
LEMMA OtherMerge ==
  ASSUME TypeInv, Unique, NEW i \in 1..Len(stack), NEW L, L \subseteq Range(stack[i].todo),
         Merge(stack[i]) \notin L
  PROVE  \A j \in 1..Len(stack) : stack[j].kind \in Results => Merge(stack[j]) \notin L
<1> SUFFICES ASSUME NEW j \in 1..Len(stack), stack[j].kind \in Results, Merge(stack[j]) \in L PROVE FALSE
  OBVIOUS
<1>1. PICK l : l = Merge(stack[j])
  OBVIOUS
<1>2. l \in Range(stack[i].todo) /\ l \in Range(stack[j].todo)
  BY <1>1, MergeIn
<1>3. PICK c \in DOMAIN stack[i].todo : stack[i].todo[c] = l
  BY <1>2 DEF Range
<1>4. PICK b \in DOMAIN stack[j].todo : stack[j].todo[b] = l
  BY <1>2 DEF Range
<1>5. DistinctTodo(stack) /\ i \in DOMAIN stack /\ j \in DOMAIN stack
  BY UniqueParts, StackBounds DEF Unique
<1>6. i = j
  BY <1>3, <1>4, <1>5 DEF DistinctTodo
<1> QED
  BY <1>6

LEMMA ArmGood ==
  ASSUME TypeInv, TypeInv', VInv, VInv', WInv, Unique, Unique', Good, PartialMatches = FALSE,
         NEW pat, ValueNextArm(pat)
  PROVE  Good'
<1>1. /\ Adds2(StoreResult(Kept[1]), Finished("jump", <<Merge(Top)>>),
               Test(pat, Later(0), Kept[3], Kept[2]),
               BB(Top.todo[1], <<>>, DispatchTerm(pat = "wild"),
                  DispatchTo(pat = "wild", Top.todo[2], Top.todo[3]), Top.fall),
               ArmStart(pat, Later(0), Kept[3]))
      /\ currentLabel' = Top.todo[2] /\ nextBlock' = nextBlock
      /\ stack' = [stack EXCEPT ![Len(stack)] =
                     [Top EXCEPT !.todo = Tail(Tail(@)), !.exit = @ \/ live,
                                 !.fall = @ /\ ~(pat = "wild")]]
      /\ keep' = keep /\ held' = held /\ nextId' = Later(ArmNames(pat)) /\ val' = NoName
      /\ Top.kind = "arm" /\ Len(Top.todo) >= 3 /\ Complete /\ LastArmOK(pat, Len(Top.todo) = 3)
  BY ArmAdds, Zenon
<1>2. TopIs({"arm"}) /\ TopIs(Results)
  BY DEF ValueNextArm, NextArm, TopIs, Results
<1>3. PICK a, y, a2, y2, s :
         /\ a = Finished("jump", <<Merge(Top)>>) /\ y = StoreResult(Kept[1])
         /\ a2 = BB(Top.todo[1], <<>>, DispatchTerm(pat = "wild"),
                    DispatchTo(pat = "wild", Top.todo[2], Top.todo[3]), Top.fall)
         /\ y2 = Test(pat, Later(0), Kept[3], Kept[2]) /\ s = ArmStart(pat, Later(0), Kept[3])
  OBVIOUS
<1>4. Adds2(y, a, y2, a2, s)
  BY <1>1, <1>3
<1>5. /\ a.label = currentLabel /\ a.to = <<Merge(Top)>> /\ a2.label = Top.todo[1]
      /\ a2.to = DispatchTo(pat = "wild", Top.todo[2], Top.todo[3])
  BY <1>3 DEF Finished, BB
<1>6. Top \in Frame /\ stack # <<>> /\ Top.kind = "arm"
  BY <1>1, <1>2, TopHere
<1>7. PICK f : f = [Top EXCEPT !.todo = Tail(Tail(@)), !.exit = @ \/ live,
                               !.fall = @ /\ ~(pat = "wild")]
  OBVIOUS
<1>8. f.kind = "arm" /\ f.todo = Tail(Tail(Top.todo))
  BY <1>6, <1>7 DEF Frame
<1>9. TopBecomes(f)
  BY <1>1, <1>7 DEF TopBecomes
<1>10. /\ Range(f.todo) \subseteq Range(Top.todo) /\ Merge(f) = Merge(Top)
       /\ a2.label \in Range(Top.todo) /\ Range(a2.to) \subseteq Range(Top.todo)
       /\ Merge(Top) \notin Range(a2.to) /\ Top.todo[2] \in Range(Top.todo)
  <2>1. Resumes(pat, f, a2)
    BY <1>5, <1>8, <1>9 DEF Resumes
  <2>2. Len(Top.todo) >= 3 /\ LastArmOK(pat, Len(Top.todo) = 3)
    BY <1>1
  <2> QED
    BY <1>2, <2>1, <2>2, ArmTodo
<1>11. Narrowed(stack, f, Kept, stack')
  <2>1. Uses(f.kind, Kept) \subseteq Uses(Top.kind, Kept) /\ Top.kind \in Results /\ f.kind \notin Repeats
    BY <1>6, <1>8 DEF Results, Repeats, LoopKinds
  <2> QED
    BY <1>6, <1>9, <1>10, <2>1, Replaced
<1>12. Turns /\ Settled /\ Shifts /\ Spares
  <2>1. currentLabel' \in Range(Top.todo) /\ keep' = keep /\ held' = held /\ nextBlock' = nextBlock /\ Complete
    BY <1>1, <1>10
  <2> QED
    BY <1>11, <2>1, GoodParts, GoTurn
<1>13. PICK n \in Nat, x \in Seq(Instr) : n = Later(0) /\ x = emitted \o y
  <2>1. emitted \in Seq(Instr) /\ Later(0) \in Nat
    BY Fresh DEF VInv, ValueTypeOK
  <2>2. Kept[1] \in Nat
    BY <1>2, StoreThere
  <2>3. y \in Seq(Instr)
    BY <1>3, <2>2, StoreType DEF VInv
  <2>4. emitted \o y \in Seq(Instr)
    BY <2>1, <2>3
  <2> QED
    BY <2>1, <2>4
<1>14. Covered(x, {val} \cup Leaf, n) /\ Kept[1] \in Dests(x)
  BY <1>2, <1>3, <1>13, StoreThere
<1>15. a \in Block /\ a2 \in Block
  BY <1>4, AddedBlocks DEF Adds2
<1>16. nextId' \in Nat /\ n <= nextId'
  <2>1. PICK k \in Nat : k = ArmNames(pat)
    BY DEF ArmNames
  <2>2. nextId' = Later(0) + k
    BY <1>1, <2>1, Operand DEF VInv
  <2> QED
    BY <1>13, <2>2
<1>17. /\ Reads(y2) \subseteq {Kept[2], Kept[3]} /\ Reads(s) \subseteq {Kept[2], Kept[3]}
       /\ \A t \in {Kept[2], Kept[3]} : Needed(t, Len(stack) - 1, stack, held, keep)
  <2>1. PICK o \in Nat, g \in Nat : o = Kept[3] /\ g = Kept[2]
    BY <1>6, ArmNeeds
  <2>2. /\ Chunk(Test(pat, n, o, g), Tested(pat, n), {o, g})
        /\ Chunk(ArmStart(pat, n, o), Loaded(pat, n), {o})
    BY TestChunk, Zenon
  <2>3. Reads(y2) \subseteq {o, g} /\ Reads(s) \subseteq {o, g}
    BY <1>3, <1>13, <2>1, <2>2 DEF Chunk
  <2> QED
    BY <1>6, <2>1, <2>3, ArmNeeds
<1>18. emitted' = s /\ blocks' = Append(Append(blocks, a), a2) /\ code' = Append(Append(code, x), y2)
  BY <1>4, <1>13 DEF Adds2
<1>19. Stays(n)
  <2>1. Len(stack) - 1 \in Nat /\ Len(stack) - 1 < Len(stack)
    <3>1. Len(stack) \in 1..Len(stack)
      BY <1>2, TopHere
    <3> QED
      BY <3>1
  <2>2. \A t \in Nat : t \in Reads(emitted')
           => \E p \in Nat : Needed(t, p, stack, held, keep) /\ p < Len(stack)
    BY <1>17, <1>18, <2>1
  <2> QED
    BY <1>12, <1>16, <2>2 DEF Stays, Spares
<1>20. Aimed(a) /\ Fine(a, x) /\ \A l \in Range(a.to) : l < nextBlock
  BY <1>2, <1>5, <1>14, GoodParts, MergeJump
<1>21. Fine(a2, y2) /\ \A l \in Range(a2.to) : l < nextBlock
  <2>1. Len(stack) \in 1..Len(stack) /\ stack[Len(stack)] = Top
    BY <1>2, TopHere
  <2>2. \A l \in Range(a2.to) : l < nextBlock
    BY <1>10, <2>1, AimsOld, GoodParts
  <2>3. \A j \in 1..Len(stack) : stack[j].kind \in Results => Merge(stack[j]) \notin Range(a2.to)
    BY <1>10, <2>1, OtherMerge
  <2> QED
    BY <2>2, <2>3 DEF Fine
<1>22. ASSUME NEW t \in Nat PROVE \E T : Covers(t, T, emitted, {val}, nextId)'
  <2>1. PICK T : Covers(t, T, x, {val} \cup Leaf, n)
    BY <1>14 DEF Covered
  <2>2. t \in Reads(y2) => Needed(t, Len(stack) - 1, stack, held, keep)
    BY <1>17
  <2>3. Flow(t, T, blocks', code')
    BY <1>5, <1>6, <1>10, <1>15, <1>18, <1>20, <2>1, <2>2, FlowArm
  <2>4. t # val'
    BY <1>1 DEF NoName
  <2> QED
    BY <1>12, <1>16, <1>19, <2>1, <2>3, <2>4, GoodParts, Turned
<1>23. Covered(emitted, {val}, nextId)'
  BY <1>22 DEF Covered
<1>24. /\ nextBlock <= nextBlock' /\ (\A l \in Range(a.to) : l < nextBlock')
       /\ (\A l \in Range(a2.to) : l < nextBlock')
  BY <1>1, <1>20, <1>21, Lists
<1>25. emitted \o y \in Seq(Instr) /\ Fine(a, emitted \o y)
  BY <1>13, <1>20
<1>26. Delivers(blocks', code', stack, keep) => Delivers(blocks', code', stack', keep')
  BY <1>12 DEF Shifts
<1> QED
  BY <1>4, <1>12, <1>15, <1>21, <1>23, <1>24, <1>25, <1>26, Goes2

-----------------------------------------------------------------------------
(* A construct is closed: its result has been stored by every block that    *)
(* jumps to where it continues.                                             *)

LEMMA StoredFlow ==
  ASSUME TypeInv, VInv, Unique, Good, TopIs(Results), NEW T, NEW x, NEW V, NEW n,
         Covers(Kept[1], T, x, V, n), Kept[1] \in Dests(x), NEW a, a.to = <<Merge(Top)>>
  PROVE  LET Z == {Merge(Top)} \cup From(nextBlock)
         IN  Flow(Kept[1], Z, Append(blocks, a), Append(code, x))
<1>1. Len(stack) \in 1..Len(stack) /\ stack[Len(stack)] = Top /\ Top.kind \in Results /\ Len(keep) = Len(stack)
  BY TopHere DEF VInv, Fits
<1>2. PICK t, l, Z : t = Kept[1] /\ l = Merge(Top) /\ Z = {l} \cup From(nextBlock)
  OBVIOUS
<1>3. T = {}
  <2>1. Awaits(t, stack, keep)
    BY <1>1, <1>2 DEF Awaits, Kept
  <2> QED
    BY <1>2, <2>1 DEF Covers
<1>4. currentLabel \notin T /\ t \notin Reads(x) /\ Flow(t, T, blocks, code) /\ t \in Dests(x)
  BY <1>2, <1>3 DEF Covers
<1>5. /\ blocks \in Seq(Block) /\ code \in Seq(Seq(Instr)) /\ Len(blocks) = Len(code) /\ nextBlock \in Nat
  BY Lists DEF VInv, ValueTypeOK
<1>6. Delivered(blocks, code, t, l)
  BY <1>1, <1>2, GoodParts DEF Delivers, Kept
<1>7. Flow(t, Z, blocks, code)
  <2> SUFFICES ASSUME NEW j \in 1..Len(code)
               PROVE  /\ t \notin Reads(code[j])
                      /\ \A k \in Range(blocks[j].to) \cap Z : t \in Dests(code[j])
    BY DEF Flow
  <2>1. t \notin Reads(code[j])
    BY <1>3, <1>4 DEF Flow
  <2>2. ASSUME NEW k \in Range(blocks[j].to), k \in Z PROVE t \in Dests(code[j])
    <3>1. j \in 1..Len(blocks)
      BY <1>5
    <3>2. k < nextBlock
      BY <2>2, <3>1, GoodParts DEF Below
    <3>3. k \notin From(nextBlock)
      BY <1>5, <3>2 DEF From
    <3>4. k = l
      BY <1>2, <2>2, <3>3
    <3> QED
      BY <1>6, <2>2, <3>4 DEF Delivered
  <2> QED
    BY <2>1, <2>2
<1>8. Flow(t, Z, Append(blocks, a), Append(code, x))
  BY <1>4, <1>5, <1>7, FlowMore
<1> QED
  BY <1>2, <1>8

(* The constructs it was in wait for other labels, and have other results.  *)
LEMMA OthersWait ==
  ASSUME TypeInv, VInv, WInv, Unique, Placed, TopIs(Results), NEW i \in 1..Len(stack), i < Len(stack)
  PROVE  /\ Merge(Top) \notin Aims(stack[i]) /\ Aims(stack[i]) \cap From(nextBlock) = {}
         /\ stack[i].kind \in Results => keep[i][1] # Kept[1]
<1>1. Len(stack) \in 1..Len(stack) /\ stack[Len(stack)] = Top /\ Top.kind \in Results /\ Len(keep) = Len(stack)
  BY TopHere DEF VInv, Fits
<1>p. PICK k \in 1..Len(stack) : k = Len(stack)
  BY <1>1
<1>2. PICK l : k = Len(stack) /\ l = Merge(Top)
  BY <1>p
<1>3. l \in Range(stack[k].todo) /\ k # i
  BY <1>1, <1>2, MergeIn
<1>4. l \notin Range(stack[i].todo)
  <2> SUFFICES ASSUME l \in Range(stack[i].todo) PROVE FALSE
    OBVIOUS
  <2>1. PICK c \in DOMAIN stack[k].todo : stack[k].todo[c] = l
    BY <1>3 DEF Range
  <2>2. PICK b \in DOMAIN stack[i].todo : stack[i].todo[b] = l
    BY DEF Range
  <2>3. DistinctTodo(stack) /\ i \in DOMAIN stack /\ k \in DOMAIN stack
    BY UniqueParts, StackBounds DEF Unique
  <2> QED
    BY <1>3, <2>1, <2>2, <2>3 DEF DistinctTodo
<1>5. stack[i].kind \in Repeats => stack[i].head # l
  BY <1>3 DEF Placed, Back
<1>6. Aims(stack[i]) \cap From(nextBlock) = {}
  BY AimsOld
<1>7. stack[i].kind \in Results => keep[i][1] # Kept[1]
  <2>1. Apart(blocks, code, stack, keep, nextId)
    BY DEF WInv
  <2>2. Top.kind \in Owners /\ (stack[i].kind \in Results => stack[i].kind \in Owners)
    BY <1>1 DEF Owners
  <2> QED
    BY <1>1, <1>2, <1>3, <2>1, <2>2 DEF Apart, Kept
<1> QED
  BY <1>2, <1>4, <1>5, <1>6, <1>7 DEF Aims

(* No construct continues where the function is entered.                    *)
LEMMA MergeNumber ==
  ASSUME TypeInv, Unique, TopIs(Results)
  PROVE  Merge(Top) \in Nat
<1>1. /\ Len(stack) \in DOMAIN stack /\ stack[Len(stack)] = Top /\ Top.kind \in Results
      /\ ~done /\ Top \in Frame
  BY TopHere
<1>2. PICK l : l = Merge(Top)
  OBVIOUS
<1>3. l \in Range(Top.todo)
  <2>1. Len(stack) \in 1..Len(stack)
    BY <1>1, StackBounds
  <2> QED
    BY <1>1, <1>2, <2>1, MergeIn
<1>4. l \in Label /\ l \in Pending
  <2>1. Top.todo \in Seq(Label)
    BY <1>1 DEF Frame
  <2>2. l \in Label
    BY <1>3, <2>1 DEF Range
  <2> QED
    BY <1>1, <1>3, <2>2 DEF Pending
<1>5. l # Entry
  BY <1>4 DEF Unique
<1> QED
  BY <1>2, <1>4, <1>5 DEF Label

LEMMA CloseExprGood ==
  ASSUME TypeInv, TypeInv', VInv, VInv', WInv, Unique, Unique', Good, ValueCloseExpr
  PROVE  Good'
<1>1. /\ Adds(StoreResult(Kept[1]), Finished("jump", <<Merge(Top)>>), <<>>)
      /\ currentLabel' = Merge(Top) /\ nextBlock' = nextBlock
      /\ stack' = SubSeq(stack, 1, Len(stack) - 1) /\ keep' = SubSeq(keep, 1, Len(keep) - 1)
      /\ held' = held /\ nextId' = Later(0) /\ val' = Kept[1]
      /\ TopIs({"else", "default", "arm"}) /\ Complete /\ Len(Top.todo) = 1
  BY CloseExprAdds
<1>2. TopIs(Results)
  BY <1>1 DEF TopIs, Results
<1>3. PICK a, y, x : /\ a = Finished("jump", <<Merge(Top)>>) /\ y = StoreResult(Kept[1])
                     /\ x = emitted \o y
  OBVIOUS
<1>4. Adds(y, a, <<>>) /\ a.label = currentLabel /\ a.to = <<Merge(Top)>>
      /\ blocks' = Append(blocks, a) /\ code' = Append(code, x) /\ emitted' = <<>>
  BY <1>1, <1>3 DEF Finished, BB, Adds
<1>5. Top \in Frame /\ FrameOK(Top) /\ Top.kind \in Results /\ stack # <<>>
      /\ Len(stack) \in 1..Len(stack) /\ stack[Len(stack)] = Top /\ Len(keep) = Len(stack)
  BY <1>2, TopHere DEF VInv, Fits
<1>6. Under(stack, keep, stack', keep')
  BY <1>1, <1>5, Popped
<1>7. nextBlock <= nextBlock'
  BY <1>1, Lists
<1>8. /\ Settled /\ Shifts /\ Spares
      /\ \A i \in 1..Len(stack') : i <= Len(stack) /\ stack'[i] = stack[i]
  BY <1>1, <1>6, <1>7, GoodParts, GoClose
<1>9. Turns
  <2>1. Merge(Top) \in Range(Top.todo)
    BY <1>5, MergeIn
  <2> QED
    BY <1>1, <1>5, <1>8, <2>1 DEF Turns
<1>10. /\ Covered(x, {val} \cup Leaf, Later(0)) /\ Later(0) \in Nat
       /\ Kept[1] \in Dests(x) /\ Kept[1] \in Nat /\ Kept[1] < Later(0)
  BY <1>2, <1>3, StoreThere
<1>11. Aimed(a) /\ Fine(a, x) /\ \A l \in Range(a.to) : l < nextBlock'
  BY <1>1, <1>2, <1>4, <1>10, GoodParts, MergeJump
<1>12. PICK n \in Nat : n = Later(0)
  BY <1>10
<1>13. Stays(n)
  <2>1. n <= nextId'
    BY <1>1, <1>12
  <2> QED
    BY <1>4, <1>8, <2>1, StaysNone
<1>14. \A t \in Nat : t # val' => \E T : Covers(t, T, emitted, {val}, nextId)'
  <2>1. Covered(emitted \o y, {val} \cup Leaf, n)
    BY <1>3, <1>10, <1>12
  <2> QED
    BY <1>4, <1>9, <1>11, <1>13, <2>1, GoodParts, Turn1
<1>15. PICK t, Z : t = Kept[1] /\ Z = {Merge(Top)} \cup From(nextBlock)
  OBVIOUS
<1>16. Covers(t, Z, emitted, {val}, nextId)'
  <2>1. PICK T : Covers(t, T, x, {val} \cup Leaf, n)
    BY <1>10, <1>12, <1>15 DEF Covered
  <2>2. Flow(t, Z, blocks', code')
    BY <1>2, <1>4, <1>10, <1>15, <2>1, StoredFlow
  <2>3. Awaits(t, stack, keep)
    BY <1>5, <1>15 DEF Awaits, Kept
  <2>4. \A i \in 1..Len(stack') : /\ i \in 1..Len(stack) /\ i < Len(stack) /\ stack'[i] = stack[i]
                                  /\ keep'[i] = keep[i]
    BY <1>6, UnderAt
  <2>5. \A i \in 1..Len(stack') : Aims(stack'[i]) \cap Z = {}
    BY <1>2, <1>15, <2>4, GoodParts, OthersWait
  <2>6. ~Awaits(t, stack', keep')
    BY <1>2, <1>15, <2>4, GoodParts, OthersWait DEF Awaits
  <2>7. \A p \in Nat : Needed(t, p, stack', held', keep') => Needed(t, p, stack, held, keep)
    BY <1>8 DEF Spares
  <2>8. nextId' \in Nat /\ t < nextId' /\ t \in Nat /\ Z = {currentLabel'} \cup From(nextBlock')
    BY <1>1, <1>10, <1>15
  <2>9. currentLabel' \in Nat
    BY <1>1, <1>2, MergeNumber
  <2> QED
    BY <2>1, <2>2, <2>3, <2>5, <2>6, <2>7, <2>8, <2>9, Stored
<1>17. Covered(emitted, {val}, nextId)'
  BY <1>1, <1>14, <1>15, <1>16 DEF Covered
<1>18. PICK s : s = <<>>
  OBVIOUS
<1>19. Delivers(blocks', code', stack, keep) => Delivers(blocks', code', stack', keep')
  BY <1>8 DEF Shifts
<1> QED
  BY <1>3, <1>4, <1>7, <1>8, <1>11, <1>17, <1>18, <1>19, Goes

-----------------------------------------------------------------------------
(* The end of a function.  Nothing is asked of the labels any more but that *)
(* the finished blocks read a name where it has been written.               *)

Ended == \A t \in Nat : \E T : T \subseteq Nat /\ Flow(t, T, blocks, code)

Traced == Ended /\ (done \/ Good)

LEMMA GoodEnded == Good => Ended
  BY DEF Good, Covered, Covers, Ended

LEMMA GoodTraced == Good' => Traced'
<1> SUFFICES ASSUME Good' PROVE Ended'
  BY DEF Traced
<1> QED
  BY DEF Good, Covered, Covers, Ended

LEMMA LastEnded ==
  ASSUME TypeInv, VInv, NEW x, NEW V, NEW n, Covered(x, V, n), NEW a, a.label = currentLabel,
         a.to = <<>>, blocks' = Append(blocks, a), code' = Append(code, x), done'
  PROVE  Traced'
<1>1. Aimed(a)
  BY NoTargets
<1> SUFFICES ASSUME NEW t \in Nat PROVE \E T : T \subseteq Nat /\ Flow(t, T, blocks', code')
  BY DEF Traced, Ended
<1>2. PICK T : Covers(t, T, x, V, n)
  BY DEF Covered
<1>3. Flow(t, T, Append(blocks, a), Append(code, x))
  BY <1>1, <1>2, FlowEnd
<1>4. T \subseteq Nat
  BY <1>2 DEF Covers
<1> QED
  BY <1>3, <1>4

LEMMA EndFnTraced ==
  ASSUME TypeInv, TypeInv', VInv, VInv', WInv, Unique, Good, ValueEndFn
  PROVE  Traced'
<1>1. CASE deferred = <<>>
  <2>1. Switch("return", <<>>, NoLabel) /\ ReturnBlock(Returned) /\ done'
    BY <1>1 DEF ValueEndFn, EndFn, FinishFn
  <2>2. PICK a, y, s : a = Finished("return", <<>>) /\ y = ReadBack(Returned) /\ s = <<>>
    OBVIOUS
  <2>3. Adds(y, a, s)
    BY <2>1, <2>2, ReturnedType, ReturnAdds
  <2>4. a.label = currentLabel /\ a.to = <<>>
    BY <2>2 DEF Finished, BB
  <2>5. Covered(emitted \o y, {val}, nextId)
    <3>1. PICK R : R = Range(Returned)
      OBVIOUS
    <3>2. Chunk(y, {}, R) /\ R \subseteq {val}
      BY <2>2, <3>1, ReturnedType, ReadBackChunk, ReturnedIn
    <3> QED
      BY <3>2, OnlyReads
  <2>6. PICK x : x = emitted \o y
    OBVIOUS
  <2>7. blocks' = Append(blocks, a) /\ code' = Append(code, x)
    BY <2>3, <2>6 DEF Adds
  <2> QED
    BY <2>1, <2>4, <2>5, <2>6, <2>7, LastEnded
<1>2. CASE deferred # <<>>
  <2>1. /\ BeginFlush("flush_exit") /\ BeginValueFlush /\ blocks' = blocks
        /\ nextBlock' = nextBlock /\ currentLabel' = currentLabel
    BY <1>2 DEF ValueEndFn, EndFn
  <2>2. "flush_exit" \in FlushKinds
    BY DEF FlushKinds
  <2> QED
    BY <2>1, <2>2, FlushGood, GoodTraced
<1> QED
  BY <1>1, <1>2

LEMMA EndFlushExitTraced ==
  ASSUME TypeInv, VInv, WInv, Unique, Good, ValueEndFlushExit
  PROVE  Traced'
<1>1. TopIs({"flush_exit"}) /\ Switch("return", <<>>, NoLabel) /\ ReturnBlock(Kept) /\ done'
  BY DEF ValueEndFlushExit, EndFlushExit, FinishFn
<1>2. stack # <<>> /\ Top.kind = "flush_exit" /\ Kept \in Seq(Nat)
  BY <1>1, FitsTop DEF TopIs
<1>3. PICK a, y, s : a = Finished("return", <<>>) /\ y = ReadBack(Kept) /\ s = <<>>
  OBVIOUS
<1>4. Adds(y, a, s)
  BY <1>1, <1>2, <1>3, ReturnAdds
<1>5. a.label = currentLabel /\ a.to = <<>>
  BY <1>3 DEF Finished, BB
<1>6p. PICK n \in Nat : n = nextId
  BY DEF VInv, ValueTypeOK
<1>6. PICK W, G : n = nextId /\ W = Range(Kept) /\ G = {}
  BY <1>6p
<1>7. Covered(emitted \o y, {val} \cup W \cup G, n)
  <2>1. Chunk(y, {}, W)
    BY <1>2, <1>3, <1>6, ReadBackChunk
  <2>2. \A t \in W : \E p \in Nat : Needed(t, p, stack, held, keep)
    <3>1. Uses(Top.kind, Kept) = W
      BY <1>2, <1>6 DEF Uses, FlushKinds
    <3> QED
      BY <1>2, <3>1, TopNeeds
  <2>3. Between(G, nextId, n) /\ nextId <= n /\ G \subseteq {} /\ W \subseteq {val} \cup W
    BY <1>6 DEF Between
  <2> QED
    BY <2>1, <2>2, <2>3, BehindNeeded
<1>8. PICK V, x : V = {val} \cup W \cup G /\ x = emitted \o y
  OBVIOUS
<1>9. blocks' = Append(blocks, a) /\ code' = Append(code, x)
  BY <1>4, <1>8 DEF Adds
<1> QED
  BY <1>1, <1>5, <1>7, <1>8, <1>9, LastEnded

LEMMA EndMainTraced ==
  ASSUME TypeInv, VInv, WInv, Unique, Good, ValueEndMain
  PROVE  Traced'
<1>1. Blocks(<<<<>>>>, <<>>) /\ blocks' = Append(blocks, Finished("return", <<>>)) /\ done'
  BY DEF ValueEndMain, EndMain, FinishFn, Switch, JumpBlock
<1>2. PICK a, x : a = Finished("return", <<>>) /\ x = emitted
  OBVIOUS
<1>3. Adds(<<>>, a, <<>>)
  BY <1>1, <1>2, JumpAdds
<1>4. blocks' = Append(blocks, a) /\ code' = Append(code, x)
  BY <1>2, <1>3, NothingMore DEF Adds
<1>5. a.label = currentLabel /\ a.to = <<>>
  BY <1>2 DEF Finished, BB
<1>6. Covered(x, {val}, nextId)
  BY <1>2, GoodParts
<1> QED
  BY <1>1, <1>4, <1>5, <1>6, LastEnded

(* A function begins. *)
LEMMA Blank ==
  ASSUME NEW no, no = <<>>
  PROVE  /\ Below(no, 0) /\ Back(no, 0) /\ Depths(no, no) /\ Delivers(no, no, no, no)
         /\ \A t : Flow(t, {}, no, no) /\ ~Awaits(t, no, no) /\ t \notin Reads(no)
         /\ Nested({}, no) /\ ~Hit({}, 0, no)
         /\ \A t : \A p \in Nat : ~Needed(t, p, no, no, no)
<1>1. 1..Len(no) = {} /\ Len(no) = 0
  OBVIOUS
<1>2. Below(no, 0) /\ Back(no, 0) /\ Depths(no, no) /\ Delivers(no, no, no, no)
  BY <1>1, Zenon DEF Below, Back, Depths, Delivers
<1>3. /\ \A t : Flow(t, {}, no, no) /\ ~Awaits(t, no, no)
      /\ Nested({}, no) /\ ~Hit({}, 0, no)
      /\ \A t : \A p \in Nat : ~Needed(t, p, no, no, no)
  BY <1>1, Zenon DEF Flow, Awaits, Nested, Hit, Needed
<1>4. \A t : t \notin Reads(no)
  BY ReadsNone
<1> QED
  BY <1>2, <1>3, <1>4

LEMMA TracedInit == ValueInit => Traced
<1> SUFFICES ASSUME ValueInit PROVE Good
  BY GoodEnded DEF Traced
<1>1. PICK no : no = <<>>
  OBVIOUS
<1>2. /\ blocks = no /\ code = no /\ stack = no /\ held = no /\ keep = no /\ emitted = no
      /\ nextBlock = 0 /\ nextId = 0 /\ val = NoName
  BY <1>1 DEF ValueInit, Init
<1>3. /\ Below(no, 0) /\ Back(no, 0) /\ Depths(no, no) /\ Delivers(no, no, no, no)
      /\ \A t : Flow(t, {}, no, no) /\ ~Awaits(t, no, no) /\ t \notin Reads(no)
      /\ Nested({}, no) /\ ~Hit({}, 0, no)
      /\ \A t : \A p \in Nat : ~Needed(t, p, no, no, no)
  BY <1>1, Blank
<1>4. ASSUME NEW t \in Nat PROVE Covers(t, {}, emitted, {val}, nextId)
  <2>1. t \notin {val} /\ {} \subseteq Nat
    BY <1>2 DEF NoName
  <2> QED
    BY <1>2, <1>3, <2>1, Zenon DEF Covers
<1> QED
  BY <1>2, <1>3, <1>4 DEF Good, Placed, Covered

LEMMA ResetTraced == ValueResetFn => Traced'
<1> SUFFICES ASSUME ValueResetFn PROVE Good'
  BY GoodTraced
<1>1. PICK no : no = <<>>
  OBVIOUS
<1>2. /\ blocks' = no /\ code' = no /\ stack' = no /\ held' = no /\ keep' = no /\ emitted' = no
      /\ nextBlock' = 0 /\ nextId' = 0 /\ val' = NoName
  BY <1>1 DEF ValueResetFn, ResetFn
<1>3. /\ Below(no, 0) /\ Back(no, 0) /\ Depths(no, no) /\ Delivers(no, no, no, no)
      /\ \A t : Flow(t, {}, no, no) /\ ~Awaits(t, no, no) /\ t \notin Reads(no)
      /\ Nested({}, no) /\ ~Hit({}, 0, no)
      /\ \A t : \A p \in Nat : ~Needed(t, p, no, no, no)
  BY <1>1, Blank
<1>4. ASSUME NEW t \in Nat PROVE \E T : Covers(t, T, emitted, {val}, nextId)'
  <2>1. t \notin {val'} /\ {} \subseteq Nat
    BY <1>2 DEF NoName
  <2>2. Covers(t, {}, emitted, {val}, nextId)'
    BY <1>2, <1>3, <2>1, Zenon DEF Covers
  <2> QED
    BY <2>2
<1> QED
  BY <1>2, <1>3, <1>4 DEF Good, Placed, Covered

-----------------------------------------------------------------------------
(* Every step.                                                              *)

(* A finished function has no open construct; only the next one follows.    *)
LEMMA BusyStmt ==
  ASSUME TypeInv, ValueStmt
  PROVE  ~done
<1>1. ASSUME NEW kinds, TopIs(kinds) PROVE ~done
  BY <1>1, TopHere
<1>2. ASSUME StoreValue \/ ValueDefer \/ ValueReturn PROVE ~done
  BY <1>2 DEF StoreValue, ValueDefer, LowerDefer, ValueReturn, LowerReturn, CanOpen
<1>3. ASSUME ValueFlushNext \/ ValueEndFlushReturn \/ ValueCloseWhileCond \/ ValueCloseLoop PROVE ~done
  BY <1>1, <1>3 DEF ValueFlushNext, FlushNext, ValueEndFlushReturn, EndFlushReturn,
     ValueCloseWhileCond, CloseWhileCond, ValueCloseLoop, CloseLoop
<1>4. ASSUME ValueBreak \/ ValueContinue \/ ValueOpenFor \/ ValueOpenWhile \/ ValueOpenLoop PROVE ~done
  BY <1>4 DEF ValueBreak, LowerBreak, ValueContinue, LowerContinue, ValueOpenFor, OpenFor,
     ValueOpenWhile, OpenWhile, ValueOpenLoop, OpenLoop, CanOpen
<1> QED
  BY <1>2, <1>3, <1>4 DEF ValueStmt

LEMMA BusyExpr ==
  ASSUME TypeInv, ValueExpr
  PROVE  ~done
<1>1. ASSUME NEW kinds, TopIs(kinds) PROVE ~done
  BY <1>1, TopHere
<1>2. ASSUME HoldLeft \/ Operate PROVE ~done
  BY <1>2 DEF HoldLeft, Operate
<1>3. ASSUME ValueOrReturn \/ ValueOrPanic \/ ValueOrZero \/ ValueOpenOrElse PROVE ~done
  BY <1>3 DEF ValueOrReturn, OrReturn, ValueOrPanic, OrPanic, ValueOrZero, OrZero, OrOp,
     ValueOpenOrElse, OpenOrElse, CanOpen
<1>4. ASSUME ValueOpenIf \/ ValueEmptyMatch PROVE ~done
  BY <1>4 DEF ValueOpenIf, OpenIf, ValueEmptyMatch, EmptyMatch, CanOpen
<1>5. ASSUME ValueCloseThen \/ ValueCloseExpr PROVE ~done
  BY <1>1, <1>5 DEF ValueCloseThen, CloseThen, ValueCloseExpr, CloseExpr
<1>6. ASSUME NEW n, NEW pat, ValueOpenMatch(n, pat) PROVE ~done
  BY <1>6 DEF ValueOpenMatch, OpenMatch, CanOpen
<1>7. ASSUME NEW pat, ValueNextArm(pat) PROVE ~done
  BY <1>1, <1>7 DEF ValueNextArm, NextArm
<1> QED
  BY <1>2, <1>3, <1>4, <1>5, <1>6, <1>7 DEF ValueExpr

LEMMA BusyFn ==
  ASSUME TypeInv, ValueEndFn \/ ValueEndFlushExit \/ ValueEndMain
  PROVE  ~done
<1>1. ASSUME NEW kinds, TopIs(kinds) PROVE ~done
  BY <1>1, TopHere
<1> QED
  BY <1>1 DEF ValueEndFn, EndFn, ValueEndFlushExit, EndFlushExit, ValueEndMain, EndMain

LEMMA StmtGood ==
  ASSUME TypeInv, TypeInv', VInv, VInv', WInv, Unique, Unique', Loops, Good, ValueStmt
  PROVE  Good'
<1>1. ASSUME ValueReturn PROVE Good'
  <2>1. CASE deferred = <<>>
    BY <1>1, <2>1, PlainReturnGood
  <2>2. CASE deferred # <<>>
    <3>1. /\ BeginFlush("flush_return") /\ BeginValueFlush /\ blocks' = blocks
          /\ nextBlock' = nextBlock /\ currentLabel' = currentLabel
      BY <1>1, <2>2 DEF ValueReturn, LowerReturn
    <3>2. "flush_return" \in FlushKinds
      BY DEF FlushKinds
    <3> QED
      BY <3>1, <3>2, FlushGood
  <2> QED
    BY <2>1, <2>2
<1>2. ASSUME StoreValue \/ ValueDefer \/ ValueFlushNext \/ ValueEndFlushReturn PROVE Good'
  BY <1>2, StoreGood, DeferGood, FlushNextGood, FlushReturnGood
<1>3. ASSUME ValueBreak \/ ValueContinue \/ ValueOpenWhile \/ ValueOpenLoop PROVE Good'
  BY <1>3, OutGood, LoopGood
<1>4. ASSUME ValueOpenFor \/ ValueCloseWhileCond \/ ValueCloseLoop PROVE Good'
  BY <1>4, ForGood, CondGood, CloseLoopGood
<1> QED
  BY <1>1, <1>2, <1>3, <1>4 DEF ValueStmt

LEMMA ExprGood ==
  ASSUME TypeInv, TypeInv', VInv, VInv', WInv, Unique, Unique', Good, PartialMatches = FALSE, ValueExpr
  PROVE  Good'
<1>1. ASSUME HoldLeft \/ Operate \/ ValueEmptyMatch PROVE Good'
  BY <1>1, HoldGood, OperateGood, EmptyMatchGood
<1>2. ASSUME ValueOrReturn \/ ValueOrPanic \/ ValueOrZero \/ ValueOpenOrElse PROVE Good'
  BY <1>2, OrGood, OrElseGood
<1>3. ASSUME ValueOpenIf \/ ValueCloseThen \/ ValueCloseExpr PROVE Good'
  BY <1>3, IfGood, CloseThenGood, CloseExprGood
<1>4. ASSUME NEW n \in 1..MaxArms, NEW pat \in Patterns, ValueOpenMatch(n, pat) PROVE Good'
  BY <1>4, MatchGood
<1>5. ASSUME NEW pat \in Patterns, ValueNextArm(pat) PROVE Good'
  BY <1>5, ArmGood
<1> QED
  BY <1>1, <1>2, <1>3, <1>4, <1>5 DEF ValueExpr

LEMMA TracedStep ==
  ASSUME TypeInv, TypeInv', VInv, VInv', WInv, Unique, Unique', Loops, PartialMatches = FALSE,
         Traced, [ValueNext]_valueVars
  PROVE  Traced'
<1>1. CASE UNCHANGED valueVars
  <2>1. /\ blocks' = blocks /\ code' = code /\ stack' = stack /\ held' = held /\ keep' = keep
        /\ emitted' = emitted /\ nextBlock' = nextBlock /\ nextId' = nextId /\ val' = val
        /\ currentLabel' = currentLabel /\ done' = done
    BY <1>1 DEF valueVars, nameVars, vars
  <2> QED
    BY <2>1, Zenon DEF Traced, Ended, Good, Placed, Covered, Covers
<1>2. ASSUME ~done, ValueStmt \/ ValueExpr PROVE Traced'
  <2>1. Good
    BY <1>2 DEF Traced
  <2>2. CASE ValueStmt
    BY <2>1, <2>2, StmtGood, GoodTraced
  <2>3. CASE ValueExpr
    <3>1. Good'
      BY <2>1, <2>3, ExprGood, Zenon
    <3> QED
      BY <3>1, GoodTraced
  <2> QED
    BY <1>2, <2>2, <2>3
<1>3. CASE ValueFn
  <2>1. ASSUME ValueEndFn \/ ValueEndFlushExit \/ ValueEndMain PROVE Traced'
    <3>1. Good
      BY <2>1, BusyFn DEF Traced
    <3> QED
      BY <2>1, <3>1, EndFnTraced, EndFlushExitTraced, EndMainTraced
  <2> QED
    BY <1>3, <2>1, ResetTraced DEF ValueFn
<1> QED
  BY <1>1, <1>2, <1>3, BusyStmt, BusyExpr DEF ValueNext

-----------------------------------------------------------------------------
(* No path to a block goes round a write of what the block reads.           *)

Jumped(t, L) ==
  UNION {Range(blocks[j].to) : j \in {i \in DOMAIN blocks : blocks[i].label \in L /\ t \notin Writes(i)}}

(* The labels WithoutWrite computes, as a list of ever larger sets. *)
WithoutRun(t, g) ==
  g = [n \in 0..Len(blocks) |-> IF n = 0 THEN {Entry} ELSE LET L == g[n - 1] IN L \cup Jumped(t, L)]

LEMMA JumpedIn ==
  ASSUME blocks \in Seq(Block), NEW t, NEW L
  PROVE  /\ Jumped(t, L) \subseteq Label
         /\ \A l \in Jumped(t, L) : \E j \in 1..Len(blocks) :
               l \in Range(blocks[j].to) /\ blocks[j].label \in L /\ t \notin Writes(j)
<1>1. ASSUME NEW l \in Jumped(t, L)
      PROVE  l \in Label /\ \E j \in 1..Len(blocks) :
                l \in Range(blocks[j].to) /\ blocks[j].label \in L /\ t \notin Writes(j)
  <2>1. PICK j \in DOMAIN blocks :
          l \in Range(blocks[j].to) /\ blocks[j].label \in L /\ t \notin Writes(j)
    BY <1>1 DEF Jumped
  <2>2. j \in 1..Len(blocks) /\ blocks[j] \in Block
    OBVIOUS
  <2>3. blocks[j].to \in Seq(Label)
    BY <2>2 DEF Block
  <2>4. l \in Label
    BY <2>1, <2>3 DEF Range
  <2> QED
    BY <2>1, <2>2, <2>4
<1> QED
  BY <1>1

LEMMA WithoutIs ==
  ASSUME blocks \in Seq(Block), NEW t
  PROVE  \E h : /\ h[0] = {Entry}
                /\ \A m \in 1..Len(blocks) : h[m] = h[m - 1] \cup Jumped(t, h[m - 1])
                /\ WithoutWrite(t) = h[Len(blocks)]
<1> DEFINE n == Len(blocks)
           X == SUBSET Label
           step == [I \in X |-> I \cup Jumped(t, I)]
           c == {Entry}
<1>1. n \in Nat /\ c \in X
  BY DEF Label
<1>2. \A I \in X : step[I] = I \cup Jumped(t, I) /\ I \cup Jumped(t, I) \in X
  BY JumpedIn
<1>3. step \in [X -> X]
  BY <1>2
<1> HIDE DEF step, X, c
<1>4. PICK f : Iterated(f, step, c, n, X)
  BY <1>1, <1>3, Iterate
<1>5. f \in [0..n -> X] /\ f[0] = c /\ \A m \in 1..n : f[m] = step[f[m - 1]]
  BY <1>4 DEF Iterated
<1>6. f = [m \in 0..n |-> f[m]]
  BY <1>5
<1>7. ASSUME NEW m \in 1..n PROVE f[m] = f[m - 1] \cup Jumped(t, f[m - 1])
  <2>1. m - 1 \in 0..n
    OBVIOUS
  <2>2. f[m - 1] \in X
    BY <1>5, <2>1
  <2> QED
    BY <1>2, <1>5, <2>2
<1>8. WithoutRun(t, f)
  <2>1. \A m \in 0..n : f[m] = IF m = 0 THEN {Entry} ELSE f[m - 1] \cup Jumped(t, f[m - 1])
    <3> SUFFICES ASSUME NEW m \in 0..n
                 PROVE f[m] = IF m = 0 THEN {Entry} ELSE f[m - 1] \cup Jumped(t, f[m - 1])
      OBVIOUS
    <3>1. CASE m = 0
      BY <1>5, <3>1 DEF c
    <3>2. CASE m # 0
      <4>1. m \in 1..n
        BY <3>2
      <4> QED
        BY <1>7, <3>2, <4>1
    <3> QED
      BY <3>1, <3>2
  <2> QED
    BY <1>6, <2>1 DEF WithoutRun
<1> DEFINE g == CHOOSE h : WithoutRun(t, h)
<1>9. WithoutRun(t, g)
  BY <1>8, Zenon
<1>10. WithoutWrite(t) = g[n]
  BY DEF WithoutWrite, WithoutRun, Jumped
<1> HIDE DEF g
<1>11. /\ g[0] = {Entry}
       /\ \A m \in 1..n : g[m] = g[m - 1] \cup Jumped(t, g[m - 1])
  <2>1. \A m \in 0..n : g[m] = IF m = 0 THEN {Entry} ELSE g[m - 1] \cup Jumped(t, g[m - 1])
    BY <1>9 DEF WithoutRun
  <2>2. 0 \in 0..n /\ \A m \in 1..n : m \in 0..n /\ m # 0
    BY <1>1
  <2> QED
    BY <2>1, <2>2
<1> QED
  BY <1>10, <1>11

(* Control that starts at the entry arrives at T only behind a write to t.  *)
LEMMA NotArrived ==
  ASSUME TypeInv, VInv, NEW t, NEW T, T \subseteq Nat, Flow(t, T, blocks, code)
  PROVE  WithoutWrite(t) \cap T = {}
<1>1. blocks \in Seq(Block) /\ Len(blocks) \in Nat /\ Len(code) = Len(blocks)
  BY Lists DEF VInv
<1>2. PICK h : /\ h[0] = {Entry}
               /\ \A m \in 1..Len(blocks) : h[m] = h[m - 1] \cup Jumped(t, h[m - 1])
               /\ WithoutWrite(t) = h[Len(blocks)]
  BY <1>1, WithoutIs
<1>3. ASSUME NEW L, L \cap T = {} PROVE (L \cup Jumped(t, L)) \cap T = {}
  <2>1. ASSUME NEW l \in Jumped(t, L), l \in T PROVE FALSE
    <3>1. PICK j \in 1..Len(blocks) :
            l \in Range(blocks[j].to) /\ blocks[j].label \in L /\ t \notin Writes(j)
      BY <1>1, <2>1, JumpedIn
    <3>2. blocks[j].label \in T \/ t \in Dests(code[j])
      BY <1>1, <2>1, <3>1 DEF Flow
    <3>3. Writes(j) = Dests(code[j])
      BY DEF Writes, Dests
    <3> QED
      BY <1>3, <3>1, <3>2, <3>3
  <2> QED
    BY <1>3, <2>1
<1> DEFINE S == {m \in 0..Len(blocks) : h[m] \cap T = {}}
<1>4. 0 \in S
  <2>1. Entry \notin T
    BY DEF Entry
  <2>2. 0 \in 0..Len(blocks)
    BY <1>1
  <2> QED
    BY <1>2, <2>1, <2>2
<1>5. ASSUME NEW m \in 1..Len(blocks), m - 1 \in S PROVE m \in S
  <2>1. h[m - 1] \cap T = {}
    BY <1>5
  <2>2. h[m] \cap T = {}
    BY <1>2, <1>3, <2>1
  <2> QED
    BY <1>1, <2>2
<1> HIDE DEF S
<1>6. \A m \in 0..Len(blocks) : m \in S
  BY <1>1, <1>4, <1>5, Walk
<1> QED
  <2>1. Len(blocks) \in 0..Len(blocks)
    BY <1>1
  <2> QED
    BY <1>2, <1>6, <2>1 DEF S

LEMMA TracedTypes == TypeInv /\ VInv /\ Traced => OperandsDefined
<1> SUFFICES ASSUME TypeInv, VInv, Traced, NEW i \in DOMAIN blocks, NEW t \in ReadsFirst(i)
             PROVE  blocks[i].label \notin WithoutWrite(t)
  BY DEF OperandsDefined
<1>1. /\ blocks \in Seq(Block) /\ code \in Seq(Seq(Instr)) /\ Len(code) = Len(blocks)
      /\ i \in 1..Len(code) /\ code[i] \in Seq(Instr)
  BY Lists DEF VInv, ValueTypeOK
<1>2. t \in Reads(code[i])
  BY DEF ReadsFirst, Reads
<1>3. t \in Nat
  <2>1. PICK k \in DOMAIN code[i] : t \in Range(code[i][k].args)
    BY <1>2, ReadsAt
  <2>2. code[i][k] \in Instr
    BY <1>1, <2>1
  <2>3. code[i][k].args \in Seq(Nat)
    BY <2>2 DEF Instr, Name
  <2> QED
    BY <2>1, <2>3 DEF Range
<1>4. PICK T : T \subseteq Nat /\ Flow(t, T, blocks, code)
  BY <1>3 DEF Traced, Ended
<1>5. blocks[i].label \in T
  BY <1>1, <1>2, <1>4 DEF Flow
<1> QED
  BY <1>4, <1>5, NotArrived

(* Whatever path control takes through a finished function, each name that  *)
(* an instruction or a terminator reads has been written before, in every   *)
(* program whose matches are exhaustive: each branch of a construct stores  *)
(* its result, and no block reads what only another branch has computed.    *)
THEOREM OperandsAreDefined ==
  ASSUME PartialMatches = FALSE
  PROVE  ValueSpec => []OperandsDefined
<1>1. ValueInit => VInv /\ WInv /\ Unique /\ Loops /\ Traced
  BY VInit, WInit, UniqueInit, LoopsInit, TracedInit DEF ValueInit
<1>2. TypeInv /\ TypeInv' /\ VInv /\ [ValueNext]_valueVars => VInv'
  BY VStep
<1>3. TypeInv /\ Unique /\ Loops /\ [ValueNext]_valueVars => Unique' /\ Loops'
  <2>1. [ValueNext]_valueVars => [Next]_vars
    BY LowerStep DEF valueVars
  <2> QED
    BY <2>1, UniqueStep, LoopsStep
<1>4. TypeInv /\ TypeInv' /\ VInv /\ VInv' /\ Unique /\ WInv /\ [ValueNext]_valueVars => WInv'
  BY WStep
<1>5. TypeInv /\ TypeInv' /\ VInv /\ VInv' /\ WInv /\ Unique /\ Unique' /\ Loops /\ Traced
      /\ [ValueNext]_valueVars => Traced'
  BY TracedStep, Zenon
<1>6. ValueSpec => [](VInv /\ Unique /\ Loops /\ WInv /\ Traced)
  BY <1>1, <1>2, <1>3, <1>4, <1>5, LowerTypes, PTL DEF ValueSpec
<1> QED
  BY <1>6, LowerTypes, TracedTypes, PTL

=============================================================================
