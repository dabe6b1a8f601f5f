-------------------------- MODULE RymRegAllocProofs --------------------------
(****************************************************************************)
(* Proofs about RymRegAlloc, in three layers.  TInv: the types of allocator *)
(* and machine, for functions whose parameters all come in registers.       *)
(* SInv: as long as nothing is spilled, names that may be read again are    *)
(* kept apart.  AInv: then every instruction can be annotated with where    *)
(* the names are before it, and the machine finds them there.               *)
(****************************************************************************)
EXTENDS RymRegAlloc, TLAPS
-----------------------------------------------------------------------------
(* Locations.                                                               *)

AllLocs == Regs \cup {Slot(i) : i \in Nat}

LEMMA Locations ==
  \A i, j \in Nat : /\ Temp(i) = Temp(j) => i = j
                    /\ Arg(i) = Arg(j) => i = j
                    /\ Temp(i) # Arg(j) /\ Temp(i) # Nowhere /\ Arg(i) # Nowhere
                    /\ Temp(i) # Slot(j) /\ Arg(i) # Slot(j)
                    /\ Temp(i)[2] = i /\ Arg(i)[2] = i
  BY DEF Temp, Arg, Slot, Nowhere

LEMMA OnStack == \A i \in Nat : ~Spilled(Temp(i)) /\ ~Spilled(Arg(i)) /\ Spilled(Slot(i))
  BY DEF Spilled, Temp, Arg, Slot

LEMMA RegsStay == \A r \in Regs : ~Spilled(r)
<1>1. \A i \in 1..NumTemps : ~Spilled(Temp(i))
  BY RegAllocAssumption, OnStack
<1>2. \A i \in 1..NumArgs : ~Spilled(Arg(i))
  BY RegAllocAssumption, OnStack
<1> QED
  BY <1>1, <1>2 DEF Regs

LEMMA TempIsReg == \A i \in 1..NumTemps : Temp(i) \in Regs
  BY DEF Regs

LEMMA ScratchIsReg == Scratch \in Regs
  BY TempIsReg, RegAllocAssumption DEF Scratch

LEMMA Located == \A l \in AllLocs : ~Spilled(l) => l \in Regs
  BY OnStack DEF AllLocs

-----------------------------------------------------------------------------
(* Types.                                                                   *)

Writers == AllOps \cup {"load"}
Opcodes == Writers \cup {"store", "if", "loop", "end", "return"}

Instr == [op : Opcodes, dest : Names \cup {"none"}, args : Seq(Names),
          to : AllLocs \cup {Nowhere}, from : Seq(AllLocs)]

WellFormed(c, k, r) ==
    /\ c.op \in AllOps => k <= MaxCode
    /\ c.op \in Writers \cup {"store"} => c.dest \in Names
    /\ c.op \in Writers => c.to \in AllLocs
    /\ c.op \in {"load", "store"} => Len(c.args) = 1
    /\ Len(c.from) = Len(c.args)
    /\ c.op \in {"if", "end"} => r.state # "none"

MapTypes ==
    /\ map \in [DOMAIN map -> Regs \cup {Slot(i) : i \in 0..(nextSpill - 1)}]
    /\ DOMAIN map \subseteq Names
    /\ nextReg \in 0..NumTemps /\ nextSpill \in Nat

NameTypes == used \in 0..Len(Temps) /\ usable \subseteq DOMAIN map

CodeTypes == code \in Seq(Instr) /\ \A k \in DOMAIN code : WellFormed(code[k], k, region)

RegionTypes ==
    /\ region \in [state : {"none", "open", "closed"}, kind : {"none", "if", "loop"},
                   first : Nat, last : Nat, inner : SUBSET Names]
    /\ region.state # "none" => region.first \in 1..Len(code)
    /\ region.last \in 0..Len(code)

MachineTypes ==
    /\ pc \in 0..(Len(code) + 1) /\ turns \in 0..MaxTurns
    /\ regs \in [Regs -> Values] /\ env \in [Names -> Values]
    /\ wrong \in BOOLEAN

TInv == MapTypes /\ NameTypes /\ CodeTypes /\ RegionTypes /\ MachineTypes

LEMMA TypesHold == TInv => RegAllocTypeOK
  BY DEF TInv, MapTypes, NameTypes, MachineTypes, RegAllocTypeOK

LEMMA SlotsGrow ==
  ASSUME NEW n \in Nat, NEW m \in Nat, n <= m
  PROVE  {Slot(i) : i \in 0..(n - 1)} \subseteq {Slot(i) : i \in 0..(m - 1)}
  OBVIOUS

LEMMA MapAll ==
  ASSUME MapTypes
  PROVE  /\ \A n \in DOMAIN map : map[n] \in AllLocs
         /\ nextSpill = 0 => \A n \in DOMAIN map : map[n] \in Regs
  BY DEF MapTypes, AllLocs

LEMMA MapAllNext ==
  ASSUME MapTypes'
  PROVE  /\ \A n \in DOMAIN map' : map'[n] \in AllLocs
         /\ nextSpill' = 0 => \A n \in DOMAIN map' : map'[n] \in Regs
  BY DEF MapTypes, AllLocs

LEMMA Inserted ==
  ASSUME NEW name, NEW loc, map' = Insert(name, loc)
  PROVE  /\ DOMAIN map' = DOMAIN map \cup {name}
         /\ map'[name] = loc
         /\ \A n \in DOMAIN map : n # name => map'[n] = map[n]
         /\ map' = [n \in DOMAIN map' |-> map'[n]]
  BY DEF Insert

(* alloc gives a name a place and leaves the others theirs.                 *)
LEMMA AllocTypes ==
  ASSUME MapTypes, NEW name \in Names, Alloc(name)
  PROVE  /\ MapTypes' /\ DOMAIN map' = DOMAIN map \cup {name}
         /\ \A n \in DOMAIN map : map'[n] = map[n]
         /\ nextSpill' >= nextSpill
<1> DEFINE loc == AllocLoc(name)
<1>1. map' = Insert(name, loc)
  BY DEF Alloc
<1>2. /\ DOMAIN map' = DOMAIN map \cup {name} /\ map'[name] = loc
      /\ \A n \in DOMAIN map : n # name => map'[n] = map[n]
      /\ map' = [n \in DOMAIN map' |-> map'[n]]
  BY <1>1, Inserted
<1>3. \A n \in DOMAIN map : map'[n] = map[n]
  BY <1>2 DEF AllocLoc
<1>4. nextReg' \in 0..NumTemps /\ nextSpill' \in Nat /\ nextSpill' >= nextSpill
  <2>1. nextReg \in 0..NumTemps /\ NumTemps \in Nat /\ nextSpill \in Nat
    BY RegAllocAssumption DEF MapTypes
  <2>2. /\ nextReg' = nextReg \/ (nextReg < NumTemps /\ nextReg' = nextReg + 1)
        /\ nextSpill' = nextSpill \/ nextSpill' = nextSpill + 1
    BY DEF Alloc
  <2> QED
    BY ONLY <2>1, <2>2, SMT
<1>5. loc \in Regs \cup {Slot(i) : i \in 0..(nextSpill' - 1)}
  <2>1. CASE name \in DOMAIN map
    <3>1. loc \in Regs \cup {Slot(i) : i \in 0..(nextSpill - 1)}
      BY <2>1 DEF AllocLoc, MapTypes
    <3> HIDE DEF loc
    <3> QED
      BY <1>4, <3>1, SlotsGrow DEF MapTypes
  <2>2. CASE name \notin DOMAIN map /\ nextReg < NumTemps
    <3>1. nextReg + 1 \in 1..NumTemps
      BY <2>2, RegAllocAssumption DEF MapTypes
    <3> QED
      BY <2>2, <3>1, TempIsReg DEF AllocLoc
  <2>3. CASE name \notin DOMAIN map /\ ~(nextReg < NumTemps)
    <3>1. nextReg = NumTemps
      BY <2>3, RegAllocAssumption DEF MapTypes
    <3>2. nextSpill' = nextSpill + 1
      BY <2>3, <3>1 DEF Alloc
    <3>3. nextSpill \in 0..(nextSpill' - 1)
      BY <3>2 DEF MapTypes
    <3> QED
      BY <2>3, <3>3 DEF AllocLoc
  <2> QED
    BY <2>1, <2>2, <2>3
<1>6. \A n \in DOMAIN map : map[n] \in Regs \cup {Slot(i) : i \in 0..(nextSpill' - 1)}
  BY <1>4, SlotsGrow DEF MapTypes
<1> HIDE DEF loc
<1>7. \A n \in DOMAIN map' : map'[n] \in Regs \cup {Slot(i) : i \in 0..(nextSpill' - 1)}
  BY <1>2, <1>5, <1>6
<1> QED
  BY <1>2, <1>3, <1>4, <1>7 DEF MapTypes

(* get answers with a location, of a known name with its own.               *)
LEMMA GetLoc ==
  ASSUME MapTypes', NEW n
  PROVE  Get(map', n) \in AllLocs /\ (n \in DOMAIN map' => Get(map', n) = map'[n])
  BY MapAllNext, ScratchIsReg DEF Get, AllLocs

LEMMA BindTypes ==
  ASSUME MapTypes, NEW name \in Names, NEW a \in DOMAIN map, Bind(name, Get(map, a))
  PROVE  /\ MapTypes' /\ DOMAIN map' = DOMAIN map \cup {name}
         /\ \A n \in DOMAIN map : n # name => map'[n] = map[n]
         /\ map'[name] = IF Spilled(map[a]) THEN Scratch ELSE map[a]
         /\ UNCHANGED nextSpill
<1> DEFINE loc == IF Spilled(map[a]) THEN Scratch ELSE map[a]
<1>1. map' = Insert(name, loc) /\ UNCHANGED <<nextReg, nextSpill>>
  BY DEF Bind, Get
<1>2. /\ DOMAIN map' = DOMAIN map \cup {name} /\ map'[name] = loc
      /\ \A n \in DOMAIN map : n # name => map'[n] = map[n]
      /\ map' = [n \in DOMAIN map' |-> map'[n]]
  BY <1>1, Inserted
<1>3. loc \in Regs \cup {Slot(i) : i \in 0..(nextSpill - 1)}
  BY ScratchIsReg DEF MapTypes
<1>4. \A n \in DOMAIN map : map[n] \in Regs \cup {Slot(i) : i \in 0..(nextSpill - 1)}
  BY DEF MapTypes
<1>5. map'[name] = IF Spilled(map[a]) THEN Scratch ELSE map[a]
  BY <1>2
<1> HIDE DEF loc
<1>6. \A n \in DOMAIN map' : map'[n] \in Regs \cup {Slot(i) : i \in 0..(nextSpill - 1)}
  BY <1>2, <1>3, <1>4
<1> QED
  BY <1>1, <1>2, <1>5, <1>6 DEF MapTypes

LEMMA SeqFacts ==
  ASSUME NEW S, NEW s \in Seq(S)
  PROVE  /\ DOMAIN s = 1..Len(s) /\ Len(s) \in Nat
         /\ \A i \in 1..Len(s) : s[i] \in S
  OBVIOUS

LEMMA AppendFacts ==
  ASSUME NEW S, NEW s \in Seq(S), NEW e \in S
  PROVE  /\ Append(s, e) \in Seq(S) /\ Len(Append(s, e)) = Len(s) + 1
         /\ DOMAIN Append(s, e) = 1..(Len(s) + 1)
         /\ Append(s, e)[Len(s) + 1] = e
         /\ \A i \in 1..Len(s) : Append(s, e)[i] = s[i]
  OBVIOUS

LEMMA MakeSeq ==
  ASSUME NEW S, NEW n \in Nat, NEW s, s = [i \in 1..n |-> s[i]], \A i \in 1..n : s[i] \in S
  PROVE  s \in Seq(S) /\ Len(s) = n
  OBVIOUS

(* The instruction emitted.                                                 *)
New(op, dest, args) ==
    [op |-> op, dest |-> dest, args |-> args,
     to |-> IF dest \in DOMAIN map' THEN map'[dest] ELSE Nowhere,
     from |-> [i \in DOMAIN args |-> Get(map', args[i])]]

LEMMA CodeGrows ==
  ASSUME CodeTypes, NEW c \in Instr, code' = Append(code, c),
         WellFormed(c, Len(code) + 1, region'),
         region.state # "none" => region'.state # "none"
  PROVE  CodeTypes' /\ Len(code') = Len(code) + 1
<1>1. code \in Seq(Instr)
  BY DEF CodeTypes
<1>2. /\ code' \in Seq(Instr) /\ Len(code') = Len(code) + 1 /\ code'[Len(code) + 1] = c
      /\ DOMAIN code' = 1..(Len(code) + 1)
      /\ \A k \in 1..Len(code) : code'[k] = code[k]
  BY <1>1, AppendFacts
<1>3. DOMAIN code = 1..Len(code) /\ Len(code) \in Nat
  BY <1>1, SeqFacts
<1>4. \A k \in DOMAIN code : WellFormed(code[k], k, region')
  BY <1>3 DEF CodeTypes, WellFormed
<1>5. \A k \in 1..(Len(code) + 1) : k \in 1..Len(code) \/ k = Len(code) + 1
  BY <1>3, SMT
<1>6. \A k \in DOMAIN code' : WellFormed(code'[k], k, region')
  BY <1>2, <1>3, <1>4, <1>5, Zenon
<1> QED
  BY <1>2, <1>6 DEF CodeTypes

LEMMA NewInstr ==
  ASSUME MapTypes', NEW op \in Opcodes, NEW dest \in Names \cup {"none"}, NEW args \in Seq(Names),
         op \in Writers => dest \in DOMAIN map'
  PROVE  /\ New(op, dest, args) \in Instr
         /\ Len(New(op, dest, args).from) = Len(args)
         /\ op \in Writers => New(op, dest, args).to \in AllLocs
<1>1. DOMAIN args = 1..Len(args) /\ Len(args) \in Nat
  BY SeqFacts
<1> DEFINE l == [i \in 1..Len(args) |-> Get(map', args[i])]
<1>2. /\ l = [i \in 1..Len(args) |-> l[i]]
      /\ \A i \in 1..Len(args) : l[i] \in AllLocs
  BY GetLoc
<1>3. New(op, dest, args).from = l
  BY <1>1 DEF New
<1> HIDE DEF l
<1>4. l \in Seq(AllLocs) /\ Len(l) = Len(args)
  BY <1>1, <1>2, MakeSeq
<1> DEFINE t == IF dest \in DOMAIN map' THEN map'[dest] ELSE Nowhere
<1>5. t \in AllLocs \cup {Nowhere} /\ (op \in Writers => t \in AllLocs)
  BY MapAllNext
<1>6. New(op, dest, args) = [op |-> op, dest |-> dest, args |-> args, to |-> t, from |-> l]
  BY <1>1 DEF New, l
<1> HIDE DEF t
<1> QED
  BY <1>3, <1>4, <1>5, <1>6 DEF Instr

LEMMA EmitCode ==
  ASSUME CodeTypes, MapTypes', NEW op \in Opcodes, NEW dest \in Names \cup {"none"},
         NEW args \in Seq(Names), Emit(op, dest, args),
         op \in AllOps => Room,
         op \in Writers => dest \in DOMAIN map',
         op = "store" => dest \in Names,
         op \in {"load", "store"} => Len(args) = 1,
         op \in {"if", "end"} \/ region.state # "none" => region'.state # "none"
  PROVE  /\ CodeTypes' /\ pc = 0 /\ code' = Append(code, New(op, dest, args))
         /\ Len(code') = Len(code) + 1
<1>1. pc = 0 /\ code' = Append(code, New(op, dest, args))
  BY DEF Emit, Emitting, New
<1>2. Len(code) \in Nat /\ MaxCode \in Nat
  BY SeqFacts, RegAllocAssumption DEF CodeTypes
<1>3. Len(code) < MaxCode => Len(code) + 1 <= MaxCode
  BY ONLY <1>2, SMT
<1>4. op \in AllOps => Len(code) + 1 <= MaxCode
  BY <1>3, Zenon DEF Room
<1>5. DOMAIN map' \subseteq Names
  BY DEF MapTypes
<1> DEFINE c == New(op, dest, args)
<1>6. /\ c \in Instr /\ Len(c.from) = Len(args) /\ (op \in Writers => c.to \in AllLocs)
      /\ c.op = op /\ c.dest = dest /\ c.args = args
  BY NewInstr DEF New
<1>7. code' = Append(code, c)
  BY <1>1
<1> HIDE DEF c
<1>8. WellFormed(c, Len(code) + 1, region')
  BY <1>4, <1>5, <1>6 DEF WellFormed
<1>9. CodeTypes' /\ Len(code') = Len(code) + 1
  BY <1>6, <1>7, <1>8, CodeGrows
<1> QED
  BY <1>1, <1>9

-----------------------------------------------------------------------------
(* Every step keeps the types.                                              *)

LEMMA CodeLen == ASSUME CodeTypes PROVE Len(code) \in Nat /\ DOMAIN code = 1..Len(code)
  BY SeqFacts DEF CodeTypes

LEMMA FreshName ==
  ASSUME NameTypes, NEW dest \in Fresh
  PROVE  /\ dest \in Names /\ dest \in Range(Temps)
         /\ used + 1 \in 1..Len(Temps) /\ dest = Temps[used + 1]
         /\ used + 1 \in 0..Len(Temps)
<1>1. DOMAIN Temps = 1..Len(Temps) /\ Len(Temps) \in Nat
  BY SeqFacts, RegAllocAssumption
<1>2. used + 1 \in DOMAIN Temps /\ dest = Temps[used + 1]
  BY DEF Fresh
<1>3. dest \in Range(Temps)
  BY <1>2 DEF Range
<1> QED
  BY <1>1, <1>2, <1>3 DEF Names

LEMMA NumberedNames ==
  ASSUME TInv
  PROVE  /\ Numbered \subseteq usable /\ usable \subseteq Names /\ usable \subseteq DOMAIN map
         /\ \A a \in Numbered : <<a>> \in Seq(Names) /\ Len(<<a>>) = 1
         /\ \A a, b \in Numbered : <<a, b>> \in Seq(Names)
         /\ \A a \in usable : <<a>> \in Seq(Names) /\ Len(<<a>>) = 1
  BY DEF TInv, NameTypes, MapTypes, Numbered

LEMMA DefinesRegion ==
  ASSUME RegionTypes, NEW name \in Names, NEW still, Defines(name, still)
  PROVE  /\ region' = [region EXCEPT !.inner = IF InRegion /\ name \notin usable
                                               THEN region.inner \cup {name} ELSE region.inner]
         /\ usable' = still \cup {name}
  BY DEF Defines, RegionTypes

LEMMA RegionKept ==
  ASSUME RegionTypes, CodeTypes, Len(code') = Len(code) + 1, NEW inner \in SUBSET Names,
         region' = [region EXCEPT !.inner = inner]
  PROVE  /\ RegionTypes' /\ region'.state = region.state /\ region'.kind = region.kind
         /\ region'.first = region.first /\ region'.last = region.last /\ region'.inner = inner
<1>1. /\ region'.state = region.state /\ region'.kind = region.kind
      /\ region'.first = region.first /\ region'.last = region.last /\ region'.inner = inner
  BY DEF RegionTypes
<1>2. region' \in [state : {"none", "open", "closed"}, kind : {"none", "if", "loop"},
                   first : Nat, last : Nat, inner : SUBSET Names]
  BY DEF RegionTypes
<1>3. Len(code) \in Nat
  BY CodeLen
<1>4. \A i \in Nat : /\ i \in 1..Len(code) => i \in 1..(Len(code) + 1)
                     /\ i \in 0..Len(code) => i \in 0..(Len(code) + 1)
  BY <1>3
<1> QED
  BY <1>1, <1>2, <1>4 DEF RegionTypes

LEMMA MachineKept ==
  ASSUME MachineTypes, CodeTypes, Len(code') = Len(code) + 1, UNCHANGED machine
  PROVE  MachineTypes'
<1>1. Len(code) \in Nat
  BY CodeLen
<1>2. \A i \in Nat : i \in 0..(Len(code) + 1) => i \in 0..((Len(code) + 1) + 1)
  BY <1>1
<1> QED
  BY <1>2 DEF MachineTypes, machine

LEMMA WriteTypes ==
  ASSUME TInv, MapTypes', DOMAIN map \subseteq DOMAIN map',
         NEW op \in Writers \cup {"store"}, NEW dest \in Names, dest \in DOMAIN map',
         NEW args \in Seq(Names), Emit(op, dest, args), op \in AllOps => Room,
         op \in {"load", "store"} => Len(args) = 1,
         NEW inner \in SUBSET Names, region' = [region EXCEPT !.inner = inner],
         usable' \subseteq DOMAIN map', used' \in 0..Len(Temps), UNCHANGED machine
  PROVE  TInv'
<1>1. op \in Opcodes /\ dest \in Names \cup {"none"}
  BY DEF Opcodes, Writers, AllOps
<1>2. region'.state = region.state
  BY DEF TInv, RegionTypes
<1>3. op \notin {"if", "end"}
  BY DEF Writers, AllOps
<1>4. CodeTypes' /\ Len(code') = Len(code) + 1
  BY <1>1, <1>2, <1>3, EmitCode DEF TInv
<1> QED
  BY <1>4, RegionKept, MachineKept DEF TInv, NameTypes

LEMMA InnerType ==
  ASSUME RegionTypes, NEW name \in Names, NEW u
  PROVE  (IF InRegion /\ name \notin u THEN region.inner \cup {name} ELSE region.inner)
            \in SUBSET Names
  BY DEF RegionTypes

LEMMA DefinesInner ==
  ASSUME TInv, NEW name \in Names, NEW still, Defines(name, still)
  PROVE  \E inner \in SUBSET Names : region' = [region EXCEPT !.inner = inner]
  BY DefinesRegion, InnerType DEF TInv

LEMMA OpTypes ==
  ASSUME TInv, NEW op \in AllOps, NEW args \in Seq(Names), EmitOp(op, args)
  PROVE  TInv'
<1>1. PICK dest \in Fresh :
         /\ Room /\ Alloc(dest) /\ Emit(op, dest, args) /\ used' = used + 1
         /\ Defines(dest, IF op \in Calls /\ ~UsesAcrossCalls THEN {} ELSE usable)
         /\ UNCHANGED machine
  BY DEF EmitOp
<1>2. dest \in Names /\ used' \in 0..Len(Temps)
  BY <1>1, FreshName DEF TInv
<1>3. MapTypes' /\ DOMAIN map' = DOMAIN map \cup {dest}
  BY <1>1, <1>2, AllocTypes DEF TInv
<1>4. usable' \subseteq DOMAIN map'
  BY <1>1, <1>3 DEF Defines, TInv, NameTypes
<1>5. PICK inner \in SUBSET Names : region' = [region EXCEPT !.inner = inner]
  BY <1>1, <1>2, DefinesInner
<1>6. DOMAIN map \subseteq DOMAIN map' /\ dest \in DOMAIN map' /\ UNCHANGED machine
  BY <1>1, <1>3
<1>7. op \in Writers \cup {"store"} /\ op \notin {"load", "store"}
  BY DEF Writers, AllOps
<1> QED
  BY <1>1, <1>2, <1>3, <1>4, <1>5, <1>6, <1>7, WriteTypes

LEMMA LoadTypes == TInv /\ EmitLoad => TInv'
<1> SUFFICES ASSUME TInv, EmitLoad PROVE TInv'
  OBVIOUS
<1>1. PICK dest \in Fresh, v \in usable \ Numbered :
         /\ Alloc(dest) /\ Emit("load", dest, <<v>>) /\ used' = used + 1
         /\ Defines(dest, usable) /\ UNCHANGED machine
  BY DEF EmitLoad
<1>2. dest \in Names /\ used' \in 0..Len(Temps)
  BY <1>1, FreshName DEF TInv
<1>3. MapTypes' /\ DOMAIN map' = DOMAIN map \cup {dest}
  BY <1>1, <1>2, AllocTypes DEF TInv
<1>4. usable' \subseteq DOMAIN map'
  BY <1>1, <1>3 DEF Defines, TInv, NameTypes
<1>5. <<v>> \in Seq(Names) /\ Len(<<v>>) = 1
  BY NumberedNames
<1>6. "load" \in Writers \cup {"store"} /\ "load" \notin AllOps
  BY DEF Writers, AllOps
<1>7. PICK inner \in SUBSET Names : region' = [region EXCEPT !.inner = inner]
  BY <1>1, <1>2, DefinesInner
<1>8. DOMAIN map \subseteq DOMAIN map' /\ dest \in DOMAIN map' /\ UNCHANGED machine
  BY <1>1, <1>3
<1> QED
  BY <1>1, <1>2, <1>3, <1>4, <1>5, <1>6, <1>7, <1>8, WriteTypes

LEMMA LetTypes == TInv /\ EmitLet => TInv'
<1> SUFFICES ASSUME TInv, EmitLet PROVE TInv'
  OBVIOUS
<1>1. PICK v \in Vars \cup Range(Params), a \in Numbered :
         /\ Alloc(v) /\ Emit("load", v, <<a>>)
         /\ Defines(v, usable) /\ UNCHANGED <<used, machine>>
  BY DEF EmitLet
<1>2. v \in Names /\ used' \in 0..Len(Temps)
  BY <1>1 DEF TInv, NameTypes, Names
<1>3. MapTypes' /\ DOMAIN map' = DOMAIN map \cup {v}
  BY <1>1, <1>2, AllocTypes DEF TInv
<1>4. usable' \subseteq DOMAIN map'
  BY <1>1, <1>3 DEF Defines, TInv, NameTypes
<1>5. <<a>> \in Seq(Names) /\ Len(<<a>>) = 1
  BY NumberedNames
<1>6. "load" \in Writers \cup {"store"} /\ "load" \notin AllOps
  BY DEF Writers, AllOps
<1>7. PICK inner \in SUBSET Names : region' = [region EXCEPT !.inner = inner]
  BY <1>1, <1>2, DefinesInner
<1>8. DOMAIN map \subseteq DOMAIN map' /\ v \in DOMAIN map' /\ UNCHANGED machine
  BY <1>1, <1>3
<1> QED
  BY <1>1, <1>2, <1>3, <1>4, <1>5, <1>6, <1>7, <1>8, WriteTypes

LEMMA StoreTypes == TInv /\ EmitStore => TInv'
<1> SUFFICES ASSUME TInv, EmitStore PROVE TInv'
  OBVIOUS
<1>1. PICK v \in usable \ Numbered, a \in Numbered :
         /\ Bind(v, Get(map, a)) /\ Emit("store", v, <<a>>) /\ usable' = usable \ {a}
         /\ UNCHANGED <<used, region, machine>>
  BY DEF EmitStore
<1>2. v \in Names /\ a \in DOMAIN map /\ <<a>> \in Seq(Names) /\ Len(<<a>>) = 1
  BY NumberedNames
<1>3. MapTypes' /\ DOMAIN map' = DOMAIN map \cup {v}
  BY <1>1, <1>2, BindTypes DEF TInv
<1>4. usable' \subseteq DOMAIN map' /\ used' \in 0..Len(Temps)
  BY <1>1, <1>3 DEF TInv, NameTypes
<1>5. "store" \in Writers \cup {"store"} /\ "store" \notin AllOps
  BY DEF Writers, AllOps
<1>6. region' = [region EXCEPT !.inner = region.inner] /\ region.inner \in SUBSET Names
  BY <1>1 DEF TInv, RegionTypes
<1>8. DOMAIN map \subseteq DOMAIN map' /\ v \in DOMAIN map' /\ UNCHANGED machine
  BY <1>1, <1>3
<1> QED
  BY <1>1, <1>2, <1>3, <1>4, <1>5, <1>6, <1>8, WriteTypes

LEMMA SameMap == ASSUME MapTypes, UNCHANGED alloc PROVE MapTypes'
  BY DEF MapTypes, alloc

LEMMA OpenTypes ==
  ASSUME TInv, NEW kind \in {"if", "loop"}, NEW args \in Seq(Names), OpenRegion(kind, args)
  PROVE  TInv'
<1>1. /\ UNCHANGED <<alloc, used, usable, machine>> /\ Emit(kind, "none", args)
      /\ region' = [state |-> "open", kind |-> kind, first |-> Len(code) + 1, last |-> 0,
                    inner |-> {}]
  BY DEF OpenRegion
<1>2. kind \in Opcodes /\ kind \notin Writers /\ kind \notin AllOps /\ kind \notin {"store", "load"}
  BY DEF Opcodes, Writers, AllOps
<1>3. MapTypes'
  BY <1>1, SameMap DEF TInv
<1>4. region'.state = "open" /\ region'.first = Len(code) + 1 /\ region'.last = 0
  BY <1>1
<1>5. CodeTypes' /\ Len(code') = Len(code) + 1
  BY <1>1, <1>2, <1>3, <1>4, EmitCode DEF TInv
<1>6. Len(code) \in Nat
  BY CodeLen DEF TInv
<1>7. RegionTypes'
  BY <1>1, <1>4, <1>5, <1>6 DEF RegionTypes
<1>8. NameTypes'
  BY <1>1 DEF TInv, NameTypes, alloc
<1> QED
  BY <1>1, <1>3, <1>5, <1>7, <1>8, MachineKept DEF TInv

LEMMA CloseTypes == TInv /\ CloseRegion => TInv'
<1> SUFFICES ASSUME TInv, CloseRegion PROVE TInv'
  OBVIOUS
<1>1. /\ UNCHANGED <<alloc, used, machine>> /\ Emit("end", "none", <<>>)
      /\ region' = [region EXCEPT !.state = "closed", !.last = Len(code) + 1]
      /\ region.state = "open" /\ usable' = usable \ region.inner
  BY DEF CloseRegion, InRegion
<1>2. "end" \in Opcodes /\ "end" \notin Writers /\ "end" \notin AllOps /\ <<>> \in Seq(Names)
  BY DEF Opcodes, Writers, AllOps
<1>3. MapTypes'
  BY <1>1, SameMap DEF TInv
<1>4. /\ region'.state = "closed" /\ region'.first = region.first
      /\ region'.last = Len(code) + 1
  BY <1>1 DEF TInv, RegionTypes
<1>5. CodeTypes' /\ Len(code') = Len(code) + 1
  BY <1>1, <1>2, <1>3, <1>4, EmitCode DEF TInv
<1>6. Len(code) \in Nat
  BY CodeLen DEF TInv
<1>7. region' \in [state : {"none", "open", "closed"}, kind : {"none", "if", "loop"},
                   first : Nat, last : Nat, inner : SUBSET Names]
  <2> DEFINE S == [state : {"none", "open", "closed"}, kind : {"none", "if", "loop"},
                   first : Nat, last : Nat, inner : SUBSET Names]
             r == [region EXCEPT !.state = "closed"]
  <2>1. r \in S
    BY DEF TInv, RegionTypes
  <2>2. region' = [r EXCEPT !.last = Len(code) + 1]
    BY <1>1
  <2>3. Len(code) + 1 \in Nat
    BY <1>6
  <2> HIDE DEF r
  <2> QED
    BY <2>1, <2>2, <2>3
<1>8. region.first \in 1..(Len(code) + 1)
  BY <1>1, <1>6 DEF TInv, RegionTypes
<1>9. RegionTypes'
  BY <1>4, <1>5, <1>6, <1>7, <1>8 DEF RegionTypes
<1>10. NameTypes'
  BY <1>1 DEF TInv, NameTypes, alloc
<1> QED
  BY <1>1, <1>3, <1>5, <1>9, <1>10, MachineKept DEF TInv

LEMMA ReturnTypes == TInv /\ EmitReturn => TInv'
<1> SUFFICES ASSUME TInv, EmitReturn PROVE TInv'
  OBVIOUS
<1>1. PICK args \in {<<>>} \cup {<<a>> : a \in Numbered} : Emit("return", "none", args)
  BY DEF EmitReturn
<1>2. args \in Seq(Names)
  <2>1. CASE args = <<>>
    BY <2>1
  <2>2. ASSUME NEW a \in Numbered, args = <<a>> PROVE args \in Seq(Names)
    BY <2>2, NumberedNames
  <2> QED
    BY <2>1, <2>2
<1>3. UNCHANGED <<alloc, used, usable, region, turns, regs, env, wrong>> /\ pc' = 1
  BY DEF EmitReturn
<1>4. /\ "return" \in Opcodes /\ "return" \notin Writers /\ "return" \notin AllOps
      /\ "return" \notin {"if", "end", "load", "store"}
  BY DEF Opcodes, Writers, AllOps
<1>5. MapTypes'
  BY <1>3, SameMap DEF TInv
<1>6. CodeTypes' /\ Len(code') = Len(code) + 1
  BY <1>1, <1>2, <1>3, <1>4, <1>5, EmitCode DEF TInv
<1>7. region' = [region EXCEPT !.inner = region.inner] /\ region.inner \in SUBSET Names
  BY <1>3 DEF TInv, RegionTypes
<1>8. RegionTypes'
  BY <1>6, <1>7, RegionKept DEF TInv
<1>9. Len(code) \in Nat
  BY CodeLen DEF TInv
<1>10. pc' \in 0..(Len(code) + 1 + 1)
  BY <1>3, <1>9
<1>11. MachineTypes'
  BY <1>3, <1>6, <1>10 DEF TInv, MachineTypes
<1>12. NameTypes'
  BY <1>3 DEF TInv, NameTypes, alloc
<1> QED
  BY <1>5, <1>6, <1>8, <1>11, <1>12 DEF TInv

LEMMA EmitTypes == TInv /\ EmitNext => TInv'
<1> SUFFICES ASSUME TInv, EmitNext PROVE TInv'
  OBVIOUS
<1>0. <<>> \in Seq(Names)
  OBVIOUS
<1>1. CASE EmitConst
  BY <1>0, <1>1, OpTypes DEF EmitConst, AllOps
<1>2. CASE EmitBinary
  <2>1. PICK a, b \in Numbered : EmitOp("binary", <<a, b>>)
    BY <1>2 DEF EmitBinary
  <2> QED
    BY <2>1, NumberedNames, OpTypes DEF AllOps
<1>3. CASE EmitUnary
  <2>1. PICK op \in Ops, a \in Numbered : EmitOp(op, <<a>>)
    BY <1>3 DEF EmitUnary
  <2>2. op \in AllOps
    BY RegAllocAssumption
  <2> QED
    BY <2>1, <2>2, NumberedNames, OpTypes
<1>4. CASE EmitIf
  <2>1. PICK a \in Numbered : OpenRegion("if", <<a>>)
    BY <1>4 DEF EmitIf
  <2> QED
    BY <2>1, NumberedNames, OpenTypes
<1>5. CASE EmitLoop
  BY <1>0, <1>5, OpenTypes DEF EmitLoop
<1> QED
  BY <1>1, <1>2, <1>3, <1>4, <1>5, LoadTypes, LetTypes, StoreTypes, CloseTypes, ReturnTypes
     DEF EmitNext

(* What the machine reads and writes.                                       *)
LEMMA ValueTypes ==
  /\ \A i \in 0..MaxCode, t \in 0..MaxTurns : Computed(i, t) \in Values
  /\ \A i \in 1..Len(Params) : Passed(i) \in Values
  /\ Junk \in Values
<1>1. MaxCode \in Nat /\ MaxTurns \in Nat /\ Len(Params) \in Nat
  BY RegAllocAssumption, SeqFacts
<1>2. \A i \in 0..MaxCode, t \in 0..(MaxTurns + Len(Params)) : <<i, t>> \in Values
  BY DEF Values, Computed
<1>3. /\ \A t \in 0..MaxTurns : t \in 0..(MaxTurns + Len(Params))
      /\ \A t \in 1..Len(Params) : t \in 0..(MaxTurns + Len(Params))
      /\ 0 \in 0..(MaxTurns + Len(Params)) /\ 0 \in 0..MaxCode
  BY <1>1
<1> QED
  BY <1>2, <1>3 DEF Computed, Passed, Junk

LEMMA NowType ==
  ASSUME CodeTypes, Executing
  PROVE  /\ Now \in Instr /\ WellFormed(Now, pc, region) /\ pc \in 1..Len(code)
         /\ DOMAIN Now.from = DOMAIN Now.args /\ Len(Now.args) \in Nat
         /\ \A i \in DOMAIN Now.from : Now.from[i] \in AllLocs
<1>1. pc \in DOMAIN code
  BY CodeLen DEF Executing
<1>2. Now \in Instr /\ WellFormed(Now, pc, region)
  BY <1>1, SeqFacts DEF CodeTypes, Now
<1>3. Now.from \in Seq(AllLocs) /\ Now.args \in Seq(Names)
  BY <1>2 DEF Instr
<1>4. Len(Now.from) = Len(Now.args)
  BY <1>2 DEF WellFormed
<1> QED
  BY <1>2, <1>3, <1>4, SeqFacts DEF Executing

LEMMA GotType ==
  ASSUME MachineTypes, CodeTypes, Executing, NEW i \in DOMAIN Now.args
  PROVE  Got(i) \in Values
<1>1. Now.from[i] \in AllLocs
  BY NowType
<1>2. ~Spilled(Now.from[i]) => regs[Now.from[i]] \in Values
  BY <1>1, Located DEF MachineTypes
<1> QED
  BY <1>2, ValueTypes DEF Got

LEMMA ReloadedType == MachineTypes => Reloaded \in [Regs -> Values]
  BY ValueTypes DEF MachineTypes, Reloaded

LEMMA RightType == Right \in BOOLEAN
  BY DEF Right

LEMMA MachineTypesKept ==
  ASSUME TInv, NEW next \in 0..(Len(code) + 1), NEW r \in [Regs -> Values],
         NEW e \in [Names -> Values], Machine(next, r, e), turns' \in 0..MaxTurns
  PROVE  TInv'
<1>1. /\ UNCHANGED <<alloc, used, usable, region, code>>
      /\ pc' = next /\ regs' = r /\ env' = e /\ wrong' \in BOOLEAN
  BY RightType DEF Machine, TInv, MachineTypes
<1>2. MapTypes' /\ NameTypes'
  BY <1>1 DEF TInv, MapTypes, NameTypes, alloc
<1>3. CodeTypes' /\ RegionTypes'
  BY <1>1 DEF TInv, CodeTypes, RegionTypes
<1>4. MachineTypes'
  BY <1>1 DEF TInv, MachineTypes
<1> QED
  BY <1>2, <1>3, <1>4 DEF TInv

LEMMA NextPc ==
  ASSUME CodeTypes, Executing
  PROVE  pc \in 0..(Len(code) + 1) /\ pc + 1 \in 0..(Len(code) + 1)
  BY CodeLen DEF Executing

LEMMA WritesTypes ==
  ASSUME TInv, Executing, Now.op \in Writers, NEW before \in [Regs -> Values],
         NEW got \in Values, NEW worth \in Values, Writes(before, got, worth), UNCHANGED turns
  PROVE  TInv'
<1> DEFINE reg == IF Spilled(Now.to) THEN Scratch ELSE Now.to
           r == [before EXCEPT ![reg] = got]
           e == [env EXCEPT ![Now.dest] = worth]
<1>1. Machine(pc + 1, r, e)
  BY DEF Writes
<1>2. Now.to \in AllLocs /\ Now.dest \in Names
  BY NowType DEF TInv, WellFormed
<1>3. reg \in Regs
  BY <1>2, Located, ScratchIsReg
<1>4. r \in [Regs -> Values] /\ e \in [Names -> Values]
  BY <1>2, <1>3 DEF TInv, MachineTypes
<1>5. pc + 1 \in 0..(Len(code) + 1) /\ turns' \in 0..MaxTurns
  BY NextPc DEF TInv, MachineTypes
<1> HIDE DEF r, e
<1> QED
  BY <1>1, <1>4, <1>5, MachineTypesKept

LEMMA ExecTypes == TInv /\ ExecNext => TInv'
<1> SUFFICES ASSUME TInv, ExecNext PROVE TInv'
  OBVIOUS
<1>0. /\ MachineTypes /\ CodeTypes /\ turns \in 0..MaxTurns
      /\ regs \in [Regs -> Values] /\ env \in [Names -> Values]
      /\ Reloaded \in [Regs -> Values]
  BY ReloadedType DEF TInv, MachineTypes
<1>1. CASE ExecOp
  <2> DEFINE value == Computed(pc, turns)
             before == IF Now.op \in Calls THEN [r \in Regs |-> Junk] ELSE Reloaded
             got == IF Right THEN value ELSE Junk
  <2>1. Executing /\ Now.op \in AllOps /\ UNCHANGED turns /\ Writes(before, got, value)
    BY <1>1 DEF ExecOp
  <2>2. pc \in 0..MaxCode
    <3>1. pc \in 1..Len(code) /\ pc <= MaxCode
      BY <1>0, <2>1, NowType DEF WellFormed
    <3>2. Len(code) \in Nat /\ MaxCode \in Nat
      BY <1>0, CodeLen, RegAllocAssumption
    <3> QED
      BY <3>1, <3>2
  <2>3. value \in Values /\ Junk \in Values
    BY <1>0, <2>2, ValueTypes
  <2>4. before \in [Regs -> Values] /\ got \in Values
    BY <1>0, <2>3
  <2>5. Now.op \in Writers
    BY <2>1 DEF Writers
  <2> HIDE DEF before, got, value
  <2> QED
    BY <2>1, <2>3, <2>4, <2>5, WritesTypes
<1>2. CASE ExecLoad
  <2>1. /\ Executing /\ Now.op = "load" /\ UNCHANGED turns
        /\ Writes(Reloaded, Got(1), env[Now.args[1]])
    BY <1>2 DEF ExecLoad
  <2>2. 1 \in DOMAIN Now.args /\ Now.args[1] \in Names
    <3>1. Now.args \in Seq(Names) /\ Len(Now.args) = 1
      BY <1>0, <2>1, NowType DEF Instr, WellFormed
    <3> QED
      BY <3>1
  <2>3. Got(1) \in Values /\ env[Now.args[1]] \in Values
    BY <1>0, <2>1, <2>2, GotType
  <2>4. Now.op \in Writers
    BY <2>1 DEF Writers
  <2> QED
    BY <1>0, <2>1, <2>3, <2>4, WritesTypes
<1>3. CASE ExecStore
  <2>1. /\ Executing /\ Now.op = "store" /\ UNCHANGED turns
        /\ Machine(pc + 1, Reloaded, [env EXCEPT ![Now.dest] = env[Now.args[1]]])
    BY <1>3 DEF ExecStore
  <2>2. Now.args[1] \in Names /\ Now.dest \in Names
    <3>1. Now.args \in Seq(Names) /\ Len(Now.args) = 1 /\ Now.dest \in Names
      BY <1>0, <2>1, NowType DEF Instr, WellFormed
    <3> QED
      BY <3>1
  <2>3. [env EXCEPT ![Now.dest] = env[Now.args[1]]] \in [Names -> Values]
    BY <1>0, <2>2
  <2> QED
    BY <1>0, <2>1, <2>3, NextPc, MachineTypesKept
<1>4. CASE ExecIf
  <2>1. PICK next \in {pc + 1, region.last} : Machine(next, Reloaded, env)
    BY <1>4 DEF ExecIf
  <2>2. Executing /\ UNCHANGED turns
    BY <1>4 DEF ExecIf
  <2>3. next \in 0..(Len(code) + 1)
    BY <1>0, <2>2, NextPc, CodeLen DEF TInv, RegionTypes
  <2> QED
    BY <1>0, <2>1, <2>2, <2>3, MachineTypesKept
<1>5. CASE ExecLoop \/ ExecEnd
  <2>1. Executing /\ UNCHANGED turns /\ Machine(pc + 1, regs, env)
    BY <1>5 DEF ExecLoop, ExecEnd
  <2> QED
    BY <1>0, <2>1, NextPc, MachineTypesKept
<1>6. CASE ExecReturn
  <2>1. Executing /\ UNCHANGED turns /\ Machine(pc + 1, Reloaded, env)
    BY <1>6 DEF ExecReturn
  <2> QED
    BY <1>0, <2>1, NextPc, MachineTypesKept
<1>7. CASE ExecBack
  <2>1. /\ Executing /\ Now.op = "end" /\ turns < MaxTurns /\ turns' = turns + 1
        /\ Machine(region.first, regs, env)
    BY <1>7 DEF ExecBack
  <2>2. region.first \in 1..Len(code)
    BY <1>0, <2>1, NowType DEF WellFormed, TInv, RegionTypes
  <2>3. region.first \in 0..(Len(code) + 1) /\ turns' \in 0..MaxTurns
    BY <1>0, <2>1, <2>2, CodeLen, RegAllocAssumption
  <2> QED
    BY <1>0, <2>1, <2>3, MachineTypesKept
<1> QED
  BY <1>1, <1>2, <1>3, <1>4, <1>5, <1>6, <1>7 DEF ExecNext

(* The parameters are where the caller left them.                           *)
LEMMA ParamPlaces ==
  /\ \A p \in Range(Params) : ParamIndex(p) \in DOMAIN Params /\ Params[ParamIndex(p)] = p
  /\ DOMAIN Params = 1..Len(Params) /\ Len(Params) \in Nat
  BY RegAllocAssumption, SeqFacts DEF ParamIndex, Range

LEMMA InitTypes ==
  ASSUME Len(Params) <= NumArgs, Init
  PROVE  TInv
<1>1. Bound = DOMAIN Params
  BY ParamPlaces, RegAllocAssumption DEF Bound
<1>2. {Params[i] : i \in Bound} = Range(Params)
  BY <1>1 DEF Range
<1>3. map = [p \in Range(Params) |-> Arg(ParamIndex(p))]
  BY <1>2 DEF Init
<1>4. \A i \in Bound : i \in 1..NumArgs /\ i \in 1..Len(Params)
  BY ParamPlaces, RegAllocAssumption DEF Bound
<1>5. \A p \in Range(Params) : Arg(ParamIndex(p)) \in Regs
  BY <1>1, <1>4, ParamPlaces DEF Regs
<1>6. MapTypes
  BY <1>3, <1>5, RegAllocAssumption DEF MapTypes, Init, Names
<1>7. NameTypes
  BY <1>3, SeqFacts, RegAllocAssumption DEF NameTypes, Init
<1>8. CodeTypes /\ RegionTypes
  BY DEF CodeTypes, RegionTypes, Init
<1>9. regs \in [Regs -> Values]
  <2>1. \A r \in Regs : (\E i \in Bound : r = Arg(i)) => Passed(r[2]) \in Values
    <3> SUFFICES ASSUME NEW r \in Regs, NEW i \in Bound, r = Arg(i)
                 PROVE  Passed(r[2]) \in Values
      OBVIOUS
    <3>1. r[2] = i
      BY <1>4, Locations
    <3> QED
      BY <1>4, <3>1, ValueTypes
  <2> QED
    BY <2>1, ValueTypes DEF Init
<1>10. env \in [Names -> Values]
  BY ParamPlaces, ValueTypes DEF Init
<1>11. pc \in 0..(Len(code) + 1) /\ turns \in 0..MaxTurns
  <2>1. pc = 0 /\ turns = 0 /\ Len(code) = 0 /\ MaxTurns \in Nat
    BY RegAllocAssumption DEF Init
  <2> QED
    BY <2>1
<1>12. wrong \in BOOLEAN
  BY DEF Init
<1> QED
  BY <1>6, <1>7, <1>8, <1>9, <1>10, <1>11, <1>12 DEF TInv, MachineTypes

LEMMA TypesStep == TInv /\ [Next]_vars => TInv'
<1> SUFFICES ASSUME TInv, UNCHANGED vars PROVE TInv'
  BY EmitTypes, ExecTypes DEF Next
<1>1. MapTypes' /\ NameTypes'
  BY DEF TInv, MapTypes, NameTypes, vars
<1>2. CodeTypes' /\ RegionTypes' /\ MachineTypes'
  BY DEF TInv, CodeTypes, RegionTypes, MachineTypes, vars
<1> QED
  BY <1>1, <1>2 DEF TInv

(* The allocator hands out nothing but the registers of its two tables and  *)
(* the slots it has counted, in functions whose parameters all come in      *)
(* registers; the machine stays inside the function.                        *)
THEOREM AllocatorTypes ==
  ASSUME Len(Params) <= NumArgs
  PROVE  Spec => []RegAllocTypeOK
<1>1. Init => TInv
  BY InitTypes
<1>2. TInv /\ [Next]_vars => TInv'
  BY TypesStep
<1> QED
  BY <1>1, <1>2, TypesHold, PTL DEF Spec

-----------------------------------------------------------------------------
(* As long as nothing is spilled, names keep apart.                         *)

(* No register beyond the ones counted has been handed out.                 *)
Counted == \A n \in DOMAIN map, j \in Nat : map[n] = Temp(j) => j <= nextReg

(* A numbered name has no place before it is handed out.                    *)
Unplaced == \A i \in DOMAIN Temps : i > used => Temps[i] \notin DOMAIN map

(* The names that may be read again: the usable ones, and those of          *)
(* variables, which a let makes usable with the place they have.            *)
Lasting == {n \in DOMAIN map : n \in usable \/ n \notin Range(Temps)}

Apart(m, S) == \A a, b \in S : a # b => m[a] # m[b]

Separate == Counted /\ Unplaced /\ Apart(map, Lasting)

SInv == nextSpill = 0 => Separate

LEMMA LocCounted ==
  ASSUME MapTypes, Counted, NEW n \in DOMAIN map, nextReg < NumTemps
  PROVE  map[n] # Temp(nextReg + 1)
<1>1. nextReg \in Nat /\ nextReg + 1 \in Nat /\ ~(nextReg + 1 <= nextReg)
  BY RegAllocAssumption DEF MapTypes
<1> QED
  BY <1>1 DEF Counted

(* A new place is nobody else's.                                            *)
LEMMA AllocApart ==
  ASSUME MapTypes, Counted, NEW name \in Names, Alloc(name), nextSpill' = 0,
         NEW S \in SUBSET (DOMAIN map), Apart(map, S), name \in DOMAIN map => name \in S
  PROVE  /\ Counted' /\ nextSpill = 0
         /\ Apart(map', S \cup {name})
         /\ name \notin DOMAIN map => map'[name] = Temp(nextReg + 1) /\ nextReg < NumTemps
<1>1. /\ MapTypes' /\ DOMAIN map' = DOMAIN map \cup {name}
      /\ \A n \in DOMAIN map : map'[n] = map[n]
  BY AllocTypes
<1>2. nextSpill = 0 /\ nextSpill \in Nat
  BY DEF Alloc, MapTypes
<1>3. CASE name \in DOMAIN map
  <2>1. nextReg' = nextReg
    BY <1>3 DEF Alloc
  <2> QED
    BY <1>1, <1>2, <1>3, <2>1 DEF Counted, Apart
<1>4. CASE name \notin DOMAIN map
  <2>1. nextReg \in 0..NumTemps /\ NumTemps \in Nat
    BY RegAllocAssumption DEF MapTypes
  <2>2. nextReg # NumTemps
    BY <1>2, <1>4 DEF Alloc
  <2>3. nextReg < NumTemps /\ nextReg' = nextReg + 1
    BY <1>4, <2>1, <2>2 DEF Alloc
  <2>4. map'[name] = Temp(nextReg + 1)
    BY <1>4, <2>3, Inserted DEF Alloc, AllocLoc
  <2>5. \A n \in DOMAIN map : map'[n] # map'[name]
    BY <1>1, <2>3, <2>4, LocCounted
  <2>6. Counted'
    <3> SUFFICES ASSUME NEW n \in DOMAIN map', NEW j \in Nat, map'[n] = Temp(j)
                 PROVE  j <= nextReg'
      BY DEF Counted
    <3>1. CASE n = name
      <4>1. nextReg + 1 \in Nat /\ Temp(j) = Temp(nextReg + 1)
        BY <2>1, <2>4, <3>1
      <4>2. j = nextReg + 1
        BY <4>1, Locations
      <4> QED
        BY <2>1, <2>3, <4>2
    <3>2. CASE n \in DOMAIN map
      <4>1. j <= nextReg
        BY <1>1, <3>2 DEF Counted
      <4> QED
        BY <2>1, <2>3, <4>1
    <3> QED
      BY <1>1, <3>1, <3>2
  <2>7. Apart(map', S \cup {name})
    BY <1>1, <2>5 DEF Apart
  <2> QED
    BY <1>2, <2>3, <2>4, <2>6, <2>7
<1> QED
  BY <1>3, <1>4

LEMMA FreshUnplaced ==
  ASSUME TInv, Unplaced, NEW dest \in Fresh
  PROVE  dest \notin DOMAIN map /\ dest \in Names /\ dest \in Range(Temps)
<1>1. used + 1 \in DOMAIN Temps /\ dest = Temps[used + 1] /\ dest \in Names /\ dest \in Range(Temps)
  BY FreshName DEF Fresh, TInv
<1>2. used + 1 > used
  BY SeqFacts, RegAllocAssumption DEF TInv, NameTypes
<1> QED
  BY <1>1, <1>2 DEF Unplaced

LEMMA FreshSeparate ==
  ASSUME TInv, Separate, NEW dest \in Fresh, Alloc(dest), nextSpill' = 0,
         used' = used + 1, usable' \subseteq usable \cup {dest}
  PROVE  Separate'
<1>1. dest \notin DOMAIN map /\ dest \in Names /\ dest \in Range(Temps)
  BY FreshUnplaced DEF Separate
<1>2. Lasting \in SUBSET (DOMAIN map) /\ Apart(map, Lasting) /\ MapTypes /\ Counted
  BY DEF Lasting, Separate, TInv
<1>3. Counted' /\ Apart(map', Lasting \cup {dest})
  BY <1>1, <1>2, AllocApart
<1>4. DOMAIN map' = DOMAIN map \cup {dest}
  BY <1>1, AllocTypes DEF TInv
<1>5. Lasting' \subseteq Lasting \cup {dest}
  BY <1>4 DEF Lasting
<1>6. Unplaced'
  <2> SUFFICES ASSUME NEW i \in DOMAIN Temps, i > used' PROVE Temps[i] \notin DOMAIN map'
    BY DEF Unplaced
  <2>1. used \in Nat /\ i \in Nat /\ used + 1 \in DOMAIN Temps /\ dest = Temps[used + 1]
    BY SeqFacts, RegAllocAssumption DEF TInv, NameTypes, Fresh
  <2>2. i > used /\ i # used + 1
    BY <2>1
  <2>3. Temps[i] # dest
    BY <2>1, <2>2, RegAllocAssumption DEF IsInjective
  <2> QED
    BY <1>4, <2>2, <2>3 DEF Separate, Unplaced
<1> QED
  BY <1>3, <1>5, <1>6 DEF Separate, Apart

LEMMA VarsUnnumbered ==
  \A v \in Vars \cup Range(Params) : v \notin Range(Temps) /\ v \in Names
  BY RegAllocAssumption DEF Names

LEMMA LetSeparate ==
  ASSUME TInv, Separate, NEW v \in Vars \cup Range(Params), Alloc(v), nextSpill' = 0,
         used' = used, usable' = usable \cup {v}
  PROVE  Separate'
<1>1. v \notin Range(Temps) /\ v \in Names
  BY VarsUnnumbered
<1>2. /\ Lasting \in SUBSET (DOMAIN map) /\ Apart(map, Lasting) /\ MapTypes /\ Counted
      /\ v \in DOMAIN map => v \in Lasting
  BY <1>1 DEF Lasting, Separate, TInv
<1>3. Counted' /\ Apart(map', Lasting \cup {v})
  BY <1>1, <1>2, AllocApart
<1>4. DOMAIN map' = DOMAIN map \cup {v}
  BY <1>1, AllocTypes DEF TInv
<1>5. Lasting' \subseteq Lasting \cup {v}
  BY <1>4 DEF Lasting
<1>6. Unplaced'
  BY <1>1, <1>4 DEF Separate, Unplaced, Range
<1> QED
  BY <1>3, <1>5, <1>6 DEF Separate, Apart

(* An assignment passes the place of its source on.                         *)
LEMMA StoreSeparate ==
  ASSUME TInv, Separate, nextSpill = 0, NEW v \in usable \ Numbered, NEW a \in Numbered,
         Bind(v, Get(map, a)), usable' = usable \ {a}, used' = used
  PROVE  Separate'
<1>1. /\ v \in Names /\ v \in DOMAIN map /\ v \notin Range(Temps)
      /\ a \in DOMAIN map /\ a \in usable /\ a \in Range(Temps)
  BY DEF TInv, NameTypes, MapTypes, Numbered
<1>2. ~Spilled(map[a])
  BY <1>1, MapAll, RegsStay DEF TInv
<1>3. /\ DOMAIN map' = DOMAIN map /\ map'[v] = map[a] /\ nextReg' = nextReg
      /\ \A n \in DOMAIN map : n # v => map'[n] = map[n]
  BY <1>1, <1>2, BindTypes DEF TInv, Bind
<1>4. Counted'
  BY <1>1, <1>3 DEF Counted, Separate
<1>5. Unplaced'
  BY <1>3 DEF Unplaced, Separate
<1>6. Lasting' \subseteq Lasting \ {a} /\ a \in Lasting
  BY <1>1, <1>3 DEF Lasting
<1>7. Apart(map', Lasting')
  BY <1>1, <1>3, <1>6 DEF Apart, Separate, Lasting
<1> QED
  BY <1>4, <1>5, <1>7 DEF Separate

LEMMA StillSeparate ==
  ASSUME SInv, UNCHANGED <<alloc, used>>, usable' \subseteq usable
  PROVE  SInv'
<1>1. map' = map /\ nextReg' = nextReg /\ nextSpill' = nextSpill /\ used' = used
  BY DEF alloc
<1>2. Lasting' \subseteq Lasting
  BY <1>1 DEF Lasting
<1> QED
  BY <1>1, <1>2 DEF SInv, Separate, Counted, Unplaced, Apart

LEMMA OpSeparate ==
  ASSUME TInv, SInv, NEW op, NEW args, EmitOp(op, args)
  PROVE  SInv'
<1>1. PICK dest \in Fresh :
         /\ Alloc(dest) /\ used' = used + 1
         /\ usable' = (IF op \in Calls /\ ~UsesAcrossCalls THEN {} ELSE usable) \cup {dest}
  BY DEF EmitOp, Defines
<1>2. nextSpill' = 0 => nextSpill = 0
  BY <1>1 DEF Alloc, TInv, MapTypes
<1> QED
  BY <1>1, <1>2, FreshSeparate DEF SInv

LEMMA SeparateStep == TInv /\ SInv /\ [Next]_vars => SInv'
<1> SUFFICES ASSUME TInv, SInv, [Next]_vars PROVE SInv'
  OBVIOUS
<1>1. CASE EmitConst \/ EmitBinary \/ EmitUnary
  BY <1>1, OpSeparate DEF EmitConst, EmitBinary, EmitUnary
<1>2. CASE EmitLoad
  <2>1. PICK dest \in Fresh : Alloc(dest) /\ used' = used + 1 /\ usable' = usable \cup {dest}
    BY <1>2 DEF EmitLoad, Defines
  <2>2. nextSpill' = 0 => nextSpill = 0
    BY <2>1 DEF Alloc, TInv, MapTypes
  <2> QED
    BY <2>1, <2>2, FreshSeparate DEF SInv
<1>3. CASE EmitLet
  <2>1. PICK v \in Vars \cup Range(Params) :
           Alloc(v) /\ used' = used /\ usable' = usable \cup {v}
    BY <1>3 DEF EmitLet, Defines
  <2>2. nextSpill' = 0 => nextSpill = 0
    BY <2>1 DEF Alloc, TInv, MapTypes
  <2> QED
    BY <2>1, <2>2, LetSeparate DEF SInv
<1>4. CASE EmitStore
  <2>1. PICK v \in usable \ Numbered, a \in Numbered :
           Bind(v, Get(map, a)) /\ usable' = usable \ {a} /\ used' = used
    BY <1>4 DEF EmitStore
  <2>2. nextSpill' = nextSpill
    BY <2>1 DEF Bind
  <2> QED
    BY <2>1, <2>2, StoreSeparate DEF SInv
<1>5. CASE EmitIf \/ EmitLoop \/ EmitReturn \/ CloseRegion
  <2>1. UNCHANGED <<alloc, used>> /\ usable' \subseteq usable
    BY <1>5 DEF EmitIf, EmitLoop, OpenRegion, EmitReturn, CloseRegion
  <2> QED
    BY <2>1, StillSeparate
<1>6. CASE ExecNext
  <2>1. UNCHANGED <<alloc, used>> /\ usable' \subseteq usable
    BY <1>6 DEF ExecNext, ExecOp, ExecLoad, ExecStore, ExecIf, ExecLoop, ExecEnd, ExecBack,
                ExecReturn, Writes, Machine
  <2> QED
    BY <2>1, StillSeparate
<1>7. CASE UNCHANGED vars
  BY <1>7, StillSeparate DEF vars, alloc
<1> QED
  BY <1>1, <1>2, <1>3, <1>4, <1>5, <1>6, <1>7 DEF Next, EmitNext

LEMMA InitSeparate == ASSUME Len(Params) <= NumArgs, Init PROVE SInv
<1>1. Bound = DOMAIN Params
  BY ParamPlaces, RegAllocAssumption DEF Bound
<1>2. map = [p \in Range(Params) |-> Arg(ParamIndex(p))]
  BY <1>1 DEF Init, Range
<1>3. \A p \in Range(Params) : ParamIndex(p) \in Nat
  BY ParamPlaces
<1>4. Counted
  BY <1>2, <1>3, Locations DEF Counted
<1>5. Unplaced
  BY <1>2, RegAllocAssumption DEF Unplaced, Range
<1>6. Apart(map, DOMAIN map)
  BY <1>2, <1>3, Locations, ParamPlaces DEF Apart
<1> QED
  BY <1>4, <1>5, <1>6 DEF SInv, Separate, Apart, Lasting

(* Two names that may still be read never share a register, in any function *)
(* that has not run out of registers yet (alloc, bind): each name allocated *)
(* gets a register of its own, and an assignment takes over the register of *)
(* a source nothing else reads.                                             *)
THEOREM NothingShared ==
  ASSUME Len(Params) <= NumArgs
  PROVE  Spec => [](nextSpill = 0 => NoSharing)
<1>1. Init => TInv /\ SInv
  BY InitTypes, InitSeparate
<1>2. TInv /\ SInv /\ [Next]_vars => TInv' /\ SInv'
  BY TypesStep, SeparateStep
<1>3. TInv /\ SInv => (nextSpill = 0 => NoSharing)
  <2>1. TInv => usable \subseteq DOMAIN map
    BY DEF TInv, NameTypes
  <2> QED
    BY <2>1 DEF SInv, Separate, Apart, Lasting, NoSharing
<1> QED
  BY <1>1, <1>2, <1>3, PTL DEF Spec

-----------------------------------------------------------------------------
(* Where every name is, at every instruction, once there is code: place[k]  *)
(* gives the registers of the names that may be read before the k-th        *)
(* instruction.  It is what map said when that instruction was emitted, cut *)
(* down at the end of a region to what is known behind it.                  *)

Within(q, p) == \A n \in DOMAIN q : n \in DOMAIN p /\ q[n] = p[n]

(* The operands are read from where they are.                               *)
Reads(c, p) == \A i \in DOMAIN c.args : c.args[i] \in DOMAIN p /\ c.from[i] = p[c.args[i]]

(* What q says after c is what c writes or what p said before, untouched.   *)
Written(c, n, loc) == c.op \in Writers /\ n = c.dest /\ loc = c.to
Moved(c, n, loc) == c.op = "store" /\ n = c.dest /\ loc = c.from[1]
Untouched(c, n, loc) ==
    /\ c.op \in Writers => n # c.dest /\ loc # c.to /\ c.op \notin Calls
    /\ c.op = "store" => n # c.dest

Leaves(c, p, q) ==
    \A n \in DOMAIN q : \/ Written(c, n, q[n]) \/ Moved(c, n, q[n])
                        \/ n \in DOMAIN p /\ q[n] = p[n] /\ Untouched(c, n, q[n])

InRegs(c) ==
    c.op # "wrap" /\ c.to \in Regs \cup {Nowhere} /\ (c.op \in Writers => c.to \in Regs)

Passes(c, p, q) == InRegs(c) /\ Reads(c, p) /\ Leaves(c, p, q)

Here == [n \in usable |-> map[n]]
Outer == [n \in usable \ region.inner |-> map[n]]

(* Where the region begins and ends.                                        *)
Shape ==
    \A k \in 1..Len(code) :
        /\ code[k].op \in {"if", "loop"} =>
               region.state # "none" /\ k = region.first /\ code[k].op = region.kind
        /\ code[k].op = "end" => region.state = "closed" /\ k = region.last

(* An if may skip its region, a loop may start again.                       *)
Fits(inside, entry) == Within(inside, entry) /\ (region.kind = "loop" => Within(entry, inside))

Around(place) ==
    /\ region.state = "open" => Fits(Outer, place[region.first])
    /\ region.state = "closed" =>
           region.last \in 1..Len(code) /\ Fits(place[region.last], place[region.first])

Placed(p) == \A n \in DOMAIN p : n \in Names /\ p[n] \in Regs

Flows(place) ==
    /\ \A k \in 1..(Len(code) + 1) : Placed(place[k])
    /\ \A k \in 1..Len(code) : Passes(code[k], place[k], place[k + 1])

Holds(p) == \A n \in DOMAIN p : regs[p[n]] = env[n]

At == IF pc = 0 THEN 1 ELSE pc

Annotated(place) ==
    /\ Shape /\ Around(place) /\ Flows(place)
    /\ pc = 0 => place[Len(code) + 1] = Here
    /\ pc # 0 => region.state # "open"
    /\ Holds(place[At]) /\ ~wrong

AInv == nextSpill = 0 => \E place : Annotated(place)

(* The annotation of the code with one instruction more.                    *)
Extended(place, before, after) ==
    [k \in 1..((Len(code) + 1) + 1) |->
        IF k = (Len(code) + 1) + 1 THEN after ELSE IF k = Len(code) + 1 THEN before ELSE place[k]]

LEMMA ExtendedFacts ==
  ASSUME CodeTypes, NEW place, NEW before, NEW after, NEW q, q = Extended(place, before, after)
  PROVE  /\ q[Len(code) + 1] = before /\ q[(Len(code) + 1) + 1] = after
         /\ \A k \in 1..Len(code) : q[k] = place[k] /\ (k + 1 # Len(code) + 1 => q[k + 1] = place[k + 1])
<1>1. Len(code) \in Nat
  BY CodeLen
<1> DEFINE l == Len(code)
<1>2. q = [k \in 1..((l + 1) + 1) |->
             IF k = (l + 1) + 1 THEN after ELSE IF k = l + 1 THEN before ELSE place[k]]
  BY DEF Extended
<1> HIDE DEF l
<1>3. l \in Nat
  BY <1>1 DEF l
<1>4. /\ q[l + 1] = before /\ q[(l + 1) + 1] = after
      /\ \A k \in 1..l : q[k] = place[k] /\ (k + 1 # l + 1 => q[k + 1] = place[k + 1])
  BY ONLY <1>2, <1>3, SMT
<1> QED
  BY <1>4 DEF l

LEMMA LeavesLess ==
  ASSUME NEW c, NEW p, NEW q, NEW r, Leaves(c, p, q), Within(r, q)
  PROVE  Leaves(c, p, r)
  BY DEF Leaves, Within

(* One more instruction.                                                    *)
LEMMA FlowsOn ==
  ASSUME CodeTypes, NEW place, Flows(place), NEW c, code' = Append(code, c),
         DOMAIN code' = 1..(Len(code) + 1), Len(code') = Len(code) + 1,
         c = code'[Len(code) + 1], \A k \in 1..Len(code) : code'[k] = code[k],
         NEW before, NEW after, Within(before, place[Len(code) + 1]), Placed(before),
         Placed(after), Passes(c, before, after), NEW q, q = Extended(place, before, after)
  PROVE  Flows(q)'
<1>1. Len(code) \in Nat
  BY CodeLen
<1>2. /\ q[Len(code) + 1] = before /\ q[(Len(code) + 1) + 1] = after
      /\ \A k \in 1..Len(code) : q[k] = place[k] /\ (k + 1 # Len(code) + 1 => q[k + 1] = place[k + 1])
  BY ExtendedFacts
<1> DEFINE l == Len(code)
<1>3. \A k \in 1..((l + 1) + 1) : k \in 1..l \/ k = l + 1 \/ k = (l + 1) + 1
  BY <1>1
<1>4. \A k \in 1..l : k \in 1..(l + 1)
  BY <1>1
<1>5. \A k \in 1..(l + 1) : k \in 1..l \/ k = l + 1
  BY <1>1
<1>6. \A k \in 1..((l + 1) + 1) : Placed(q[k])
  BY <1>2, <1>3, <1>4, Zenon DEF Flows
<1>7. ASSUME NEW k \in 1..l PROVE Passes(code'[k], q[k], q[k + 1])
  <2>1. Passes(code[k], place[k], place[k + 1]) /\ code'[k] = code[k] /\ q[k] = place[k]
    BY <1>2 DEF Flows
  <2>2. CASE k + 1 # l + 1
    BY <1>2, <2>1, <2>2
  <2>3. CASE k + 1 = l + 1
    <3>1. q[k + 1] = before /\ Within(before, place[k + 1])
      BY <1>2, <2>3
    <3> QED
      BY <2>1, <3>1, LeavesLess DEF Passes
  <2> QED
    BY <2>2, <2>3
<1>8. Passes(code'[l + 1], q[l + 1], q[(l + 1) + 1])
  BY <1>2
<1>9. \A k \in 1..(l + 1) : Passes(code'[k], q[k], q[k + 1])
  BY <1>5, <1>7, <1>8, Zenon
<1>10. Len(code') = l + 1
  OBVIOUS
<1> HIDE DEF l
<1> QED
  BY <1>6, <1>9, <1>10 DEF Flows

LEMMA HerePlaced == ASSUME TInv, nextSpill = 0 PROVE Placed(Here)
  BY MapAll DEF TInv, NameTypes, MapTypes, Placed, Here

LEMMA HerePlacedNext == ASSUME TInv', nextSpill' = 0 PROVE Placed(Here')
  BY MapAllNext DEF TInv, NameTypes, MapTypes, Placed, Here

LEMMA WithinSelf == ASSUME NEW p PROVE Within(p, p)
  BY DEF Within

LEMMA CodeAppended ==
  ASSUME TInv, NEW c, c \in Instr, code' = Append(code, c)
  PROVE  /\ DOMAIN code' = 1..(Len(code) + 1) /\ Len(code') = Len(code) + 1
         /\ code'[Len(code) + 1] = c
         /\ \A k \in 1..Len(code) : code'[k] = code[k]
  BY AppendFacts DEF TInv, CodeTypes

(* An instruction is emitted: the annotation goes on, if the instruction    *)
(* leads from what holds before it to where the names are then.             *)
LEMMA Annotate ==
  ASSUME TInv, TInv', nextSpill' = 0, NEW place, Annotated(place), pc = 0,
         NEW c \in Instr, code' = Append(code, c), UNCHANGED <<regs, env, wrong>>,
         NEW before, Within(before, Here), Placed(before), Passes(c, before, Here'),
         pc' \in {0, 1}, pc' = 1 => region'.state # "open",
         NEW q, q = Extended(place, before, Here'), Shape', Around(q)'
  PROVE  Annotated(q)'
<1>1. /\ DOMAIN code' = 1..(Len(code) + 1) /\ Len(code') = Len(code) + 1
      /\ code'[Len(code) + 1] = c /\ \A k \in 1..Len(code) : code'[k] = code[k]
  BY CodeAppended
<1>2. CodeTypes /\ Len(code) \in Nat /\ Flows(place) /\ place[Len(code) + 1] = Here
  BY CodeLen DEF TInv, Annotated
<1>3. Flows(q)'
  BY <1>1, <1>2, HerePlacedNext, FlowsOn
<1>4. /\ q[Len(code) + 1] = before /\ q[(Len(code) + 1) + 1] = Here'
      /\ \A k \in 1..Len(code) : q[k] = place[k]
  BY <1>2, ExtendedFacts
<1>5. pc' = 0 => q[Len(code') + 1] = Here'
  BY <1>1, <1>4
<1>6. pc' # 0 => region'.state # "open"
  OBVIOUS
<1>7. Holds(q[1])'
  <2>1. Within(q[1], place[1])
    <3>1. CASE 1 \in 1..Len(code)
      BY <1>4, <3>1, WithinSelf
    <3>2. CASE Len(code) = 0
      BY <1>2, <1>4, <3>2
    <3> QED
      BY <1>2, <3>1, <3>2
  <2>2. Holds(place[1])
    BY DEF Annotated, At
  <2> QED
    BY <2>1, <2>2 DEF Holds, Within
<1>8. At' = 1 /\ ~wrong'
  BY DEF At, Annotated
<1> QED
  BY <1>3, <1>5, <1>6, <1>7, <1>8 DEF Annotated

LEMMA ShapeOn ==
  ASSUME TInv, Shape, NEW c \in Instr, code' = Append(code, c),
         region.state # "none" => /\ region'.kind = region.kind /\ region'.first = region.first
                                  /\ region'.last = region.last
                                  /\ region'.state = region.state \/ region.state = "open",
         region.state # "none" => region'.state # "none",
         c.op \in {"if", "loop"} => /\ region'.state # "none" /\ region'.first = Len(code) + 1
                                    /\ region'.kind = c.op,
         c.op = "end" => region'.state = "closed" /\ region'.last = Len(code) + 1
  PROVE  Shape'
<1>1. /\ Len(code') = Len(code) + 1 /\ code'[Len(code) + 1] = c
      /\ \A k \in 1..Len(code) : code'[k] = code[k]
  BY CodeAppended
<1>2. Len(code) \in Nat
  BY CodeLen DEF TInv
<1>3. \A k \in 1..(Len(code) + 1) : k \in 1..Len(code) \/ k = Len(code) + 1
  BY <1>2
<1> SUFFICES ASSUME NEW k \in 1..(Len(code) + 1)
             PROVE  /\ code'[k].op \in {"if", "loop"} =>
                         /\ region'.state # "none" /\ k = region'.first
                         /\ code'[k].op = region'.kind
                    /\ code'[k].op = "end" => region'.state = "closed" /\ k = region'.last
  BY <1>1 DEF Shape
<1>4. CASE k = Len(code) + 1
  BY <1>1, <1>4
<1>5. CASE k \in 1..Len(code)
  <2>1. /\ code[k].op \in {"if", "loop"} =>
               region.state # "none" /\ k = region.first /\ code[k].op = region.kind
        /\ code[k].op = "end" => region.state = "closed" /\ k = region.last
    BY <1>5 DEF Shape
  <2> QED
    BY <1>1, <1>5, <2>1
<1> QED
  BY <1>3, <1>4, <1>5

LEMMA AroundOn ==
  ASSUME TInv, NEW place, Around(place), CodeTypes', Len(code') = Len(code) + 1,
         NEW before, NEW after, NEW q, q = Extended(place, before, after),
         region'.state = region.state, region'.kind = region.kind,
         region'.first = region.first, region'.last = region.last,
         region.state = "open" =>
            Within(Outer', Outer) /\ (region.kind = "loop" => Within(Outer, Outer'))
  PROVE  Around(q)'
<1>1. \A k \in 1..Len(code) : q[k] = place[k]
  BY ExtendedFacts DEF TInv
<1>2. Len(code) \in Nat
  BY CodeLen DEF TInv
<1>3. CASE region.state = "open"
  <2>1. region.first \in 1..Len(code)
    BY <1>3 DEF TInv, RegionTypes
  <2>2. q[region'.first] = place[region.first] /\ Fits(Outer, place[region.first])
    BY <1>1, <1>3, <2>1 DEF Around
  <2>3. Within(Outer', place[region.first])
    BY <1>3, <2>2 DEF Fits, Within
  <2>4. region.kind = "loop" => Within(place[region.first], Outer')
    BY <1>3, <2>2 DEF Fits, Within
  <2> QED
    BY <1>3, <2>2, <2>3, <2>4 DEF Around, Fits
<1>4. CASE region.state = "closed"
  <2>1. region.first \in 1..Len(code) /\ region.last \in 1..Len(code)
        /\ Fits(place[region.last], place[region.first])
    BY <1>4 DEF TInv, RegionTypes, Around
  <2>2. q[region'.first] = place[region.first] /\ q[region'.last] = place[region.last]
    BY <1>1, <2>1
  <2>3. region'.last \in 1..Len(code')
    BY <1>2, <2>1
  <2> QED
    BY <1>4, <2>1, <2>2, <2>3 DEF Around, Fits
<1>5. CASE region.state = "none"
  BY <1>5 DEF Around
<1> QED
  BY <1>3, <1>4, <1>5 DEF TInv, RegionTypes

LEMMA OuterOn ==
  ASSUME TInv, NEW name \in Names, NEW still \in SUBSET usable, Defines(name, still),
         InRegion, \A n \in DOMAIN map : map'[n] = map[n]
  PROVE  Within(Outer', Outer) /\ (still = usable => Within(Outer, Outer'))
<1>1. usable' = still \cup {name} /\ usable \subseteq DOMAIN map
  BY DefinesRegion DEF TInv, NameTypes
<1>2. CASE name \in usable
  <2>1. region'.inner = region.inner
    BY <1>2 DEF Defines
  <2> QED
    BY <1>1, <1>2, <2>1 DEF Outer, Within
<1>3. CASE name \notin usable
  <2>1. region'.inner = region.inner \cup {name}
    BY <1>3 DEF Defines, TInv, RegionTypes
  <2> QED
    BY <1>1, <1>3, <2>1 DEF Outer, Within
<1> QED
  BY <1>2, <1>3

(* The registers an instruction is given are those of its operands.         *)
LEMMA NewReads ==
  ASSUME TInv, MapTypes', NEW op, NEW dest, NEW args,
         \A i \in DOMAIN args : args[i] \in usable /\ args[i] \in DOMAIN map'
                                /\ map'[args[i]] = map[args[i]]
  PROVE  Reads(New(op, dest, args), Here)
  BY GetLoc DEF Reads, New, Here

(* What an instruction that writes the place of its destination leaves of   *)
(* the others: no other name is there.                                      *)
LEMMA WriterPasses ==
  ASSUME TInv, TInv', SInv', nextSpill' = 0, NEW op \in Writers \ {"wrap"}, NEW dest \in Names,
         NEW args, \A i \in DOMAIN args : args[i] \in usable,
         Alloc(dest), usable' \subseteq usable \cup {dest}, dest \in usable',
         op \in Calls => usable' = {dest}
  PROVE  Passes(New(op, dest, args), Here, Here')
<1>1. /\ DOMAIN map' = DOMAIN map \cup {dest} /\ usable \subseteq DOMAIN map
      /\ \A n \in DOMAIN map : map'[n] = map[n]
  BY AllocTypes DEF TInv, NameTypes
<1> DEFINE c == New(op, dest, args)
<1>2. /\ c.op = op /\ c.dest = dest /\ c.args = args /\ c.to = map'[dest]
  BY <1>1 DEF New
<1>3. Reads(c, Here)
  BY <1>1, NewReads DEF TInv
<1> HIDE DEF c
<1>4. InRegs(c)
  BY <1>1, <1>2, MapAllNext DEF InRegs, TInv
<1>5. op # "store"
  BY DEF Writers, AllOps
<1>6. ASSUME NEW n \in usable'
      PROVE  \/ Written(c, n, map'[n])
             \/ n \in usable /\ map'[n] = map[n] /\ Untouched(c, n, map'[n])
  <2>1. CASE n = dest
    BY <1>2, <2>1 DEF Written
  <2>2. CASE n # dest
    <3>1. op \notin Calls /\ n \in usable /\ map'[n] = map[n]
      BY <1>1, <2>2
    <3>2. map'[n] # map'[dest]
      <4>1. n \in Lasting' /\ dest \in Lasting' /\ Apart(map', Lasting')
        BY <1>1, <3>1 DEF Lasting, SInv, Separate
      <4> QED
        BY <2>2, <4>1 DEF Apart
    <3> QED
      BY <1>2, <1>5, <2>2, <3>1, <3>2 DEF Untouched
  <2> QED
    BY <2>1, <2>2
<1>7. Leaves(c, Here, Here')
  BY <1>6 DEF Leaves, Here
<1> QED
  BY <1>3, <1>4, <1>7 DEF Passes, c

LEMMA WriterAnnotates ==
  ASSUME TInv, TInv', SInv', nextSpill' = 0, NEW place, Annotated(place),
         NEW op \in Writers \ {"wrap"}, NEW dest \in Names,
         NEW args \in Seq(Names), \A i \in DOMAIN args : args[i] \in usable,
         Alloc(dest), Emit(op, dest, args), UNCHANGED machine,
         NEW still \in SUBSET usable, Defines(dest, still), op \in Calls => still = {},
         InRegion /\ region.kind = "loop" => still = usable
  PROVE  \E q : Annotated(q)'
<1> DEFINE c == New(op, dest, args)
<1> PICK q : q = Extended(place, Here, Here')
  OBVIOUS
<1>1. pc = 0 /\ code' = Append(code, c)
  BY DEF Emit, Emitting, New
<1>2. op \in Opcodes /\ op \notin {"if", "loop", "end"}
  BY DEF Opcodes, Writers, AllOps
<1>3. /\ DOMAIN map' = DOMAIN map \cup {dest}
      /\ \A n \in DOMAIN map : map'[n] = map[n]
  BY AllocTypes DEF TInv
<1>4. c \in Instr
  BY <1>2, <1>3, NewInstr DEF TInv
<1>5. usable' = still \cup {dest}
  BY DEF Defines
<1>6. Passes(c, Here, Here')
  BY <1>5, WriterPasses
<1>7. nextSpill = 0
  BY DEF Alloc, TInv, MapTypes
<1>8. Within(Here, Here) /\ Placed(Here)
  BY <1>7, HerePlaced, WithinSelf
<1>9. /\ region'.state = region.state /\ region'.kind = region.kind
      /\ region'.first = region.first /\ region'.last = region.last
  BY DefinesRegion DEF TInv, RegionTypes
<1>10. c.op \notin {"if", "loop", "end"}
  BY <1>2 DEF New
<1>11. UNCHANGED <<regs, env, wrong>> /\ pc' = 0
  BY <1>1 DEF machine
<1> HIDE DEF c
<1>12. Shape'
  BY <1>1, <1>4, <1>9, <1>10, ShapeOn DEF Annotated
<1>13. Len(code') = Len(code) + 1 /\ CodeTypes'
  BY <1>1, <1>4, CodeAppended DEF TInv
<1>14. region.state = "open" =>
          Within(Outer', Outer) /\ (region.kind = "loop" => Within(Outer, Outer'))
  BY <1>3, OuterOn DEF InRegion
<1>15. Around(place)
  BY DEF Annotated
<1>16. Around(q)'
  BY <1>9, <1>13, <1>14, <1>15, AroundOn
<1>17. Annotated(q)'
  BY <1>1, <1>4, <1>6, <1>8, <1>11, <1>12, <1>15, <1>16, Annotate
<1> QED
  BY <1>17

(* An assignment leaves the variable where its source is.                   *)
LEMMA StorePasses ==
  ASSUME TInv, TInv', nextSpill = 0, nextSpill' = 0,
         NEW v \in usable \ Numbered, NEW a \in Numbered,
         Bind(v, Get(map, a)), usable' = usable \ {a}
  PROVE  Passes(New("store", v, <<a>>), Here, Here')
<1>1. v \in Names /\ v \in DOMAIN map /\ a \in DOMAIN map /\ a \in usable /\ a # v
  BY DEF TInv, NameTypes, MapTypes, Numbered
<1>2. ~Spilled(map[a])
  BY <1>1, MapAll, RegsStay DEF TInv
<1>3. /\ DOMAIN map' = DOMAIN map /\ map'[v] = map[a]
      /\ \A n \in DOMAIN map : n # v => map'[n] = map[n]
  BY <1>1, <1>2, BindTypes DEF TInv
<1> DEFINE args == <<a>>
<1>4. DOMAIN args = {1} /\ args[1] = a
  OBVIOUS
<1> HIDE DEF args
<1> DEFINE c == New("store", v, args)
<1>5. c.op = "store" /\ c.dest = v /\ c.to = map'[v] /\ c.from[1] = map'[a]
  BY <1>1, <1>3, <1>4 DEF New, Get
<1>6. Reads(c, Here)
  BY <1>1, <1>3, <1>4, NewReads DEF TInv
<1> HIDE DEF c
<1>7. "store" \notin Writers
  BY DEF Writers, AllOps
<1>8. InRegs(c)
  BY <1>1, <1>3, <1>5, <1>7, MapAllNext DEF InRegs, TInv
<1>9. ASSUME NEW n \in usable'
      PROVE  \/ Moved(c, n, map'[n])
             \/ n \in usable /\ map'[n] = map[n] /\ Untouched(c, n, map'[n])
  <2>1. n \in usable /\ n \in DOMAIN map
    BY DEF TInv, NameTypes
  <2>2. CASE n = v
    BY <1>1, <1>3, <1>5, <2>2 DEF Moved
  <2>3. CASE n # v
    BY <1>3, <1>5, <1>7, <2>1, <2>3 DEF Untouched
  <2> QED
    BY <2>2, <2>3
<1>10. Leaves(c, Here, Here')
  BY <1>9 DEF Leaves, Here
<1>11. Passes(c, Here, Here')
  BY <1>6, <1>8, <1>10 DEF Passes
<1> QED
  BY <1>11 DEF c, args

LEMMA StoreAnnotates ==
  ASSUME TInv, TInv', nextSpill' = 0, NEW place, Annotated(place),
         ~StoresInRegions, EmitStore
  PROVE  \E q : Annotated(q)'
<1>1. PICK v \in usable \ Numbered, a \in Numbered :
         /\ Bind(v, Get(map, a)) /\ Emit("store", v, <<a>>) /\ usable' = usable \ {a}
         /\ UNCHANGED <<used, region, machine>> /\ ~InRegion
  BY DEF EmitStore
<1> DEFINE c == New("store", v, <<a>>)
<1> PICK q : q = Extended(place, Here, Here')
  OBVIOUS
<1>2. pc = 0 /\ code' = Append(code, c)
  BY <1>1 DEF Emit, Emitting, New
<1>3. nextSpill = 0 /\ v \in Names
  BY <1>1, NumberedNames DEF Bind
<1>4. <<a>> \in Seq(Names) /\ "store" \in Opcodes /\ "store" \notin Writers
  BY NumberedNames DEF Opcodes, Writers, AllOps
<1>5. c \in Instr
  BY <1>3, <1>4, NewInstr DEF TInv
<1>6. Passes(c, Here, Here')
  BY <1>1, <1>3, StorePasses
<1>7. Within(Here, Here) /\ Placed(Here)
  BY <1>3, HerePlaced, WithinSelf
<1>8. c.op \notin {"if", "loop", "end"}
  BY DEF New
<1>9. UNCHANGED <<regs, env, wrong>> /\ pc' = 0 /\ UNCHANGED region /\ region.state # "open"
  BY <1>1, <1>2 DEF machine, InRegion
<1> HIDE DEF c
<1>10. Shape'
  BY <1>2, <1>5, <1>8, <1>9, ShapeOn DEF Annotated
<1>11. Len(code') = Len(code) + 1 /\ CodeTypes'
  BY <1>2, <1>5, CodeAppended DEF TInv
<1>12. Around(place)
  BY DEF Annotated
<1>13. Around(q)'
  BY <1>9, <1>11, <1>12, AroundOn
<1>14. Annotated(q)'
  BY <1>2, <1>5, <1>6, <1>7, <1>9, <1>10, <1>13, Annotate
<1> QED
  BY <1>14

(* An instruction that writes nothing leaves everything where it is.        *)
LEMMA QuietPasses ==
  ASSUME TInv, TInv', nextSpill' = 0, UNCHANGED map, NEW op \in {"if", "loop", "end", "return"},
         NEW args, NEW p, NEW q, Within(q, p), Reads(New(op, "none", args), p)
  PROVE  Passes(New(op, "none", args), p, q)
<1> DEFINE c == New(op, "none", args)
<1>1. c.op = op /\ op \notin Writers /\ op # "store" /\ op # "wrap"
  BY DEF New, Writers, AllOps
<1>2. c.to \in Regs \cup {Nowhere}
  BY MapAllNext DEF New, TInv
<1> HIDE DEF c
<1>3. InRegs(c)
  BY <1>1, <1>2 DEF InRegs
<1>4. Leaves(c, p, q)
  BY <1>1 DEF Leaves, Within, Untouched
<1> QED
  BY <1>3, <1>4 DEF Passes, c

LEMMA OpenAnnotates ==
  ASSUME TInv, TInv', nextSpill' = 0, NEW place, Annotated(place),
         NEW kind \in {"if", "loop"}, NEW args \in Seq(Names),
         \A i \in DOMAIN args : args[i] \in usable, OpenRegion(kind, args)
  PROVE  \E q : Annotated(q)'
<1>1. /\ UNCHANGED <<alloc, used, usable, machine>> /\ Emit(kind, "none", args)
      /\ region' = [state |-> "open", kind |-> kind, first |-> Len(code) + 1, last |-> 0,
                    inner |-> {}]
      /\ region.state = "none"
  BY DEF OpenRegion
<1> DEFINE c == New(kind, "none", args)
<1> PICK q : q = Extended(place, Here, Here')
  OBVIOUS
<1>2. pc = 0 /\ code' = Append(code, c)
  BY <1>1 DEF Emit, Emitting, New
<1>3. map' = map /\ nextSpill = 0 /\ usable' = usable /\ usable \subseteq DOMAIN map
  BY <1>1 DEF alloc, TInv, NameTypes
<1>4. kind \in Opcodes /\ kind \notin Writers
  BY DEF Opcodes, Writers, AllOps
<1>5. c \in Instr
  BY <1>4, NewInstr DEF TInv
<1>6. Here' = Here /\ Within(Here, Here) /\ Placed(Here)
  BY <1>3, HerePlaced, WithinSelf DEF Here
<1>7. Passes(c, Here, Here')
  <2>1. Reads(c, Here)
    BY <1>3, NewReads DEF TInv
  <2>2. kind \in {"if", "loop", "end", "return"} /\ UNCHANGED map
    BY <1>3
  <2> QED
    BY <1>6, <2>1, <2>2, QuietPasses
<1>8. c.op = kind
  BY DEF New
<1>9. UNCHANGED <<regs, env, wrong>> /\ pc' = 0
  BY <1>1, <1>2 DEF machine
<1>10. /\ region'.state = "open" /\ region'.first = Len(code) + 1 /\ region'.kind = kind
       /\ region'.inner = {}
  BY <1>1
<1> HIDE DEF c
<1>11. Shape'
  BY <1>1, <1>2, <1>5, <1>8, <1>10, ShapeOn DEF Annotated
<1>12. q[Len(code) + 1] = Here
  BY ExtendedFacts DEF TInv
<1>13. Outer' = Here
  BY <1>3, <1>10 DEF Outer, Here
<1>14. Around(q)'
  BY <1>6, <1>10, <1>12, <1>13 DEF Around, Fits
<1>15. Annotated(q)'
  BY <1>2, <1>5, <1>6, <1>7, <1>9, <1>11, <1>14, Annotate
<1> QED
  BY <1>15

LEMMA CloseAnnotates ==
  ASSUME TInv, TInv', nextSpill' = 0, NEW place, Annotated(place), CloseRegion
  PROVE  \E q : Annotated(q)'
<1>1. /\ UNCHANGED <<alloc, used, machine>> /\ Emit("end", "none", <<>>)
      /\ region' = [region EXCEPT !.state = "closed", !.last = Len(code) + 1]
      /\ region.state = "open" /\ usable' = usable \ region.inner
  BY DEF CloseRegion, InRegion
<1> DEFINE c == New("end", "none", <<>>)
<1> PICK q : q = Extended(place, Outer, Here')
  OBVIOUS
<1>2. pc = 0 /\ code' = Append(code, c)
  BY <1>1 DEF Emit, Emitting, New
<1>3. map' = map /\ nextSpill = 0 /\ usable \subseteq DOMAIN map
  BY <1>1 DEF alloc, TInv, NameTypes
<1>4. "end" \in Opcodes /\ "end" \notin Writers /\ <<>> \in Seq(Names)
  BY DEF Opcodes, Writers, AllOps
<1>5. c \in Instr
  BY <1>4, NewInstr DEF TInv
<1>6. Here' = Outer /\ Within(Outer, Here) /\ Within(Here', Outer)
  BY <1>1, <1>3 DEF Here, Outer, Within
<1>7. Placed(Outer)
  BY <1>3, <1>6, HerePlaced DEF Placed, Within
<1>8. Passes(c, Outer, Here')
  <2>1. Reads(c, Outer)
    BY DEF Reads, New
  <2> QED
    BY <1>3, <1>6, <2>1, QuietPasses
<1>9. c.op = "end"
  BY DEF New
<1>10. UNCHANGED <<regs, env, wrong>> /\ pc' = 0
  BY <1>1, <1>2 DEF machine
<1>11. /\ region'.state = "closed" /\ region'.last = Len(code) + 1
       /\ region'.kind = region.kind /\ region'.first = region.first
  BY <1>1 DEF TInv, RegionTypes
<1> HIDE DEF c
<1>12. /\ Len(code') = Len(code) + 1 /\ Len(code) \in Nat
       /\ DOMAIN code' = 1..(Len(code) + 1) /\ code'[Len(code) + 1] = c
       /\ \A k \in 1..Len(code) : code'[k] = code[k]
  BY <1>2, <1>5, CodeAppended, CodeLen DEF TInv
<1>13. Shape'
  <2> SUFFICES ASSUME NEW k \in 1..(Len(code) + 1)
               PROVE  /\ code'[k].op \in {"if", "loop"} =>
                           /\ region'.state # "none" /\ k = region'.first
                           /\ code'[k].op = region'.kind
                      /\ code'[k].op = "end" => region'.state = "closed" /\ k = region'.last
    BY <1>12 DEF Shape
  <2>1. k \in 1..Len(code) \/ k = Len(code) + 1
    BY <1>12
  <2>2. CASE k = Len(code) + 1
    BY <1>9, <1>11, <1>12, <2>2
  <2>3. CASE k \in 1..Len(code)
    <3>1. /\ code[k].op \in {"if", "loop"} =>
                 region.state # "none" /\ k = region.first /\ code[k].op = region.kind
          /\ code[k].op = "end" => region.state = "closed" /\ k = region.last
      BY <2>3 DEF Annotated, Shape
    <3> QED
      BY <1>1, <1>11, <1>12, <2>3, <3>1
  <2> QED
    BY <2>1, <2>2, <2>3
<1>14. q[Len(code) + 1] = Outer /\ \A k \in 1..Len(code) : q[k] = place[k]
  BY ExtendedFacts DEF TInv
<1>15. region.first \in 1..Len(code) /\ Fits(Outer, place[region.first])
  BY <1>1 DEF TInv, RegionTypes, Annotated, Around
<1>16. Around(q)'
  <2>1. region'.last \in 1..Len(code')
    BY <1>11, <1>12
  <2> QED
    BY <1>11, <1>14, <1>15, <2>1 DEF Around, Fits
<1>17. Annotated(q)'
  BY <1>2, <1>5, <1>6, <1>7, <1>8, <1>10, <1>13, <1>16, Annotate
<1> QED
  BY <1>17

LEMMA ReturnAnnotates ==
  ASSUME TInv, TInv', nextSpill' = 0, NEW place, Annotated(place), EmitReturn
  PROVE  \E q : Annotated(q)'
<1>1. PICK args \in {<<>>} \cup {<<a>> : a \in Numbered} : Emit("return", "none", args)
  BY DEF EmitReturn
<1>2. /\ UNCHANGED <<alloc, used, usable, region, turns, regs, env, wrong>> /\ pc' = 1
      /\ region.state # "open"
  BY DEF EmitReturn, InRegion
<1>3. args \in Seq(Names) /\ \A i \in DOMAIN args : args[i] \in usable
  <2>1. CASE args = <<>>
    BY <2>1
  <2>2. ASSUME NEW a \in Numbered, args = <<a>>
        PROVE  args \in Seq(Names) /\ \A i \in DOMAIN args : args[i] \in usable
    BY <2>2, NumberedNames
  <2> QED
    BY <2>1, <2>2
<1> DEFINE c == New("return", "none", args)
<1> PICK q : q = Extended(place, Here, Here')
  OBVIOUS
<1>4. pc = 0 /\ code' = Append(code, c)
  BY <1>1 DEF Emit, Emitting, New
<1>5. map' = map /\ nextSpill = 0 /\ usable' = usable /\ usable \subseteq DOMAIN map
  BY <1>2 DEF alloc, TInv, NameTypes
<1>6. "return" \in Opcodes /\ "return" \notin Writers
  BY DEF Opcodes, Writers, AllOps
<1>7. c \in Instr
  BY <1>3, <1>6, NewInstr DEF TInv
<1>8. Here' = Here /\ Within(Here, Here) /\ Placed(Here)
  BY <1>5, HerePlaced, WithinSelf DEF Here
<1>9. Passes(c, Here, Here')
  <2>1. Reads(c, Here)
    BY <1>3, <1>5, NewReads DEF TInv
  <2> QED
    BY <1>5, <1>8, <2>1, QuietPasses
<1>10. c.op \notin {"if", "loop", "end"}
  BY DEF New
<1> HIDE DEF c
<1>11. Shape'
  BY <1>2, <1>4, <1>7, <1>10, ShapeOn DEF Annotated
<1>12. Len(code') = Len(code) + 1 /\ CodeTypes'
  BY <1>4, <1>7, CodeAppended DEF TInv
<1>13. Around(place)
  BY DEF Annotated
<1>14. Around(q)'
  BY <1>2, <1>12, <1>13, AroundOn
<1>15. Annotated(q)'
  BY <1>2, <1>4, <1>7, <1>8, <1>9, <1>11, <1>14, Annotate
<1> QED
  BY <1>15

Pure == "wrap" \notin Ops /\ ~StoresInRegions /\ ~UsesAcrossCalls

LEMMA OpAnnotates ==
  ASSUME Pure, TInv, TInv', SInv', nextSpill' = 0, NEW place, Annotated(place),
         NEW op \in Ops, NEW args \in Seq(Names), \A i \in DOMAIN args : args[i] \in usable,
         EmitOp(op, args)
  PROVE  \E q : Annotated(q)'
<1> DEFINE still == IF op \in Calls /\ ~UsesAcrossCalls THEN {} ELSE usable
<1>1. PICK dest \in Fresh :
         /\ Alloc(dest) /\ Emit(op, dest, args) /\ Defines(dest, still) /\ UNCHANGED machine
         /\ op \in Calls /\ ~UsesAcrossCalls => ~(InRegion /\ region.kind = "loop")
  BY DEF EmitOp
<1>2. dest \in Names
  BY FreshName DEF TInv
<1>3. op \in Writers \ {"wrap"}
  BY RegAllocAssumption DEF Pure, Writers
<1>4. /\ still \in SUBSET usable /\ (op \in Calls => still = {})
      /\ (InRegion /\ region.kind = "loop" => still = usable)
  BY <1>1 DEF Pure
<1> HIDE DEF still
<1> QED
  BY <1>1, <1>2, <1>3, <1>4, WriterAnnotates

LEMMA EmitAnnotates ==
  ASSUME Pure, TInv, TInv', SInv', nextSpill' = 0, NEW place, Annotated(place), EmitNext
  PROVE  \E q : Annotated(q)'
<1>0. /\ <<>> \in Seq(Names) /\ DOMAIN <<>> = {}
      /\ \A a : DOMAIN <<a>> = {1} /\ <<a>>[1] = a
      /\ \A a, b : DOMAIN <<a, b>> = {1, 2} /\ <<a, b>>[1] = a /\ <<a, b>>[2] = b
  OBVIOUS
<1>1. CASE EmitConst
  BY <1>0, <1>1, OpAnnotates DEF EmitConst
<1>2. CASE EmitBinary
  <2>1. PICK a, b \in Numbered : EmitOp("binary", <<a, b>>)
    BY <1>2 DEF EmitBinary
  <2>2. "binary" \in Ops /\ a \in usable /\ b \in usable /\ <<a, b>> \in Seq(Names)
    BY <1>2, NumberedNames DEF EmitBinary
  <2> DEFINE args == <<a, b>>
  <2>3. \A i \in DOMAIN args : args[i] \in usable
    BY <1>0, <2>2
  <2> HIDE DEF args
  <2> QED
    BY <2>1, <2>2, <2>3, OpAnnotates DEF args
<1>3. CASE EmitUnary
  <2>1. PICK op \in Ops, a \in Numbered : EmitOp(op, <<a>>)
    BY <1>3 DEF EmitUnary
  <2>2. a \in usable /\ <<a>> \in Seq(Names)
    BY NumberedNames
  <2>3. \A i \in DOMAIN <<a>> : <<a>>[i] \in usable
    BY <1>0, <2>2
  <2> QED
    BY <2>1, <2>2, <2>3, OpAnnotates
<1>4. CASE EmitLoad
  <2>1. PICK dest \in Fresh, v \in usable \ Numbered :
           /\ Alloc(dest) /\ Emit("load", dest, <<v>>)
           /\ Defines(dest, usable) /\ UNCHANGED machine
    BY <1>4 DEF EmitLoad
  <2>2. dest \in Names /\ <<v>> \in Seq(Names)
    BY FreshName, NumberedNames DEF TInv
  <2>3. \A i \in DOMAIN <<v>> : <<v>>[i] \in usable
    BY <1>0
  <2>4. "load" \in Writers \ {"wrap"} /\ "load" \notin Calls
    BY DEF Writers, AllOps, Calls
  <2> QED
    BY <2>1, <2>2, <2>3, <2>4, WriterAnnotates
<1>5. CASE EmitLet
  <2>1. PICK v \in Vars \cup Range(Params), a \in Numbered :
           /\ Alloc(v) /\ Emit("load", v, <<a>>)
           /\ Defines(v, usable) /\ UNCHANGED machine
    BY <1>5 DEF EmitLet
  <2>2. v \in Names /\ <<a>> \in Seq(Names) /\ a \in usable
    BY VarsUnnumbered, NumberedNames
  <2>3. \A i \in DOMAIN <<a>> : <<a>>[i] \in usable
    BY <1>0, <2>2
  <2>4. "load" \in Writers \ {"wrap"} /\ "load" \notin Calls
    BY DEF Writers, AllOps, Calls
  <2> QED
    BY <2>1, <2>2, <2>3, <2>4, WriterAnnotates
<1>6. CASE EmitStore
  BY <1>6, StoreAnnotates DEF Pure
<1>7. CASE EmitIf
  <2>1. PICK a \in Numbered : OpenRegion("if", <<a>>)
    BY <1>7 DEF EmitIf
  <2>2. a \in usable /\ <<a>> \in Seq(Names)
    BY NumberedNames
  <2>3. \A i \in DOMAIN <<a>> : <<a>>[i] \in usable
    BY <1>0, <2>2
  <2> QED
    BY <2>1, <2>2, <2>3, OpenAnnotates
<1>8. CASE EmitLoop
  BY <1>0, <1>8, OpenAnnotates DEF EmitLoop
<1> QED
  BY <1>1, <1>2, <1>3, <1>4, <1>5, <1>6, <1>7, <1>8, CloseAnnotates, ReturnAnnotates DEF EmitNext

-----------------------------------------------------------------------------
(* The machine finds every name where the annotation says.                  *)

LEMMA OperandFound ==
  ASSUME TInv, NEW place, Annotated(place), Executing
  PROVE  /\ Right /\ Reloaded = regs
         /\ Passes(Now, place[pc], place[pc + 1]) /\ Placed(place[pc])
         /\ Holds(place[pc]) /\ pc \in 1..Len(code)
<1>1. /\ DOMAIN Now.from = DOMAIN Now.args /\ Len(Now.args) \in Nat /\ pc \in 1..Len(code)
      /\ DOMAIN Now.args = 1..Len(Now.args)
  <2>1. Now \in Instr
    BY NowType DEF TInv
  <2>2. Now.args \in Seq(Names)
    BY <2>1 DEF Instr
  <2> QED
    BY <2>2, NowType, SeqFacts DEF TInv
<1>2. Passes(Now, place[pc], place[pc + 1])
  BY <1>1 DEF Annotated, Flows, Now
<1>3. pc # 0 /\ pc \in 1..(Len(code) + 1)
  BY <1>1, CodeLen DEF TInv
<1>4. Placed(place[pc]) /\ Holds(place[pc])
  BY <1>3 DEF Annotated, Flows, At
<1>5. \A i \in DOMAIN Now.args :
         /\ Now.from[i] \in Regs /\ Now.from[i] = place[pc][Now.args[i]]
         /\ Now.args[i] \in DOMAIN place[pc]
  BY <1>2, <1>4 DEF Passes, Reads, Placed
<1>6. ~Spilled(Now.to) /\ Now.op # "wrap"
  BY <1>2, RegsStay DEF Passes, InRegs, Nowhere, Spilled
<1>7. \A k \in 0..Len(Now.args) : ~Reloads(k)
  <2> SUFFICES ASSUME NEW k \in 0..Len(Now.args), NEW i \in 1..k PROVE ~Spilled(Now.from[i])
    BY <1>6 DEF Reloads
  <2>1. i \in DOMAIN Now.args
    BY <1>1
  <2> QED
    BY <1>5, <2>1, RegsStay
<1>8. Len(Now.args) \in 0..Len(Now.args)
  BY <1>1
<1>9. Reloaded = regs
  BY <1>7, <1>8 DEF Reloaded
<1>10. ASSUME NEW i \in DOMAIN Now.args PROVE Got(i) = env[Now.args[i]]
  <2>1. ~ReloadsSeen(i)
    <3>1. i \in 0..Len(Now.args)
      BY <1>1
    <3> QED
      BY <1>7, <1>8, <3>1 DEF ReloadsSeen
  <2>2. Got(i) = regs[Now.from[i]]
    BY <1>5, <1>6, <2>1, RegsStay DEF Got
  <2> QED
    BY <1>4, <1>5, <2>2 DEF Holds
<1> QED
  BY <1>1, <1>2, <1>4, <1>9, <1>10 DEF Right

(* The machine goes to an instruction before which the names are as the     *)
(* annotation says.                                                         *)
LEMMA Arrives ==
  ASSUME TInv, NEW place, Annotated(place), Executing, NEW next \in 1..(Len(code) + 1),
         NEW r, NEW e, Machine(next, r, e), \A n \in DOMAIN place[next] : r[place[next][n]] = e[n]
  PROVE  Annotated(place)'
<1>1. /\ pc' = next /\ regs' = r /\ env' = e /\ UNCHANGED <<alloc, used, usable, region, code>>
      /\ wrong' = (wrong \/ ~Right)
  BY DEF Machine
<1>2. ~wrong'
  BY <1>1, OperandFound DEF Annotated
<1>3. next # 0 /\ pc # 0
  BY CodeLen DEF TInv, Executing
<1>4. Holds(place[At])'
  BY <1>1, <1>3 DEF Holds, At
<1>5. Shape' /\ Around(place)' /\ Flows(place)'
  BY <1>1 DEF Annotated, Shape, Around, Flows, Outer, Fits, alloc
<1>6. region'.state # "open"
  BY <1>1, <1>3 DEF Annotated
<1> QED
  BY <1>1, <1>2, <1>3, <1>4, <1>5, <1>6 DEF Annotated

LEMMA NextPlace ==
  ASSUME TInv, Executing
  PROVE  pc + 1 \in 1..(Len(code) + 1)
  BY CodeLen DEF TInv, Executing

LEMMA WritesHold ==
  ASSUME TInv, NEW place, Annotated(place), Executing, Now.op \in Writers,
         NEW before, before \in [Regs -> Values], Now.op \notin Calls => before = regs,
         NEW value, Writes(before, value, value)
  PROVE  Annotated(place)'
<1> DEFINE q == place[pc + 1]
           r == [before EXCEPT ![Now.to] = value]
           e == [env EXCEPT ![Now.dest] = value]
<1>1. /\ Passes(Now, place[pc], q) /\ Holds(place[pc]) /\ Placed(place[pc])
      /\ pc + 1 \in 1..(Len(code) + 1)
  BY OperandFound, NextPlace
<1>2. Placed(q)
  BY <1>1 DEF Annotated, Flows
<1>3. Now.to \in Regs /\ ~Spilled(Now.to)
  BY <1>1, RegsStay DEF Passes, InRegs
<1>4. Machine(pc + 1, r, e)
  BY <1>3 DEF Writes
<1>5. env \in [Names -> Values] /\ DOMAIN before = Regs /\ DOMAIN env = Names
  BY DEF TInv, MachineTypes
<1>6. Now.op # "store"
  BY DEF Writers, AllOps
<1> HIDE DEF q
<1>7. ASSUME NEW n \in DOMAIN q PROVE r[q[n]] = e[n]
  <2>1. n \in Names /\ q[n] \in Regs
    BY <1>2 DEF Placed
  <2>2. CASE Written(Now, n, q[n])
    BY <1>3, <1>5, <2>1, <2>2 DEF Written
  <2>3. CASE n \in DOMAIN place[pc] /\ q[n] = place[pc][n] /\ Untouched(Now, n, q[n])
    <3>1. n # Now.dest /\ q[n] # Now.to /\ before = regs
      BY <2>3 DEF Untouched
    <3>2. r[q[n]] = regs[q[n]] /\ e[n] = env[n]
      BY <1>5, <2>1, <3>1
    <3> QED
      BY <1>1, <2>3, <3>2 DEF Holds
  <2> QED
    BY <1>1, <1>6, <2>2, <2>3 DEF Passes, Leaves, Moved
<1> HIDE DEF r, e
<1> QED
  BY <1>1, <1>4, <1>7, Arrives DEF q

LEMMA QuietHolds ==
  ASSUME TInv, NEW place, Annotated(place), Executing,
         Now.op \notin Writers, Now.op # "store"
  PROVE  \A n \in DOMAIN place[pc + 1] : regs[place[pc + 1][n]] = env[n]
  BY OperandFound DEF Passes, Leaves, Written, Moved, Holds

LEMMA StoreHolds ==
  ASSUME TInv, NEW place, Annotated(place), ExecStore
  PROVE  Annotated(place)'
<1>1. /\ Executing /\ Now.op = "store"
      /\ Machine(pc + 1, Reloaded, [env EXCEPT ![Now.dest] = env[Now.args[1]]])
  BY DEF ExecStore
<1> DEFINE q == place[pc + 1]
           e == [env EXCEPT ![Now.dest] = env[Now.args[1]]]
<1>2. /\ Passes(Now, place[pc], q) /\ Holds(place[pc]) /\ Reloaded = regs
      /\ pc + 1 \in 1..(Len(code) + 1)
  BY <1>1, OperandFound, NextPlace
<1>3. Placed(q)
  BY <1>2 DEF Annotated, Flows
<1>4. "store" \notin Writers
  BY DEF Writers, AllOps
<1>5. 1 \in DOMAIN Now.args
  <2>1. Now.args \in Seq(Names) /\ Len(Now.args) = 1
    BY <1>1, NowType DEF Instr, WellFormed, TInv
  <2> QED
    BY <2>1
<1>6. regs[Now.from[1]] = env[Now.args[1]]
  BY <1>2, <1>5 DEF Passes, Reads, Holds
<1>7. DOMAIN env = Names
  BY DEF TInv, MachineTypes
<1> HIDE DEF q
<1>8. ASSUME NEW n \in DOMAIN q PROVE regs[q[n]] = e[n]
  <2>1. n \in Names
    BY <1>3 DEF Placed
  <2>2. CASE Moved(Now, n, q[n])
    BY <1>6, <1>7, <2>1, <2>2 DEF Moved
  <2>3. CASE n \in DOMAIN place[pc] /\ q[n] = place[pc][n] /\ Untouched(Now, n, q[n])
    BY <1>1, <1>2, <1>7, <2>1, <2>3 DEF Untouched, Holds
  <2> QED
    BY <1>1, <1>2, <1>4, <2>2, <2>3 DEF Passes, Leaves, Written
<1>9. Machine(pc + 1, regs, e)
  BY <1>1, <1>2
<1> HIDE DEF e
<1> QED
  BY <1>1, <1>2, <1>8, <1>9, Arrives DEF q

(* What is known behind a region is where it was before; a loop finds at    *)
(* its start again what it left at its end.                                 *)
LEMMA JumpHolds ==
  ASSUME TInv, NEW place, Annotated(place), Executing
  PROVE  /\ Now.op = "if" => /\ region.last \in 1..Len(code)
                             /\ Within(place[region.last], place[pc])
         /\ Now.op = "end" /\ region.kind = "loop" =>
                             /\ region.first \in 1..Len(code)
                             /\ Within(place[region.first], place[pc])
<1>1. pc \in 1..Len(code) /\ pc # 0
  BY OperandFound, CodeLen DEF TInv
<1>2. /\ Now.op = "if" => region.state # "none" /\ pc = region.first
      /\ Now.op = "end" => region.state = "closed" /\ pc = region.last
  BY <1>1 DEF Annotated, Shape, Now
<1>3. region.state # "open" /\ Around(place)
  BY <1>1 DEF Annotated
<1>4. region.state \in {"none", "open", "closed"} /\
      (region.state = "closed" => region.first \in 1..Len(code))
  BY DEF TInv, RegionTypes
<1> QED
  BY <1>2, <1>3, <1>4 DEF Around, Fits

LEMMA ExecAnnotates ==
  ASSUME TInv, NEW place, Annotated(place), ExecNext
  PROVE  Annotated(place)'
<1>0. regs \in [Regs -> Values] /\ Reloaded \in [Regs -> Values]
  BY ReloadedType DEF TInv, MachineTypes
<1>1. CASE ExecOp
  <2> DEFINE value == Computed(pc, turns)
             before == IF Now.op \in Calls THEN [r \in Regs |-> Junk] ELSE Reloaded
  <2>1. Executing /\ Now.op \in AllOps
        /\ Writes(before, IF Right THEN value ELSE Junk, value)
    BY <1>1 DEF ExecOp
  <2>2. Right /\ Reloaded = regs
    BY <2>1, OperandFound
  <2>3. Writes(before, value, value)
    BY <2>1, <2>2
  <2>4. before \in [Regs -> Values] /\ (Now.op \notin Calls => before = regs)
    BY <1>0, <2>2, ValueTypes
  <2>5. Now.op \in Writers
    BY <2>1 DEF Writers
  <2> HIDE DEF before, value
  <2> QED
    BY <2>1, <2>3, <2>4, <2>5, WritesHold
<1>2. CASE ExecLoad
  <2>1. /\ Executing /\ Now.op = "load" /\ Writes(Reloaded, Got(1), env[Now.args[1]])
    BY <1>2 DEF ExecLoad
  <2>2. Right /\ Reloaded = regs
    BY <2>1, OperandFound
  <2>3. 1 \in DOMAIN Now.args
    <3>1. Now.args \in Seq(Names) /\ Len(Now.args) = 1
      BY <2>1, NowType DEF Instr, WellFormed, TInv
    <3> QED
      BY <3>1
  <2>4. Writes(regs, Got(1), Got(1))
    BY <2>1, <2>2, <2>3 DEF Right
  <2>5. Now.op \in Writers
    BY <2>1 DEF Writers
  <2> QED
    BY <1>0, <2>1, <2>4, <2>5, WritesHold
<1>3. CASE ExecStore
  BY <1>3, StoreHolds
<1>4. "if" \notin Writers /\ "loop" \notin Writers /\ "end" \notin Writers /\ "return" \notin Writers
  BY DEF Writers, AllOps
<1>5. CASE ExecIf
  <2>1. PICK next \in {pc + 1, region.last} : Machine(next, Reloaded, env)
    BY <1>5 DEF ExecIf
  <2>2. Executing /\ Now.op = "if"
    BY <1>5 DEF ExecIf
  <2>3. Reloaded = regs /\ Holds(place[pc])
    BY <2>2, OperandFound
  <2>4. CASE next = pc + 1
    BY <1>4, <2>1, <2>2, <2>3, <2>4, NextPlace, QuietHolds, Arrives
  <2>5. CASE next = region.last
    <3>1. next \in 1..Len(code) /\ Within(place[next], place[pc])
      BY <2>2, <2>5, JumpHolds
    <3>2. \A n \in DOMAIN place[next] : regs[place[next][n]] = env[n]
      BY <2>3, <3>1 DEF Within, Holds
    <3>3. next \in 1..(Len(code) + 1)
      BY <3>1, CodeLen DEF TInv
    <3> QED
      BY <2>1, <2>2, <2>3, <3>2, <3>3, Arrives
  <2> QED
    BY <2>4, <2>5
<1>6. CASE ExecLoop \/ ExecEnd \/ ExecReturn
  <2>1. Executing /\ Now.op \in {"loop", "end", "return"}
    BY <1>6 DEF ExecLoop, ExecEnd, ExecReturn
  <2>2. Machine(pc + 1, regs, env)
    BY <1>6, <2>1, OperandFound DEF ExecLoop, ExecEnd, ExecReturn
  <2> QED
    BY <1>4, <2>1, <2>2, NextPlace, QuietHolds, Arrives
<1>7. CASE ExecBack
  <2>1. /\ Executing /\ Now.op = "end" /\ region.kind = "loop"
        /\ Machine(region.first, regs, env)
    BY <1>7 DEF ExecBack
  <2>2. region.first \in 1..Len(code) /\ Within(place[region.first], place[pc])
    BY <2>1, JumpHolds
  <2>3. Holds(place[pc])
    BY <2>1, OperandFound
  <2>4. \A n \in DOMAIN place[region.first] : regs[place[region.first][n]] = env[n]
    BY <2>2, <2>3 DEF Within, Holds
  <2>5. region.first \in 1..(Len(code) + 1)
    BY <2>2, CodeLen DEF TInv
  <2> QED
    BY <2>1, <2>4, <2>5, Arrives
<1> QED
  BY <1>1, <1>2, <1>3, <1>5, <1>6, <1>7 DEF ExecNext

LEMMA SpillsCount == TInv /\ [Next]_vars /\ nextSpill' = 0 => nextSpill = 0
<1> SUFFICES ASSUME TInv, [Next]_vars PROVE nextSpill' >= nextSpill /\ nextSpill \in Nat
  OBVIOUS
<1>1. nextSpill \in Nat
  BY DEF TInv, MapTypes
<1>2. ASSUME NEW name, Alloc(name) PROVE nextSpill' >= nextSpill
  BY <1>1, <1>2 DEF Alloc
<1>3. CASE EmitConst \/ EmitBinary \/ EmitUnary
  <2>1. \E name : Alloc(name)
    BY <1>3 DEF EmitConst, EmitBinary, EmitUnary, EmitOp
  <2> QED
    BY <1>1, <1>2, <2>1
<1>4. CASE EmitLoad \/ EmitLet
  <2>1. \E name : Alloc(name)
    BY <1>4 DEF EmitLoad, EmitLet
  <2> QED
    BY <1>1, <1>2, <2>1
<1>5. CASE EmitStore \/ EmitIf \/ EmitLoop \/ CloseRegion \/ EmitReturn
  <2>1. UNCHANGED nextSpill
    BY <1>5 DEF EmitStore, Bind, EmitIf, EmitLoop, OpenRegion, CloseRegion, EmitReturn, alloc
  <2> QED
    BY <1>1, <2>1
<1>6. CASE ExecNext
  <2>1. UNCHANGED nextSpill
    BY <1>6 DEF ExecNext, ExecOp, ExecLoad, ExecStore, ExecIf, ExecLoop, ExecEnd, ExecBack,
                ExecReturn, Writes, Machine, alloc
  <2> QED
    BY <1>1, <2>1
<1>7. CASE UNCHANGED vars
  BY <1>1, <1>7 DEF vars
<1> QED
  BY <1>1, <1>3, <1>4, <1>5, <1>6, <1>7 DEF Next, EmitNext

LEMMA AnnotatedStep ==
  ASSUME Pure, TInv, TInv', SInv', AInv, [Next]_vars
  PROVE  AInv'
<1> SUFFICES ASSUME nextSpill' = 0 PROVE \E q : Annotated(q)'
  BY DEF AInv
<1> PICK place : Annotated(place)
  BY SpillsCount DEF AInv
<1>1. CASE EmitNext
  BY <1>1, EmitAnnotates
<1>2. CASE ExecNext
  BY <1>2, ExecAnnotates
<1>3. CASE UNCHANGED vars
  <2>1. Annotated(place)'
    BY <1>3 DEF Annotated, Shape, Around, Flows, Outer, Fits, Here, Holds, At, vars
  <2> QED
    BY <2>1
<1> QED
  BY <1>1, <1>2, <1>3 DEF Next

LEMMA InitAnnotated ==
  ASSUME Len(Params) <= NumArgs, Init
  PROVE  AInv
<1>1. TInv /\ nextSpill = 0 /\ pc = 0 /\ Len(code) = 0 /\ region.state = "none" /\ ~wrong
  BY InitTypes DEF Init
<1>2. Bound = DOMAIN Params
  BY ParamPlaces, RegAllocAssumption DEF Bound
<1>3. map = [p \in Range(Params) |-> Arg(ParamIndex(p))] /\ usable = Range(Params)
  BY <1>2 DEF Init, Range
<1>4. Placed(Here)
  BY <1>1, HerePlaced
<1>5. Holds(Here)
  <2> SUFFICES ASSUME NEW p \in Range(Params) PROVE regs[map[p]] = env[p]
    BY <1>3 DEF Holds, Here
  <2>1. ParamIndex(p) \in Bound /\ ParamIndex(p) \in Nat
    BY <1>2, ParamPlaces
  <2>2. map[p] = Arg(ParamIndex(p)) /\ map[p] \in Regs
    BY <1>3, <1>4 DEF Placed, Here
  <2>3. regs[map[p]] = Passed(ParamIndex(p))
    <3>1. Arg(ParamIndex(p))[2] = ParamIndex(p)
      BY <2>1, Locations
    <3> QED
      BY <2>1, <2>2, <3>1 DEF Init
  <2>4. env[p] = Passed(ParamIndex(p))
    BY DEF Init, Names
  <2> QED
    BY <2>3, <2>4
<1> DEFINE place == [k \in {1} |-> Here]
<1>6. place[1] = Here /\ place[Len(code) + 1] = Here
  BY <1>1
<1>7. \A k \in 1..(Len(code) + 1) : k = 1
  BY <1>1
<1>8. ~\E k \in 1..Len(code) : TRUE
  BY <1>1
<1> HIDE DEF place
<1>9. Shape /\ Around(place) /\ Flows(place)
  BY <1>1, <1>4, <1>6, <1>7, <1>8 DEF Shape, Around, Flows
<1>10. Annotated(place)
  BY <1>1, <1>5, <1>6, <1>9 DEF Annotated, At
<1> QED
  BY <1>10 DEF AInv

(* Every operand an instruction reads is the value the IR says, on every    *)
(* path through an if or a loop and however often the loop is repeated, in  *)
(* functions that have not run out of registers, do not wrap a value for    *)
(* the heap, do not assign in a region and do not use a name after a call   *)
(* that follows its definition (get, get2, bind): for each of these         *)
(* conditions there is a program that reads something else.                 *)
THEOREM OperandsAreRight ==
  ASSUME Len(Params) <= NumArgs, "wrap" \notin Ops, ~StoresInRegions, ~UsesAcrossCalls
  PROVE  Spec => [](nextSpill = 0 => OperandsRight)
<1>0. Pure
  BY DEF Pure
<1>1. Init => TInv /\ SInv /\ AInv
  BY InitTypes, InitSeparate, InitAnnotated
<1>2. TInv /\ SInv /\ AInv /\ [Next]_vars => TInv' /\ SInv' /\ AInv'
  BY <1>0, TypesStep, SeparateStep, AnnotatedStep
<1>3. AInv => (nextSpill = 0 => OperandsRight)
  BY DEF AInv, Annotated, OperandsRight
<1> QED
  BY <1>1, <1>2, <1>3, PTL DEF Spec
=============================================================================
