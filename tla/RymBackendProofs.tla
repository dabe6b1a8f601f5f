--------------------------- MODULE RymBackendProofs ---------------------------
(****************************************************************************)
(* What the backends make of a program: proofs about RymNames, that the     *)
(* decisions the Lowerer and the C backend take by name are those the       *)
(* source means, for files, functions and nestings of every size, and about *)
(* RymSelect, that the literals of the LA64 backend are loaded, on words    *)
(* and fields of the real sizes.                                            *)
(****************************************************************************)
EXTENDS RymNames, RymSelect, TLAPS, WellFoundedInduction

-----------------------------------------------------------------------------
(* A finite set of numbers has a largest one.                               *)

LEMMA MaxOf ==
  ASSUME NEW n \in Nat, NEW S \in SUBSET (1..n), S # {}
  PROVE  Max(S) \in S
<1> DEFINE Less == OpToRel(<, Nat)
           T == {n - i : i \in S}
<1>1. PICK x \in T : \A y \in T : <<y, x>> \notin Less
  <2>1. T \subseteq Nat /\ T # {}
    OBVIOUS
  <2>2. IsWellFoundedOn(Less, Nat)
    BY NatLessThanWellFounded
  <2> HIDE DEF Less, T
  <2> QED
    BY <2>1, <2>2, WFMin
<1>2. PICK i \in S : x = n - i
  BY <1>1
<1>3. ASSUME NEW j \in S PROVE i >= j
  <2>1. n - j \in T /\ n - j \in Nat /\ x \in Nat
    BY <1>2
  <2>2. <<n - j, x>> \notin Less
    BY <1>1, <2>1
  <2>3. ~(n - j < x)
    BY <2>1, <2>2 DEF OpToRel
  <2> QED
    BY <1>2, <2>3
<1> QED
  BY <1>2, <1>3 DEF Max

(* What a visible name means is what one of the scopes says. *)
LEMMA MeaningOf ==
  ASSUME NEW S, scopes \in Seq(S), NEW n, Visible(n)
  PROVE  \E i \in DOMAIN scopes : Meaning(n) = scopes[i][n] /\ scopes[i][n] # Unbound
<1> DEFINE Binding == {i \in DOMAIN scopes : scopes[i][n] # Unbound}
<1>1. Binding # {} /\ Binding \in SUBSET (1..Len(scopes)) /\ Len(scopes) \in Nat
  BY DEF Visible
<1>2. Max(Binding) \in Binding
  <2> HIDE DEF Binding
  <2> QED
    BY <1>1, MaxOf
<1> QED
  BY <1>2 DEF Meaning

-----------------------------------------------------------------------------
(* The invariant.  Names are bound to parameters and variables (Bindings),  *)
(* the tables hold nothing but names that are bound so (Tables), and what a *)
(* function must not do is noted before it takes effect (Noting).           *)

Binding == [name : Names, kind : Kinds, mutable : BOOLEAN]

NamesTypeOK ==
    /\ bindings \in Seq(Binding)
    /\ scopes \in Seq([Names -> Nat]) /\ scopes # <<>>
    /\ slots \in [Names -> Nat]
    /\ params \subseteq Names /\ named \subseteq Names

BoundTo(b, n, i) == i \in DOMAIN b /\ b[i].name = n

Scoped(b, s) ==
    \A k \in DOMAIN s : \A n \in Names : s[k][n] # Unbound => BoundTo(b, n, s[k][n])

Stored(b, sl) == \A i \in DOMAIN b : BoundTo(b, b[i].name, sl[b[i].name])

Bindings ==
    /\ Scoped(bindings, scopes)
    /\ Stored(bindings, slots)
    /\ \A i \in DOMAIN bindings : bindings[i].name \in params \cup named
    /\ \A n \in params \cup named : \E i \in DOMAIN bindings : bindings[i].name = n
    /\ fn = "params" => named = {}

Tables ==
    /\ \A n \in slice_vars :
          \E i \in DOMAIN bindings : bindings[i].name = n /\ bindings[i].kind \in Pairs
    /\ \A n \in fn_ptr_vars :
          \E i \in DOMAIN bindings : bindings[i].name = n /\ bindings[i].kind = "fn"

Noting ==
    /\ Without({"shadow"}) =>
          \A i, j \in DOMAIN bindings : bindings[i].name = bindings[j].name => i = j
    /\ Without({"retyped"}) =>
          \A i, j \in DOMAIN bindings :
             bindings[i].name = bindings[j].name => bindings[i].kind = bindings[j].kind
    /\ Without({"untyped", "fixed_array"}) =>
          \A i \in DOMAIN bindings :
             bindings[i].kind \in Pairs => bindings[i].name \in slice_vars
    /\ Without({"untyped"}) =>
          \A i \in DOMAIN bindings :
             bindings[i].kind = "fn" => bindings[i].name \in fn_ptr_vars
    /\ Without({"fn_name"}) => \A i \in DOMAIN bindings : bindings[i].name \notin Fns

(* CompilesAsC, each part with the quirks it needs.                         *)
Compiles ==
    /\ Without({"late_enum"}) => mentioned \subseteq params \cup named
    /\ Without({"rebound_param", "mut_param"}) => params \cap named = {}
    /\ Without({"untyped", "fn_name", "pipe_var"}) => called \subseteq Fns \ (params \cup named)

NInv ==
    /\ NamesTypeOK /\ Bindings /\ Tables /\ Noting /\ Compiles
    /\ VariablesRight

LEMMA NInvInit == Init => NInv
<1> SUFFICES ASSUME Init PROVE NInv
  OBVIOUS
<1>1. /\ bindings = <<>> /\ DOMAIN bindings = {} /\ scopes = <<NoScope>> /\ slots = NoScope
      /\ params = {} /\ named = {} /\ mentioned = {} /\ called = {}
      /\ slice_vars = {} /\ fn_ptr_vars = {} /\ choice.what = "none" /\ fn = "items"
  BY DEF Init, None
<1>2. NamesTypeOK
  BY <1>1 DEF NamesTypeOK, NoScope, Unbound
<1>3. Bindings /\ Tables /\ Noting /\ Compiles
  BY <1>1 DEF Bindings, Tables, Noting, Compiles, Scoped, Stored, NoScope
<1>4. VariablesRight
  BY <1>1 DEF VariablesRight, Right
<1> QED
  BY <1>2, <1>3, <1>4 DEF NInv

LEMMA NoDecision == Undecided => VariablesRight'
  BY DEF Undecided, None, VariablesRight, Right

(* A visible name is that of a binding, so it is a parameter or variable.   *)
LEMMA VisibleBound ==
  ASSUME NInv, NEW n, Visible(n)
  PROVE  /\ n \in Names /\ BoundTo(bindings, n, Meaning(n))
         /\ n \in params \cup named
<1>1. n \in Names /\ scopes \in Seq([Names -> Nat])
  BY DEF NInv, NamesTypeOK, Visible
<1>2. PICK i \in DOMAIN scopes : Meaning(n) = scopes[i][n] /\ scopes[i][n] # Unbound
  BY <1>1, MeaningOf
<1>3. BoundTo(bindings, n, Meaning(n))
  BY <1>1, <1>2 DEF NInv, Bindings, Scoped
<1> QED
  BY <1>1, <1>3 DEF NInv, Bindings, BoundTo

-----------------------------------------------------------------------------
(* New bindings.                                                            *)

Frames(frames) == frames = scopes \/ frames = Append(scopes, NoScope)

LEMMA AppendedTo ==
  ASSUME NEW S, NEW q \in Seq(S), NEW e \in S
  PROVE  Append(q, e) \in Seq(S) /\ Append(q, e) # <<>>
<1>1. Append(q, e) \in Seq(S) /\ Len(Append(q, e)) = Len(q) + 1 /\ Len(q) \in Nat
  OBVIOUS
<1> QED
  BY <1>1

(* Bound gives the name a binding and keeps those of the other names.       *)
LEMMA BoundTypes ==
  ASSUME NamesTypeOK, NEW n \in Names, NEW kind \in Kinds, NEW mutable \in BOOLEAN,
         NEW frames, Frames(frames), Bound(n, kind, mutable, frames)
  PROVE  /\ bindings' \in Seq(Binding)
         /\ scopes' \in Seq([Names -> Nat]) /\ scopes' # <<>>
         /\ slots' \in [Names -> Nat]
<1>1. bindings' \in Seq(Binding) /\ Len(bindings) + 1 \in Nat
  BY DEF NamesTypeOK, Bound, Binding
<1>2. frames \in Seq([Names -> Nat]) /\ frames # <<>>
  <2>1. NoScope \in [Names -> Nat]
    BY DEF NoScope, Unbound
  <2>2. Append(scopes, NoScope) \in Seq([Names -> Nat]) /\ Append(scopes, NoScope) # <<>>
    BY <2>1, AppendedTo DEF NamesTypeOK
  <2> QED
    BY <2>2 DEF NamesTypeOK, Frames
<1>3. Len(frames) \in DOMAIN frames /\ frames[Len(frames)] \in [Names -> Nat]
  BY <1>2
<1>4. [frames[Len(frames)] EXCEPT ![n] = Len(bindings) + 1] \in [Names -> Nat]
  BY <1>1, <1>3
<1>5. scopes' \in Seq([Names -> Nat]) /\ scopes' # <<>>
  BY <1>2, <1>3, <1>4 DEF Bound
<1>6. slots' \in [Names -> Nat]
  BY <1>1 DEF NamesTypeOK, Bound
<1> QED
  BY <1>1, <1>5, <1>6

LEMMA BoundGrows ==
  ASSUME NamesTypeOK, NEW n \in Names, NEW kind \in Kinds, NEW mutable \in BOOLEAN,
         NEW frames, Frames(frames), Bound(n, kind, mutable, frames)
  PROVE  /\ DOMAIN bindings' = DOMAIN bindings \cup {Len(bindings) + 1}
         /\ Len(bindings) + 1 \notin DOMAIN bindings
         /\ \A i \in DOMAIN bindings : bindings'[i] = bindings[i]
         /\ bindings'[Len(bindings) + 1] = [name |-> n, kind |-> kind, mutable |-> mutable]
<1> DEFINE b == [name |-> n, kind |-> kind, mutable |-> mutable]
<1>1. bindings' = Append(bindings, b) /\ bindings \in Seq(Binding)
  BY DEF NamesTypeOK, Bound
<1>2. b \in Binding
  BY DEF Binding
<1> HIDE DEF b
<1>3. /\ DOMAIN bindings' = DOMAIN bindings \cup {Len(bindings) + 1}
      /\ Len(bindings) + 1 \notin DOMAIN bindings
  BY <1>1, <1>2
<1>4. /\ \A i \in DOMAIN bindings : bindings'[i] = bindings[i]
      /\ bindings'[Len(bindings) + 1] = b
  BY <1>1, <1>2
<1> QED
  BY <1>3, <1>4 DEF b

LEMMA BoundScoped ==
  ASSUME NamesTypeOK, Bindings,
         NEW n \in Names, NEW kind \in Kinds, NEW mutable \in BOOLEAN,
         NEW frames, Frames(frames), Bound(n, kind, mutable, frames)
  PROVE  Scoped(bindings', scopes') /\ Stored(bindings', slots')
<1> DEFINE new == Len(bindings) + 1
<1>1. /\ DOMAIN bindings' = DOMAIN bindings \cup {new}
      /\ \A i \in DOMAIN bindings : bindings'[i] = bindings[i]
      /\ bindings'[new].name = n
  <2>1. bindings'[new] = [name |-> n, kind |-> kind, mutable |-> mutable]
    BY BoundGrows
  <2>2. /\ DOMAIN bindings' = DOMAIN bindings \cup {new}
        /\ \A i \in DOMAIN bindings : bindings'[i] = bindings[i]
    BY BoundGrows
  <2> QED
    BY <2>1, <2>2
<1>2. \A m, i : BoundTo(bindings, m, i) => BoundTo(bindings', m, i)
  BY <1>1 DEF BoundTo
<1>3. BoundTo(bindings', n, new)
  BY <1>1 DEF BoundTo
<1>4. Scoped(bindings, frames) /\ frames \in Seq([Names -> Nat]) /\ frames # <<>>
  <2>1. Scoped(bindings, scopes) /\ scopes \in Seq([Names -> Nat]) /\ scopes # <<>>
    BY DEF Bindings, NamesTypeOK
  <2>2. CASE frames = scopes
    BY <2>1, <2>2
  <2>3. CASE frames = Append(scopes, NoScope)
    <3>1. frames \in Seq([Names -> Nat]) /\ frames # <<>>
      <4>1. NoScope \in [Names -> Nat]
        BY DEF NoScope, Unbound
      <4> QED
        BY <2>1, <2>3, <4>1, AppendedTo
    <3>2. ASSUME NEW k \in DOMAIN frames, NEW m \in Names, frames[k][m] # Unbound
          PROVE  BoundTo(bindings, m, frames[k][m])
      <4>1. k \in DOMAIN scopes /\ frames[k] = scopes[k]
        BY <2>1, <2>3, <3>2 DEF NoScope
      <4> QED
        BY <2>1, <3>2, <4>1 DEF Scoped
    <3> QED
      BY <3>1, <3>2 DEF Scoped
  <2> QED
    BY <2>2, <2>3 DEF Frames
<1>5. ASSUME NEW k \in DOMAIN scopes', NEW m \in Names, scopes'[k][m] # Unbound
      PROVE  BoundTo(bindings', m, scopes'[k][m])
  <2>1. k \in DOMAIN frames /\ frames[k] \in [Names -> Nat]
    BY <1>4 DEF Bound
  <2>2. scopes'[k] = IF k = Len(frames) THEN [frames[k] EXCEPT ![n] = new] ELSE frames[k]
    BY <1>4, <2>1 DEF Bound
  <2>3. scopes'[k][m] = IF k = Len(frames) /\ m = n THEN new ELSE frames[k][m]
    BY <2>1, <2>2
  <2> QED
    BY <1>2, <1>3, <1>4, <1>5, <2>1, <2>3 DEF Scoped
<1>6. ASSUME NEW i \in DOMAIN bindings'
      PROVE  BoundTo(bindings', bindings'[i].name, slots'[bindings'[i].name])
  <2>1. \A m \in Names : slots'[m] = IF m = n THEN new ELSE slots[m]
    BY DEF NamesTypeOK, Bound
  <2>2. CASE bindings'[i].name = n
    BY <1>3, <2>1, <2>2
  <2>3. CASE bindings'[i].name # n
    <3> HIDE DEF new
    <3>a. i \in DOMAIN bindings /\ bindings'[i] = bindings[i]
      BY <1>1, <1>6, <2>3
    <3>b. bindings[i] \in Binding
      BY <3>a DEF NamesTypeOK
    <3>1. i \in DOMAIN bindings /\ bindings'[i] = bindings[i] /\ bindings[i].name \in Names
      BY <3>a, <3>b DEF Binding
    <3>2. BoundTo(bindings, bindings[i].name, slots[bindings[i].name])
      BY <3>1 DEF Bindings, Stored
    <3> QED
      BY <1>2, <2>1, <2>3, <3>1, <3>2
  <2> QED
    BY <2>2, <2>3
<1> QED
  BY <1>5, <1>6 DEF Scoped, Stored

(* What a step that binds n has to do for the tables, the signature, the    *)
(* declared variables and the quirks.                                       *)
Annotates(n, kind) ==
    /\ slice_vars \subseteq slice_vars' /\ slice_vars' \subseteq slice_vars \cup {n}
    /\ fn_ptr_vars \subseteq fn_ptr_vars' /\ fn_ptr_vars' \subseteq fn_ptr_vars \cup {n}
    /\ kind \notin Pairs => slice_vars' = slice_vars
    /\ kind # "fn" => fn_ptr_vars' = fn_ptr_vars
    /\ quirks' \cap {"untyped", "fixed_array"} = {} => (kind \in Pairs => n \in slice_vars')
    /\ quirks' \cap {"untyped"} = {} => (kind = "fn" => n \in fn_ptr_vars')

Declares(n) ==
    /\ params' \cup named' = params \cup named \cup {n}
    /\ quirks' \cap {"rebound_param", "mut_param"} = {} =>
          (params \cap named = {} => params' \cap named' = {})
    /\ fn' = "params" => named' = {}
    /\ UNCHANGED <<mentioned, called>>

Notes(n, kind) ==
    /\ quirks \subseteq quirks'
    /\ quirks' \cap {"shadow"} = {} => \A i \in DOMAIN bindings : bindings[i].name # n
    /\ quirks' \cap {"retyped"} = {} =>
          \A i \in DOMAIN bindings : bindings[i].name = n => bindings[i].kind = kind
    /\ quirks' \cap {"fn_name"} = {} => n \notin Fns

LEMMA NewBinding ==
  ASSUME NInv, NEW n \in Names, NEW kind \in Kinds, NEW mutable \in BOOLEAN,
         NEW frames, Frames(frames), Bound(n, kind, mutable, frames),
         Annotates(n, kind), Declares(n), Notes(n, kind)
  PROVE  NamesTypeOK' /\ Bindings' /\ Tables' /\ Noting' /\ Compiles'
<1> DEFINE new == Len(bindings) + 1
<1>a. NamesTypeOK /\ Bindings /\ Tables /\ Noting /\ Compiles
  BY DEF NInv
<1>b. bindings'[new].name = n /\ bindings'[new].kind = kind
  <2>1. bindings'[new] = [name |-> n, kind |-> kind, mutable |-> mutable]
    BY <1>a, BoundGrows
  <2> QED
    BY <2>1
<1>c. /\ DOMAIN bindings' = DOMAIN bindings \cup {new} /\ new \notin DOMAIN bindings
      /\ \A i \in DOMAIN bindings : bindings'[i] = bindings[i]
  BY <1>a, BoundGrows
<1> HIDE DEF new
<1>1. NamesTypeOK'
  <2>1. /\ bindings' \in Seq(Binding)
        /\ scopes' \in Seq([Names -> Nat]) /\ scopes' # <<>>
        /\ slots' \in [Names -> Nat]
    BY <1>a, BoundTypes
  <2> QED
    BY SMTT(30), <1>a, <2>1 DEF NamesTypeOK, Declares, Binding
<1>2. Bindings'
  <2>1. Scoped(bindings', scopes') /\ Stored(bindings', slots')
    BY <1>a, BoundScoped
  <2>2. \A i \in DOMAIN bindings' : bindings'[i].name \in params' \cup named'
    BY <1>a, <1>b, <1>c DEF Bindings, Declares
  <2>3. \A m \in params' \cup named' : \E i \in DOMAIN bindings' : bindings'[i].name = m
    BY <1>a, <1>b, <1>c DEF Bindings, Declares
  <2> QED
    BY <2>1, <2>2, <2>3 DEF Bindings, Declares, Scoped, Stored, BoundTo
<1>3. Tables'
  <2>1. \A m \in slice_vars' :
           \E i \in DOMAIN bindings' : bindings'[i].name = m /\ bindings'[i].kind \in Pairs
    BY <1>a, <1>b, <1>c DEF Tables, Annotates
  <2>2. \A m \in fn_ptr_vars' :
           \E i \in DOMAIN bindings' : bindings'[i].name = m /\ bindings'[i].kind = "fn"
    BY <1>a, <1>b, <1>c DEF Tables, Annotates
  <2> QED
    BY <2>1, <2>2 DEF Tables
<1>4. Noting'
  <2>1. ASSUME quirks' \cap {"shadow"} = {},
               NEW i \in DOMAIN bindings', NEW j \in DOMAIN bindings',
               bindings'[i].name = bindings'[j].name
        PROVE  i = j
    <3>1. quirks \cap {"shadow"} = {} /\ \A k \in DOMAIN bindings : bindings[k].name # n
      BY <2>1 DEF Notes
    <3> QED
      BY <1>a, <1>b, <1>c, <2>1, <3>1 DEF Noting, Without
  <2>2. ASSUME quirks' \cap {"untyped"} = {}, NEW i \in DOMAIN bindings', bindings'[i].kind = "fn"
        PROVE  bindings'[i].name \in fn_ptr_vars'
    <3>1. quirks \cap {"untyped"} = {}
      BY <2>2 DEF Notes
    <3>2. CASE i = new
      BY <1>b, <2>2, <3>2 DEF Annotates
    <3>3. CASE i \in DOMAIN bindings
      BY <1>a, <1>c, <2>2, <3>1, <3>3 DEF Noting, Without, Annotates
    <3> QED
      BY <1>c, <3>2, <3>3
  <2>4. ASSUME quirks' \cap {"untyped", "fixed_array"} = {}, NEW i \in DOMAIN bindings',
               bindings'[i].kind \in Pairs
        PROVE  bindings'[i].name \in slice_vars'
    <3>1. quirks \cap {"untyped", "fixed_array"} = {}
      BY <2>4 DEF Notes
    <3>2. CASE i = new
      BY <1>b, <2>4, <3>2 DEF Annotates
    <3>3. CASE i \in DOMAIN bindings
      BY <1>a, <1>c, <2>4, <3>1, <3>3 DEF Noting, Without, Annotates
    <3> QED
      BY <1>c, <3>2, <3>3
  <2>5. ASSUME quirks' \cap {"retyped"} = {},
               NEW i \in DOMAIN bindings', NEW j \in DOMAIN bindings',
               bindings'[i].name = bindings'[j].name
        PROVE  bindings'[i].kind = bindings'[j].kind
    <3>1. /\ quirks \cap {"retyped"} = {}
          /\ \A k \in DOMAIN bindings : bindings[k].name = n => bindings[k].kind = kind
      BY <2>5 DEF Notes
    <3>2. CASE i = new
      BY <1>b, <1>c, <2>5, <3>1, <3>2
    <3>3. CASE j = new
      BY <1>b, <1>c, <2>5, <3>1, <3>3
    <3>4. CASE i \in DOMAIN bindings /\ j \in DOMAIN bindings
      BY <1>a, <1>c, <2>5, <3>1, <3>4 DEF Noting, Without
    <3> QED
      BY <1>c, <3>2, <3>3, <3>4
  <2>3. ASSUME quirks' \cap {"fn_name"} = {}, NEW i \in DOMAIN bindings'
        PROVE  bindings'[i].name \notin Fns
    <3>1. quirks \cap {"fn_name"} = {} /\ n \notin Fns
      BY <2>3 DEF Notes
    <3> QED
      BY <1>a, <1>b, <1>c, <3>1 DEF Noting, Without
  <2> QED
    BY <2>1, <2>2, <2>3, <2>4, <2>5 DEF Noting, Without
<1>5. Compiles'
  <2>1. quirks' \cap {"late_enum"} = {} => mentioned' \subseteq params' \cup named'
    BY <1>a DEF Compiles, Without, Declares, Notes
  <2>2. quirks' \cap {"rebound_param", "mut_param"} = {} => params' \cap named' = {}
    BY <1>a DEF Compiles, Without, Declares, Notes
  <2>3. ASSUME quirks' \cap {"untyped", "fn_name", "pipe_var"} = {}
        PROVE  called' \subseteq Fns \ (params' \cup named')
    <3>1. quirks \cap {"untyped", "fn_name", "pipe_var"} = {} /\ n \notin Fns
      BY <2>3 DEF Notes
    <3> QED
      BY <1>a, <3>1 DEF Compiles, Without, Declares
  <2> QED
    BY <2>1, <2>2, <2>3 DEF Compiles, Without
<1> QED
  BY <1>1, <1>2, <1>3, <1>4, <1>5

(* Rebinding notes what a statement that binds n does wrong.                *)
LEMMA RebindingNotes ==
  ASSUME NInv, NEW n, NEW kind, NEW more, Noted(Rebinding(n, kind) \cup more)
  PROVE  Notes(n, kind) /\ (quirks' \cap {"rebound_param"} = {} => n \notin params)
<1>1. /\ quirks \subseteq quirks'
      /\ quirks' \cap {"fn_name"} = {} => n \notin Fns
  BY DEF Noted, Rebinding, Quirk
<1>2. quirks' \cap {"rebound_param"} = {} => n \notin params
  BY DEF Noted, Rebinding, Quirk
<1>3. quirks' \cap {"shadow"} = {} => \A i \in DOMAIN bindings : bindings[i].name # n
  BY DEF Noted, Rebinding, Quirk
<1>4. quirks' \cap {"retyped"} = {} =>
         \A i \in DOMAIN bindings : bindings[i].name = n => bindings[i].kind = kind
  BY DEF Noted, Rebinding, Quirk
<1> QED
  BY <1>1, <1>2, <1>3, <1>4 DEF Notes

-----------------------------------------------------------------------------
(* One lemma for each action, or for a group of them.                       *)

LEMMA OpenStep ==
  ASSUME NInv, NEW to, Open(to)
  PROVE  NInv'
<1>1. /\ bindings' = <<>> /\ DOMAIN bindings' = {} /\ scopes' = <<NoScope>>
      /\ slots' = NoScope /\ params' = {} /\ named' = {} /\ mentioned' = {} /\ called' = {}
      /\ slice_vars' = {} /\ fn_ptr_vars' = {} /\ quirks' = {}
  BY DEF Open, ResetFn
<1>2. NamesTypeOK'
  BY <1>1 DEF NamesTypeOK, NoScope, Unbound, Binding
<1>3. Bindings' /\ Tables' /\ Noting' /\ Compiles'
  BY <1>1 DEF Bindings, Tables, Noting, Compiles, Scoped, Stored, NoScope, BoundTo
<1>4. VariablesRight'
  BY NoDecision DEF Open
<1> QED
  BY <1>2, <1>3, <1>4 DEF NInv

(* The steps that bind nothing, leave the variables of C and the tables     *)
(* alone, and note no less than before.                                     *)
Bindless ==
    /\ UNCHANGED <<slice_vars, fn_ptr_vars, params, named, bindings>>
    /\ quirks \subseteq quirks'
    /\ fn' = "params" => fn = "params"

LEMMA BindlessStep ==
  ASSUME NInv, Bindless,
         scopes' \in Seq([Names -> Nat]), scopes' # <<>>, Scoped(bindings, scopes'),
         UNCHANGED slots
  PROVE  NamesTypeOK' /\ Bindings' /\ Tables' /\ Noting'
<1>1. NamesTypeOK'
  BY DEF NInv, NamesTypeOK, Bindless, Binding
<1>2. Bindings'
  BY DEF NInv, Bindings, Bindless, Scoped, Stored, BoundTo
<1>3. Tables' /\ Noting'
  BY DEF NInv, Tables, Noting, Without, Bindless
<1> QED
  BY <1>1, <1>2, <1>3

(* The same when the scopes stay too: that is for the steps that look.      *)
LEMMA LookingStep ==
  ASSUME NInv, Bindless, UNCHANGED <<scopes, slots>>
  PROVE  NamesTypeOK' /\ Bindings' /\ Tables' /\ Noting'
<1>1. scopes' \in Seq([Names -> Nat]) /\ scopes' # <<>> /\ Scoped(bindings, scopes')
  BY DEF NInv, NamesTypeOK, Bindings
<1> QED
  BY <1>1, BindlessStep

LEMMA CompilesStays ==
  ASSUME NInv, Bindless, UNCHANGED <<mentioned, called>>
  PROVE  Compiles'
  BY DEF NInv, Compiles, Without, Bindless

LEMMA WalkStep ==
  ASSUME NInv, (\E e \in Enums : LowerEnum(e)) \/ Body \/ Close
  PROVE  NInv'
<1>1. Bindless /\ UNCHANGED <<scopes, slots, mentioned, called>> /\ Undecided
  BY DEF LowerEnum, Body, Close, InBody, Bindless, tables, output, source
<1> QED
  BY <1>1, LookingStep, CompilesStays, NoDecision DEF NInv

LEMMA ParamStep ==
  ASSUME NInv, NEW n \in Names, NEW kind \in Kinds, Param(n, kind)
  PROVE  NInv'
<1>1. Annotates(n, kind)
  BY DEF Param, Annotates, Quirk, Noted, Pairs
<1>2. Declares(n)
  BY DEF Param, Declares, NInv, Bindings
<1>3. Notes(n, kind)
  <2>1. \A i \in DOMAIN bindings : bindings[i].name # n
    BY DEF NInv, Bindings, Param
  <2> QED
    BY <2>1 DEF Param, Notes, Noted, Quirk
<1>4. Bound(n, kind, TRUE, scopes) /\ Frames(scopes) /\ Undecided
  BY DEF Param, Frames
<1> QED
  BY <1>1, <1>2, <1>3, <1>4, NewBinding, NoDecision DEF NInv

LEMMA LetStep ==
  ASSUME NInv, NEW n \in Names, NEW kind \in Kinds, NEW how \in Hows, Let(n, kind, how)
  PROVE  NInv'
<1>1. PICK more : /\ Noted(Rebinding(n, kind) \cup more)
                  /\ more = Quirk("untyped", how = "inferred" /\ kind # "str")
                             \cup Quirk("fixed_array", how = "typed" /\ kind = "array")
  <2>1. Noted(Rebinding(n, kind)
                \cup (Quirk("untyped", how = "inferred" /\ kind # "str")
                        \cup Quirk("fixed_array", how = "typed" /\ kind = "array")))
    BY DEF Let, Noted
  <2> QED
    BY <2>1
<1>2. Notes(n, kind) /\ (quirks' \cap {"rebound_param"} = {} => n \notin params)
  BY <1>1, RebindingNotes
<1>3. Annotates(n, kind)
  <2>1. more \subseteq quirks'
    BY <1>1 DEF Noted
  <2>2. /\ slice_vars \subseteq slice_vars' /\ slice_vars' \subseteq slice_vars \cup {n}
        /\ fn_ptr_vars \subseteq fn_ptr_vars' /\ fn_ptr_vars' \subseteq fn_ptr_vars \cup {n}
        /\ kind \notin Pairs => slice_vars' = slice_vars
        /\ kind # "fn" => fn_ptr_vars' = fn_ptr_vars
    BY DEF Let, Quirk, Pairs
  <2>3. ASSUME quirks' \cap {"untyped", "fixed_array"} = {}, kind \in Pairs
        PROVE  n \in slice_vars'
    <3>1. how # "inferred" /\ ~(how = "typed" /\ kind = "array")
      BY <1>1, <2>1, <2>3 DEF Quirk, Pairs
    <3> QED
      BY <2>3, <3>1 DEF Let, Quirk, Pairs, Hows
  <2>4. ASSUME quirks' \cap {"untyped"} = {}, kind = "fn"
        PROVE  n \in fn_ptr_vars'
    <3>1. how # "inferred"
      BY <1>1, <2>1, <2>4 DEF Quirk
    <3> QED
      BY <2>4, <3>1 DEF Let, Quirk, Hows
  <2> QED
    BY <2>2, <2>3, <2>4 DEF Annotates
<1>4. Declares(n)
  BY <1>2 DEF Let, Declares, InBody
<1>5. Bound(n, kind, TRUE, scopes) /\ Frames(scopes) /\ Undecided
  BY DEF Let, Frames
<1> QED
  BY <1>2, <1>3, <1>4, <1>5, NewBinding, NoDecision DEF NInv

(* The variables of for loops and patterns.                                 *)
LEMMA OpenScopeStep ==
  ASSUME NInv, NEW n \in Names, NEW kind \in Kinds, OpenScopeWith(n, kind)
  PROVE  NInv'
<1>1. Noted(Rebinding(n, kind) \cup Quirk("untyped", kind # "str")) /\ Undecided
  BY DEF OpenScopeWith
<1>2. Notes(n, kind) /\ (quirks' \cap {"rebound_param"} = {} => n \notin params)
  BY <1>1, RebindingNotes
<1>3. Annotates(n, kind)
  BY DEF OpenScopeWith, Annotates, Quirk, Noted, tables, Pairs
<1>4. Declares(n)
  BY <1>2 DEF OpenScopeWith, Declares, InBody
<1>5. Bound(n, kind, FALSE, Append(scopes, NoScope)) /\ Frames(Append(scopes, NoScope))
  BY DEF OpenScopeWith, Frames
<1> QED
  BY <1>1, <1>2, <1>3, <1>4, <1>5, NewBinding, NoDecision DEF NInv

LEMMA AssignStep ==
  ASSUME NInv, NEW n \in Names, Assign(n)
  PROVE  NInv'
<1>1. BoundTo(bindings, n, Meaning(n)) /\ n \in params \cup named
  BY VisibleBound DEF Assign
<1>2. params' \cup named' = params \cup named
  BY <1>1 DEF Assign
<1>3. NamesTypeOK'
  <2>1. Meaning(n) \in Nat
    BY <1>1 DEF BoundTo, NInv, NamesTypeOK
  <2> QED
    BY <2>1 DEF Assign, NInv, NamesTypeOK, Binding
<1>4. Bindings'
  <2>1. ASSUME NEW i \in DOMAIN bindings
        PROVE  BoundTo(bindings, bindings[i].name, slots'[bindings[i].name])
    <3>1. bindings[i] \in Binding
      BY DEF NInv, NamesTypeOK
    <3>2. bindings[i].name \in Names
      BY <3>1 DEF Binding
    <3>3. slots'[bindings[i].name]
            = IF bindings[i].name = n THEN Meaning(n) ELSE slots[bindings[i].name]
      BY <3>2 DEF Assign, NInv, NamesTypeOK
    <3> QED
      BY <1>1, <3>3 DEF NInv, Bindings, Stored
  <2>2. UNCHANGED <<bindings, scopes>> /\ fn' # "params"
    BY DEF Assign, InBody
  <2>3. Stored(bindings', slots') /\ Scoped(bindings', scopes')
    BY <2>1, <2>2 DEF NInv, Bindings, Stored, Scoped, BoundTo
  <2> QED
    BY <1>2, <2>2, <2>3 DEF NInv, Bindings, Scoped, Stored, BoundTo
<1>5. Tables' /\ Noting'
  BY DEF Assign, Noted, NInv, Tables, Noting, Without, tables
<1>6. Compiles'
  <2>1. quirks \subseteq quirks' /\ (quirks' \cap {"mut_param"} = {} => n \notin params)
    BY DEF Assign, Noted, Quirk
  <2> QED
    BY <1>2, <2>1 DEF Assign, NInv, Compiles, Without
<1> QED
  BY <1>3, <1>4, <1>5, <1>6, NoDecision DEF Assign, NInv

LEMMA OpenBlockStep == NInv /\ OpenBlock => NInv'
<1> SUFFICES ASSUME NInv, OpenBlock PROVE NInv'
  OBVIOUS
<1>1. Bindless /\ UNCHANGED <<slots, mentioned, called>> /\ Undecided
  BY DEF OpenBlock, Bindless, tables, output
<1>2. scopes' \in Seq([Names -> Nat]) /\ scopes' # <<>>
  <2>1. NoScope \in [Names -> Nat]
    BY DEF NoScope, Unbound
  <2> QED
    BY <2>1, AppendedTo DEF OpenBlock, NInv, NamesTypeOK
<1>3. Scoped(bindings, scopes')
  <2>1. ASSUME NEW k \in DOMAIN scopes', NEW m \in Names, scopes'[k][m] # Unbound
        PROVE  BoundTo(bindings, m, scopes'[k][m])
    <3>1. k \in DOMAIN scopes /\ scopes'[k] = scopes[k]
      BY <2>1 DEF OpenBlock, NoScope, NInv, NamesTypeOK
    <3> QED
      BY <2>1, <3>1 DEF NInv, Bindings, Scoped
  <2> QED
    BY <2>1 DEF Scoped
<1> QED
  BY <1>1, <1>2, <1>3, BindlessStep, CompilesStays, NoDecision DEF NInv

LEMMA CloseBlockStep == NInv /\ CloseBlock => NInv'
<1> SUFFICES ASSUME NInv, CloseBlock PROVE NInv'
  OBVIOUS
<1>1. Bindless /\ UNCHANGED <<slots, mentioned, called>> /\ Undecided
  BY DEF CloseBlock, Bindless, tables, output
<1>2. scopes' \in Seq([Names -> Nat]) /\ Len(scopes') = Len(scopes) - 1
      /\ \A k \in DOMAIN scopes' : k \in DOMAIN scopes /\ scopes'[k] = scopes[k]
  BY DEF CloseBlock, NInv, NamesTypeOK
<1>3. scopes' # <<>>
  <2>1. Len(scopes) \in Nat /\ Len(scopes) > 1
    BY DEF CloseBlock, NInv, NamesTypeOK
  <2>2. Len(scopes') > 0
    BY <1>2, <2>1
  <2> QED
    BY <2>2
<1>4. Scoped(bindings, scopes')
  BY <1>2 DEF NInv, Bindings, Scoped
<1> QED
  BY <1>1, <1>2, <1>3, <1>4, BindlessStep, CompilesStays, NoDecision DEF NInv

-----------------------------------------------------------------------------
(* The expressions: here a decision has to be the right one.                *)

LEMMA LooksAround ==
  ASSUME NInv, UNCHANGED <<fn, fnCount, bindings, scopes, params, named, slots>>,
         UNCHANGED tables, quirks \subseteq quirks'
  PROVE  Bindless /\ NamesTypeOK' /\ Bindings' /\ Tables' /\ Noting'
<1>1. Bindless
  BY DEF Bindless, tables
<1> QED
  BY <1>1, LookingStep

LEMMA ReadStep ==
  ASSUME NInv, NEW n \in Names, Read(n)
  PROVE  NInv'
<1>1. BoundTo(bindings, n, Meaning(n)) /\ n \in params \cup named
  BY VisibleBound DEF Read
<1>2. UNCHANGED <<fn, fnCount, bindings, scopes, quirks, params, named, called, slots>>
      /\ UNCHANGED tables /\ mentioned' = mentioned \cup {n}
  BY DEF Read, Mentions, source
<1>3. NamesTypeOK' /\ Bindings' /\ Tables' /\ Noting'
  BY <1>2, LooksAround
<1>4. Compiles'
  BY <1>1, <1>2 DEF NInv, Compiles, Without
<1>5. choice'.what = "read" /\ choice'.lowered = slots[n] /\ choice'.meant = Meaning(n)
  BY DEF Read, Decided
<1>6. BoundTo(bindings, n, slots[n])
  BY <1>1 DEF BoundTo, NInv, Bindings, Stored
<1>7. Without({"shadow"}) => slots[n] = Meaning(n)
  BY <1>1, <1>6 DEF BoundTo, NInv, Noting
<1>8. VariablesRight'
  BY <1>2, <1>5, <1>7 DEF VariablesRight, Right, Without
<1> QED
  BY <1>3, <1>4, <1>8 DEF NInv

LEMMA LengthStep ==
  ASSUME NInv, NEW n \in Names, Length(n)
  PROVE  NInv'
<1>1. /\ BoundTo(bindings, n, Meaning(n)) /\ n \in params \cup named
      /\ KindOf(n) = bindings[Meaning(n)].kind /\ KindOf(n) \in Kinds \ {"fn"}
  BY VisibleBound DEF Length, IsKind, KindOf
<1>2. UNCHANGED <<fn, fnCount, bindings, scopes, quirks, params, named, called, slots>>
      /\ UNCHANGED tables /\ mentioned' = mentioned \cup {n}
  BY DEF Length, Mentions, source
<1>3. NamesTypeOK' /\ Bindings' /\ Tables' /\ Noting'
  BY <1>2, LooksAround
<1>4. Compiles'
  BY <1>1, <1>2 DEF NInv, Compiles, Without
<1>5. /\ choice'.what = "len" /\ choice'.meant = LengthMeans(n)
      /\ choice'.lowered = IF n \in slice_vars THEN "SliceLen" ELSE "StrLen"
  BY DEF Length, Decided
<1>6. Without({"retyped", "untyped", "fixed_array"}) =>
         (n \in slice_vars <=> KindOf(n) \in Pairs)
  <2>1. ASSUME Without({"retyped", "untyped", "fixed_array"}), n \in slice_vars
        PROVE  KindOf(n) \in Pairs
    <3>1. PICK i \in DOMAIN bindings : bindings[i].name = n /\ bindings[i].kind \in Pairs
      BY <2>1 DEF NInv, Tables
    <3>2. Without({"retyped"})
      BY <2>1 DEF Without
    <3>3. bindings[Meaning(n)].kind = bindings[i].kind
      BY <1>1, <3>1, <3>2 DEF BoundTo, NInv, Noting
    <3> QED
      BY <1>1, <3>1, <3>3
  <2>2. ASSUME Without({"retyped", "untyped", "fixed_array"}), KindOf(n) \in Pairs
        PROVE  n \in slice_vars
    <3>1. Without({"untyped", "fixed_array"})
      BY <2>2 DEF Without
    <3> QED
      BY <1>1, <2>2, <3>1 DEF BoundTo, NInv, Noting
  <2> QED
    BY <2>1, <2>2
<1>7. VariablesRight'
  BY <1>1, <1>2, <1>5, <1>6 DEF VariablesRight, Right, Without, LengthMeans
<1> QED
  BY <1>3, <1>4, <1>7 DEF NInv

(* What a call by name means, once the function has none of three quirks.   *)
LEMMA CallableNames ==
  ASSUME NInv, NEW n, CanCall(n), Without({"untyped", "fn_name"})
  PROVE  /\ n \in fn_ptr_vars <=> IsKind(n, {"fn"})
         /\ ~IsKind(n, {"fn"}) => n \in Fns \ (params \cup named)
<1>1. Without({"untyped"}) /\ Without({"fn_name"})
  BY DEF Without
<1>2. \A i \in DOMAIN bindings : bindings[i].name \notin Fns
  BY <1>1 DEF NInv, Noting
<1>3. ASSUME n \in fn_ptr_vars PROVE IsKind(n, {"fn"})
  <2>1. n \notin Fns
    BY <1>2, <1>3 DEF NInv, Tables
  <2> QED
    BY <2>1 DEF CanCall
<1>4. ASSUME IsKind(n, {"fn"}) PROVE n \in fn_ptr_vars
  <2>1. BoundTo(bindings, n, Meaning(n)) /\ bindings[Meaning(n)].kind = "fn"
    BY <1>4, VisibleBound DEF IsKind, KindOf
  <2> QED
    BY <1>1, <2>1 DEF BoundTo, NInv, Noting
<1>5. ASSUME n \in Fns PROVE n \notin params \cup named
  BY <1>2, <1>5 DEF NInv, Bindings
<1> QED
  BY <1>3, <1>4, <1>5 DEF CanCall

LEMMA CallStep ==
  ASSUME NInv, NEW n, Call(n)
  PROVE  NInv'
<1>1. CanCall(n) /\ UNCHANGED source
  BY DEF Call
<1>2. UNCHANGED <<fn, fnCount, bindings, scopes, quirks, params, named, slots>>
      /\ UNCHANGED tables
  BY DEF Call, CallDirect, Mentions, source
<1>3. NamesTypeOK' /\ Bindings' /\ Tables' /\ Noting'
  BY <1>2, LooksAround
<1>4. CASE n \in fn_ptr_vars
  <2>1. choice'.what = "call" /\ choice'.lowered = "indirect" /\ choice'.meant = CallMeans(n)
        /\ mentioned' = mentioned \cup {n} /\ called' = called
    BY <1>4 DEF Call, Decided, Mentions
  <2>2. n \in params \cup named
    BY <1>4 DEF NInv, Tables, Bindings
  <2>3. Compiles'
    BY <1>2, <2>1, <2>2 DEF NInv, Compiles, Without
  <2>4. Without({"untyped", "fn_name"}) => CallMeans(n) = "indirect"
    BY <1>1, <1>4, CallableNames DEF CallMeans
  <2>5. VariablesRight'
    BY <1>2, <2>1, <2>4 DEF VariablesRight, Right, Without
  <2> QED
    BY <1>3, <2>3, <2>5 DEF NInv
<1>5. CASE n \notin fn_ptr_vars
  <2>1. choice'.what = "call" /\ choice'.lowered = "direct" /\ choice'.meant = CallMeans(n)
        /\ mentioned' = mentioned /\ called' = called \cup {n}
    BY <1>5 DEF Call, CallDirect, Decided
  <2>2. Without({"untyped", "fn_name"}) =>
           CallMeans(n) = "direct" /\ n \in Fns \ (params \cup named)
    BY <1>1, <1>5, CallableNames DEF CallMeans
  <2>3. Compiles'
    BY <1>2, <2>1, <2>2 DEF NInv, Compiles, Without
  <2>4. VariablesRight'
    BY <1>2, <2>1, <2>2 DEF VariablesRight, Right, Without
  <2> QED
    BY <1>3, <2>3, <2>4 DEF NInv
<1> QED
  BY <1>4, <1>5

LEMMA PipeStep ==
  ASSUME NInv, NEW n, Pipe(n)
  PROVE  NInv'
<1>1. /\ CanCall(n) /\ quirks \subseteq quirks'
      /\ quirks' \cap {"pipe_var"} = {} => ~IsKind(n, {"fn"})
  BY DEF Pipe, Noted, Quirk
<1>2. UNCHANGED <<fn, fnCount, bindings, scopes, params, named, slots>>
      /\ UNCHANGED tables /\ mentioned' = mentioned /\ called' = called \cup {n}
  BY DEF Pipe, CallDirect
<1>3. NamesTypeOK' /\ Bindings' /\ Tables' /\ Noting'
  BY <1>1, <1>2, LooksAround
<1>4. quirks' \cap {"untyped", "fn_name", "pipe_var"} = {} => n \in Fns \ (params \cup named)
  <2>1. SUFFICES ASSUME quirks' \cap {"untyped", "fn_name", "pipe_var"} = {}
                 PROVE  n \in Fns \ (params \cup named)
    OBVIOUS
  <2>2. Without({"untyped", "fn_name"}) /\ ~IsKind(n, {"fn"})
    BY <1>1, <2>1 DEF Without
  <2> QED
    BY <1>1, <2>2, CallableNames
<1>5. Compiles'
  BY <1>1, <1>2, <1>4 DEF NInv, Compiles, Without
<1>6. choice'.what = "call" /\ choice'.lowered = "direct" /\ choice'.meant = CallMeans(n)
  BY DEF Pipe, CallDirect, Decided
<1>7. VariablesRight'
  BY <1>1, <1>6 DEF VariablesRight, Right, Without, CallMeans
<1> QED
  BY <1>3, <1>5, <1>7 DEF NInv

LEMMA VariantStep ==
  ASSUME NInv, NEW e, Variant(e)
  PROVE  NInv'
<1>1. /\ quirks \subseteq quirks' /\ Undecided
      /\ quirks' \cap {"late_enum"} = {} => mentioned' = mentioned
  BY DEF Variant, Noted, Quirk
<1>2. UNCHANGED <<fn, fnCount, bindings, scopes, params, named, called, slots>>
      /\ UNCHANGED tables
  BY DEF Variant
<1>3. NamesTypeOK' /\ Bindings' /\ Tables' /\ Noting'
  BY <1>1, <1>2, LooksAround
<1>4. Compiles'
  BY <1>1, <1>2 DEF NInv, Compiles, Without
<1> QED
  BY <1>1, <1>3, <1>4, NoDecision DEF NInv

-----------------------------------------------------------------------------
LEMMA NInvStutter == NInv /\ UNCHANGED vars => NInv'
<1> SUFFICES ASSUME NInv, UNCHANGED vars PROVE NInv'
  OBVIOUS
<1>1. Bindless /\ UNCHANGED <<scopes, slots, mentioned, called, choice, quirks>>
  BY DEF vars, tables, output, source, Bindless
<1>2. VariablesRight'
  BY <1>1 DEF NInv, VariablesRight, Right, Without
<1> QED
  BY <1>1, <1>2, LookingStep, CompilesStays DEF NInv

LEMMA NInvNext == NInv /\ [Next]_vars => NInv'
<1> SUFFICES ASSUME NInv, [Next]_vars PROVE NInv'
  OBVIOUS
<1>1. CASE Items
  <2>1. CASE OpenFn
    BY <2>1, OpenStep DEF OpenFn
  <2>2. CASE OpenMain
    BY <2>2, OpenStep DEF OpenMain
  <2> QED
    BY <1>1, <2>1, <2>2, WalkStep DEF Items
<1>2. CASE Stmts
  <2>1. CASE \E n \in Names, kind \in Kinds : Param(n, kind)
    BY <2>1, ParamStep
  <2>2. CASE \E n \in Names, kind \in Kinds : \E how \in Hows : Let(n, kind, how)
    BY <2>2, LetStep
  <2>3. CASE \E n \in Names, kind \in Kinds : OpenScopeWith(n, kind)
    BY <2>3, OpenScopeStep
  <2>4. CASE \E n \in Names : Assign(n)
    BY <2>4, AssignStep
  <2> QED
    BY <1>2, <2>1, <2>2, <2>3, <2>4, OpenBlockStep, CloseBlockStep DEF Stmts
<1>3. CASE Exprs
  <2>1. CASE \E n \in Names : Read(n) \/ Length(n)
    BY <2>1, ReadStep, LengthStep
  <2>2. CASE \E n \in Names \cup Fns : Call(n) \/ Pipe(n)
    BY <2>2, CallStep, PipeStep
  <2>3. CASE \E e \in Enums : Variant(e)
    BY <2>3, VariantStep
  <2> QED
    BY <1>3, <2>1, <2>2, <2>3 DEF Exprs
<1> QED
  BY <1>1, <1>2, <1>3, NInvStutter DEF Next

LEMMA NInvInductive == Spec => []NInv
  BY NInvInit, NInvNext, PTL DEF Spec

(* A use of a variable gets what the scopes of the source say, whatever the *)
(* names, functions and nesting: no table of the Lowerer is stale and no    *)
(* C variable holds the value of another binding, but for the quirks.       *)
THEOREM VariablesAreRight == Spec => []VariablesRight
<1>1. NInv => VariablesRight
  BY DEF NInv
<1> QED
  BY <1>1, NInvInductive, PTL

(* Every C function declares once each variable that it loads, and calls by *)
(* name only functions, unless it has one of the quirks.                    *)
THEOREM FunctionsCompile == Spec => []CompilesAsC
<1>1. NInv => CompilesAsC
  BY DEF NInv, Compiles, CompilesAsC, Without, Quirks
<1> QED
  BY <1>1, NInvInductive, PTL

-----------------------------------------------------------------------------
(* The fields of the LoongArch instructions.                                *)
LA64 == LowSpan = 4096 /\ MidSpan = 1048576 /\ HighSpan = 1048576 /\ TopSpan = 4096

-----------------------------------------------------------------------------
(* What the register holds on the way.                                      *)

Upper(v) == SignExtended(Mid(v), MidSpan) * LowSpan
LowerHalf(v) == Upper(v) + Low(v)

Ori(v) == I("ori", "d", Low(v))
Lu32i(v) == I("lu32i.d", "d", High(v))

LoadingSmall(v) ==
    /\ v \in Small
    /\ \/ code = <<I("addi.d", "zero", v)>>
       \/ code = <<>> /\ d = v

LoadingMedium(v) ==
    /\ v \in Medium
    /\ \/ code = <<I("lu12i.w", "zero", v \div LowSpan), Ori(v)>>
       \/ code = <<I("lu12i.w", "zero", v \div LowSpan)>> /\ Low(v) = 0
       \/ code = <<Ori(v)>> /\ d = (v \div LowSpan) * LowSpan
       \/ code = <<>> /\ d = v

(* The lower half only, when nothing is above it.                           *)
LoadingHalf(v) ==
    /\ v \in Int \ (Small \cup Medium) /\ v \div HalfWord = 0
    /\ \/ code = <<I("lu12i.w", "zero", Mid(v)), Ori(v)>>
       \/ code = <<Ori(v)>> /\ d = Upper(v)
       \/ code = <<>> /\ d = LowerHalf(v)

LoadingLarge(v) ==
    /\ v \in Int \ (Small \cup Medium) /\ v \div HalfWord # 0
    /\ \/ code = <<I("lu12i.w", "zero", Mid(v)), Ori(v), Lu32i(v)>>
       \/ code = <<Ori(v), Lu32i(v)>> /\ d = Upper(v)
       \/ code = <<Lu32i(v)>> /\ d = LowerHalf(v)
       \/ code = <<>> /\ d = (v % HalfWord) + SignExtended(High(v), HighSpan) * HalfWord

Loading(v) == LoadingSmall(v) \/ LoadingMedium(v) \/ LoadingHalf(v) \/ LoadingLarge(v)

SInv ==
    /\ instr.op = "none" => code = <<>>
    /\ instr.op = "ConstInt" => Loading(instr.a)

(* The end of each sequence.                                                *)
LEMMA Ends ==
  ASSUME LA64, SInv
  PROVE  LiteralsLoaded
<1> SUFFICES ASSUME Done, instr.op = "ConstInt"
             PROVE  d = instr.a <=> Loadable(instr.a)
  BY DEF LiteralsLoaded
<1> DEFINE v == instr.a
<1>1. Loading(v) /\ code = <<>>
  BY DEF SInv, Done
<1> HIDE DEF v
<1>2. CASE LoadingSmall(v)
  <2>1. d = v /\ v \in Int /\ -2048 <= v /\ v <= 2047
    BY SMT, <1>1, <1>2 DEF LoadingSmall, Small, LA64
  <2> QED
    BY SMT, <2>1 DEF Loadable, HalfWord, LA64, v
<1>3. CASE LoadingMedium(v)
  <2>1. d = v /\ v \in Int /\ 0 <= v /\ v <= 1048575
    <3>1. d = v /\ v \in 0..(MidSpan - 1)
      BY <1>1, <1>3 DEF LoadingMedium, Medium
    <3>2. MidSpan = 1048576
      BY SMT DEF LA64
    <3>3. MidSpan \in Int
      BY SMT, <3>2
    <3>4. d = v /\ v \in Int /\ 0 <= v /\ v <= MidSpan - 1
      BY SMT, <3>1, <3>3
    <3> QED
      BY SMT, <3>2, <3>4
  <2> QED
    BY SMT, <2>1 DEF Loadable, HalfWord, LA64, v
<1>4. CASE LoadingHalf(v)
  <2>1. v \in Int /\ v \div 4294967296 = 0 /\ d = LowerHalf(v)
    BY SMT, <1>1, <1>4 DEF LoadingHalf, LA64, HalfWord
  <2>2. d = (IF (v \div 4096) % 1048576 < 524288 THEN (v \div 4096) % 1048576
             ELSE ((v \div 4096) % 1048576) - 1048576) * 4096 + (v % 4096)
    BY SMT, <2>1 DEF LowerHalf, Upper, SignExtended, Mid, Low, LA64
  <2>3. v >= 0 /\ v < 4294967296
    BY SMT, <2>1
  <2> DEFINE q == v \div 4096
             r == v % 4096
  <2>4. q \in Int /\ r \in Int /\ 0 <= r /\ r < 4096 /\ v = q * 4096 + r
    BY SMT, <2>1
  <2>5. d = (IF q % 1048576 < 524288 THEN q % 1048576
             ELSE (q % 1048576) - 1048576) * 4096 + r
    BY <2>2
  <2>6. d = IF v < 2147483648 THEN v ELSE v - 4294967296
    <3> HIDE DEF q, r
    <3>1. 0 <= q /\ q < 1048576
      BY SMT, <2>3, <2>4
    <3>2. q % 1048576 = q
      BY SMT, <2>4, <3>1
    <3> QED
      BY SMT, <2>4, <2>5, <3>1, <3>2
  <2>7. Loadable(v) <=> v < 2147483648
    BY SMT, <2>1, <2>3 DEF Loadable, HalfWord, LA64
  <2> QED
    <3>1. d = v <=> v < 2147483648
      BY SMT, <2>1, <2>6
    <3> QED
      BY <2>7, <3>1 DEF v
<1>5. CASE LoadingLarge(v)
  <2>1. v \in Int /\ v \div 4294967296 # 0
        /\ d = (v % 4294967296) + SignExtended(High(v), HighSpan) * 4294967296
    BY SMT, <1>1, <1>5 DEF LoadingLarge, LA64, HalfWord
  <2> DEFINE h == v \div 4294967296
  <2>2. d = (v % 4294967296)
            + (IF h % 1048576 < 524288 THEN h % 1048576 ELSE (h % 1048576) - 1048576) * 4294967296
    BY SMT, <2>1 DEF SignExtended, High, HalfWord, LA64
  <2> DEFINE low == v % 4294967296
  <2>3. h \in Int /\ low \in Int /\ 0 <= low /\ low < 4294967296
    BY SMT, <2>1
  <2>4. v = h * 4294967296 + low
    BY SMT, <2>1
  <2>5. d = low + (IF h % 1048576 < 524288 THEN h % 1048576
                   ELSE (h % 1048576) - 1048576) * 4294967296
    BY <2>2
  <2>6. d = v <=> h >= -524288 /\ h < 524288
    <3> HIDE DEF h, low
    <3> QED
      BY SMT, <2>3, <2>4, <2>5
  <2>7. Loadable(v) <=> h >= -524288 /\ h < 524288
    <3>1. Loadable(v) <=> /\ v >= -2251799813685248 /\ v < 2251799813685248
                          /\ ~(v >= 2147483648 /\ v < 4294967296)
      BY SMT, <2>1 DEF Loadable, HalfWord, LA64
    <3>2. h # 0
      BY <2>1
    <3> HIDE DEF h, low
    <3> QED
      BY SMT, <2>3, <2>4, <3>1, <3>2
  <2> QED
    BY <2>6, <2>7 DEF v
<1> QED
  BY <1>1, <1>2, <1>3, <1>4, <1>5 DEF Loading

-----------------------------------------------------------------------------
(* One instruction.                                                         *)

LEMMA Fetched ==
  ASSUME NEW ins \in Loads, NEW x \in {"d", "zero"}, NEW imm,
         Execute, Head(code) = I(ins, x, imm)
  PROVE  code' = Tail(code) /\ d' = Loaded(ins, Reg(x), imm) /\ instr' = instr
  BY SMT DEF Execute, I

LEMMA Registers == Reg("d") = d /\ Reg("zero") = 0
  BY SMT DEF Reg

(* What each instruction makes of the fields.                               *)
LEMMA SmallField ==
  ASSUME LA64, NEW v \in Small
  PROVE  Loaded("addi.d", 0, v) = v
<1>1. v \in Int /\ -2048 <= v /\ v <= 2047
  BY SMT DEF Small, LA64
<1>2. Span \in Int /\ Span > 4294967296
  <2>1. LowSpan * MidSpan = 4294967296
    BY SMT DEF LA64
  <2>2. (LowSpan * MidSpan) * HighSpan = 4503599627370496
    BY SMT, <2>1 DEF LA64
  <2> DEFINE below == (LowSpan * MidSpan) * HighSpan
  <2>3. below \in Int /\ below > 4294967296
    BY SMT, <2>2
  <2>4. Span = below * TopSpan /\ TopSpan = 4096
    BY SMT DEF Span, LA64
  <2> HIDE DEF below
  <2> QED
    BY SMT, <2>3, <2>4
<1>3. Loaded("addi.d", 0, v) = Word(0 + v)
  BY SMT DEF Loaded
<1> QED
  BY SMT, <1>1, <1>2, <1>3 DEF Word, SignExtended

LEMMA MediumFields ==
  ASSUME LA64, NEW v \in Medium
  PROVE  /\ Loaded("lu12i.w", 0, v \div LowSpan) = (v \div LowSpan) * LowSpan
         /\ Low(v) = 0 => (v \div LowSpan) * LowSpan = v
         /\ Loaded("ori", (v \div LowSpan) * LowSpan, Low(v)) = v
<1>1. v \in Int /\ 0 <= v /\ v <= MidSpan - 1
  <2>1. v \in 0..(MidSpan - 1)
    BY DEF Medium
  <2>2. MidSpan \in Int
    BY SMT DEF LA64
  <2> QED
    BY SMT, <2>1, <2>2
<1>2. Loaded("lu12i.w", 0, v \div LowSpan) = SignExtended(v \div LowSpan, MidSpan) * LowSpan
  BY SMT DEF Loaded
<1>3. Loaded("ori", (v \div LowSpan) * LowSpan, Low(v))
      = (v \div LowSpan) * LowSpan - (((v \div LowSpan) * LowSpan) % LowSpan) + Low(v)
  BY SMT DEF Loaded
<1> QED
  BY SMT, <1>1, <1>2, <1>3 DEF SignExtended, Low, LA64

LEMMA LargeFields ==
  ASSUME LA64, NEW v \in Int
  PROVE  /\ Loaded("lu12i.w", 0, Mid(v)) = Upper(v)
         /\ Loaded("ori", Upper(v), Low(v)) = LowerHalf(v)
         /\ Loaded("lu32i.d", LowerHalf(v), High(v))
              = (v % HalfWord) + SignExtended(High(v), HighSpan) * HalfWord
<1>1. Loaded("lu12i.w", 0, Mid(v)) = Upper(v)
  BY SMT DEF Loaded, Upper
<1>2. Loaded("ori", Upper(v), Low(v)) = Upper(v) - (Upper(v) % LowSpan) + Low(v)
  BY SMT DEF Loaded
<1>3. Loaded("lu32i.d", LowerHalf(v), High(v))
      = (LowerHalf(v) % HalfWord) + SignExtended(High(v), HighSpan) * HalfWord
  BY SMT DEF Loaded
<1> DEFINE q == v \div 4096
           r == v % 4096
           m == IF q % 1048576 < 524288 THEN q % 1048576 ELSE (q % 1048576) - 1048576
<1>4. Upper(v) = m * 4096 /\ Low(v) = r
  BY SMT DEF Upper, SignExtended, Mid, Low, LA64
<1>5. q \in Int /\ r \in Int /\ 0 <= r /\ r < 4096 /\ v = q * 4096 + r
  BY SMT
<1>6. m \in Int /\ \E k \in Int : q - m = k * 1048576
  <2> HIDE DEF q, r
  <2>1. q \in Int
    BY SMT, <1>5
  <2>2. q - (q % 1048576) = (q \div 1048576) * 1048576
        /\ q \div 1048576 \in Int /\ q % 1048576 \in Int
    BY SMT, <2>1
  <2>3. CASE q % 1048576 < 524288
    BY SMT, <2>1, <2>2, <2>3
  <2>4. CASE ~(q % 1048576 < 524288)
    <3>1. q - m = (q \div 1048576 + 1) * 1048576 /\ m \in Int
      BY SMT, <2>1, <2>2, <2>4
    <3> HIDE DEF m
    <3>2. (q \div 1048576) + 1 \in Int
      BY SMT, <2>2
    <3> QED
      BY SMT, <3>1, <3>2
  <2> QED
    BY SMT, <2>3, <2>4
<1> HIDE DEF q, r, m
<1>7. Upper(v) % LowSpan = 0
  BY SMT, <1>4, <1>6 DEF LA64
<1>8. LowerHalf(v) = m * 4096 + r
  BY SMT, <1>4 DEF LowerHalf
<1>9. (m * 4096 + r) % 4294967296 = (q * 4096 + r) % 4294967296
  <2>1. PICK k \in Int : q - m = k * 1048576
    BY SMT, <1>6
  <2>2. q * 4096 + r = (m * 4096 + r) + k * 4294967296
    BY SMT, <1>5, <1>6, <2>1
  <2> QED
    BY SMT, <1>5, <1>6, <2>2
<1>10. LowerHalf(v) % HalfWord = v % HalfWord
  BY SMT, <1>5, <1>8, <1>9 DEF HalfWord, LA64
<1> QED
  BY SMT, <1>1, <1>2, <1>3, <1>4, <1>5, <1>6, <1>7, <1>10 DEF LowerHalf

-----------------------------------------------------------------------------
(* The steps.                                                               *)

LEMMA StartsRight == SelectInit => SInv
  BY DEF SelectInit, SInv

LEMMA Choosing ==
  ASSUME LA64, NEW v \in Words, LoadSmall(v) \/ LoadMedium(v) \/ LoadLarge(v)
  PROVE  SInv'
<1>1. v \in Int
  BY SMT DEF Words
<1>2. instr'.op = "ConstInt" /\ instr'.a = v
  BY DEF LoadSmall, LoadMedium, LoadLarge, Emit
<1> SUFFICES Loading(v)'
  BY <1>2 DEF SInv, Loading, LoadingSmall, LoadingMedium, LoadingHalf, LoadingLarge
<1>3. CASE LoadSmall(v)
  BY <1>3 DEF LoadSmall, Emit, Loading, LoadingSmall
<1>4. CASE LoadMedium(v)
  <2>1. code' = IF Low(v) # 0 THEN <<I("lu12i.w", "zero", v \div LowSpan), Ori(v)>>
                ELSE <<I("lu12i.w", "zero", v \div LowSpan)>>
    BY SMT, <1>4 DEF LoadMedium, Emit, Ori
  <2> QED
    BY <1>4, <2>1 DEF LoadMedium, Loading, LoadingMedium
<1>5. CASE LoadLarge(v)
  <2>1. code' = IF v \div HalfWord # 0
                THEN <<I("lu12i.w", "zero", Mid(v)), Ori(v), Lu32i(v)>>
                ELSE <<I("lu12i.w", "zero", Mid(v)), Ori(v)>>
    BY SMTT(30), <1>5 DEF LoadLarge, Emit, Ori, Lu32i
  <2> QED
    BY <1>1, <1>5, <2>1 DEF LoadLarge, Loading, LoadingHalf, LoadingLarge
<1> QED
  BY <1>3, <1>4, <1>5

LEMMA Operating ==
  ASSUME NEW op \in (DOMAIN Binary) \cup (DOMAIN Comparison) \cup (DOMAIN Unary),
         instr'.op = op
  PROVE  SInv'
<1>1. op # "ConstInt" /\ op # "none"
  BY SMT DEF Binary, Comparison, Unary
<1> QED
  BY <1>1 DEF SInv

LEMMA Stepping ==
  ASSUME LA64, NEW v, Loading(v), Execute
  PROVE  Loading(v)'
<1>1. code # <<>>
  BY DEF Execute
<1>2. CASE LoadingSmall(v)
  <2>1. v \in Small /\ code = <<I("addi.d", "zero", v)>>
    BY <1>1, <1>2 DEF LoadingSmall
  <2>2. code' = <<>> /\ d' = Loaded("addi.d", 0, v)
    BY SMT, <2>1, Fetched, Registers DEF Loads
  <2> QED
    BY <2>1, <2>2, SmallField DEF Loading, LoadingSmall
<1>3. CASE LoadingMedium(v)
  <2>1. CASE code = <<I("lu12i.w", "zero", v \div LowSpan), Ori(v)>>
    <3>1. code' = <<Ori(v)>> /\ d' = Loaded("lu12i.w", 0, v \div LowSpan)
      BY SMT, <2>1, Fetched, Registers DEF Loads
    <3> QED
      BY <1>3, <3>1, MediumFields DEF Loading, LoadingMedium
  <2>2. CASE code = <<I("lu12i.w", "zero", v \div LowSpan)>> /\ Low(v) = 0
    <3>1. code' = <<>> /\ d' = Loaded("lu12i.w", 0, v \div LowSpan)
      BY SMT, <2>2, Fetched, Registers DEF Loads
    <3> QED
      BY <1>3, <2>2, <3>1, MediumFields DEF Loading, LoadingMedium
  <2>3. CASE code = <<Ori(v)>> /\ d = (v \div LowSpan) * LowSpan
    <3>1. code' = <<>> /\ d' = Loaded("ori", d, Low(v))
      BY SMT, <2>3, Fetched, Registers DEF Loads, Ori
    <3> QED
      BY <1>3, <2>3, <3>1, MediumFields DEF Loading, LoadingMedium
  <2> QED
    BY <1>1, <1>3, <2>1, <2>2, <2>3 DEF LoadingMedium
<1>4. CASE LoadingHalf(v)
  <2>1. CASE code = <<I("lu12i.w", "zero", Mid(v)), Ori(v)>>
    <3>1. code' = <<Ori(v)>> /\ d' = Loaded("lu12i.w", 0, Mid(v))
      BY SMT, <2>1, Fetched, Registers DEF Loads
    <3> QED
      BY <1>4, <3>1, LargeFields DEF Loading, LoadingHalf
  <2>2. CASE code = <<Ori(v)>> /\ d = Upper(v)
    <3>1. code' = <<>> /\ d' = Loaded("ori", d, Low(v))
      BY SMT, <2>2, Fetched, Registers DEF Loads, Ori
    <3> QED
      BY <1>4, <2>2, <3>1, LargeFields DEF Loading, LoadingHalf
  <2> QED
    BY <1>1, <1>4, <2>1, <2>2 DEF LoadingHalf
<1>5. CASE LoadingLarge(v)
  <2>1. CASE code = <<I("lu12i.w", "zero", Mid(v)), Ori(v), Lu32i(v)>>
    <3>1. code' = <<Ori(v), Lu32i(v)>> /\ d' = Loaded("lu12i.w", 0, Mid(v))
      BY SMT, <2>1, Fetched, Registers DEF Loads
    <3> QED
      BY <1>5, <3>1, LargeFields DEF Loading, LoadingLarge
  <2>2. CASE code = <<Ori(v), Lu32i(v)>> /\ d = Upper(v)
    <3>1. code' = <<Lu32i(v)>> /\ d' = Loaded("ori", d, Low(v))
      BY SMT, <2>2, Fetched, Registers DEF Loads, Ori
    <3> QED
      BY <1>5, <2>2, <3>1, LargeFields DEF Loading, LoadingLarge
  <2>3. CASE code = <<Lu32i(v)>> /\ d = LowerHalf(v)
    <3>1. code' = <<>> /\ d' = Loaded("lu32i.d", d, High(v))
      BY SMT, <2>3, Fetched, Registers DEF Loads, Lu32i
    <3> QED
      BY <1>5, <2>3, <3>1, LargeFields DEF Loading, LoadingLarge
  <2> QED
    BY <1>1, <1>5, <2>1, <2>2, <2>3 DEF LoadingLarge
<1> QED
  BY <1>2, <1>3, <1>4, <1>5 DEF Loading

LEMMA Executing ==
  ASSUME LA64, SInv, Execute
  PROVE  SInv'
<1>1. instr' = instr /\ code # <<>>
  BY DEF Execute
<1>2. instr'.op # "none"
  BY <1>1 DEF SInv
<1>3. ASSUME instr'.op = "ConstInt"
      PROVE  Loading(instr.a)'
  <2>1. PICK v : v = instr.a
    OBVIOUS
  <2>2. Loading(v)
    BY <1>1, <1>3, <2>1 DEF SInv
  <2>3. Loading(v)' /\ instr'.a = v
    BY <1>1, <2>1, <2>2, Stepping
  <2> QED
    BY <2>3 DEF Loading, LoadingSmall, LoadingMedium, LoadingHalf, LoadingLarge
<1> QED
  BY <1>2, <1>3 DEF SInv

LEMMA Stays ==
  ASSUME LA64, SInv, [SelectNext]_selectVars
  PROVE  SInv'
<1>1. CASE EmitInstr
  <2>1. CASE \E v \in Words : LoadSmall(v) \/ LoadMedium(v) \/ LoadLarge(v)
    BY <2>1, Choosing
  <2>2. CASE \E op \in DOMAIN Binary, a, b \in Words : EmitBinary(op, a, b)
    BY <2>2, Operating DEF EmitBinary, Emit
  <2>3. CASE \E op \in DOMAIN Comparison, a, b \in Words : EmitComparison(op, a, b)
    BY <2>3, Operating DEF EmitComparison, Emit
  <2>4. CASE \E op \in DOMAIN Unary, a \in Words : EmitUnary(op, a)
    BY <2>4, Operating DEF EmitUnary, Emit
  <2> QED
    BY <1>1, <2>1, <2>2, <2>3, <2>4 DEF EmitInstr
<1>2. CASE Execute
  BY <1>2, Executing
<1>3. CASE UNCHANGED selectVars
  BY <1>3 DEF selectVars, SInv, Loading, LoadingSmall, LoadingMedium, LoadingHalf, LoadingLarge
<1> QED
  BY <1>1, <1>2, <1>3 DEF SelectNext

(* On LA64, for every integer literal of 64 bits, whichever sequence        *)
(* emit_load_imm chooses for it (la64.rs:549): what the register holds at   *)
(* the end is the literal, but for the two ranges that Loadable leaves out, *)
(* and for no literal of these.                                             *)
THEOREM LiteralsAreLoaded ==
  ASSUME LA64
  PROVE  SelectSpec => []LiteralsLoaded
<1>1. SelectInit => SInv
  BY StartsRight
<1>2. SInv /\ [SelectNext]_selectVars => SInv'
  BY Stays
<1>3. SInv => LiteralsLoaded
  BY Ends
<1> QED
  BY <1>1, <1>2, <1>3, PTL DEF SelectSpec
=============================================================================
