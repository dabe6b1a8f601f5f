----------------------------- MODULE RymImports -----------------------------
(****************************************************************************)
(* Import resolution in the driver (rymc/src/main.rs): before a file is     *)
(* checked, resolve_imports_inner replaces every import of its def zone by  *)
(* the def zone of the imported file, recursively.  stack holds the         *)
(* activations of that function, the root file's first.                     *)
(*                                                                          *)
(* The files, their rings and what they import are chosen at the start; a   *)
(* definition is known by the file and the place it was written at.         *)
(****************************************************************************)
EXTENDS Integers, SequencesExt

CONSTANTS
    Files,    \* canonical paths
    Root,     \* the file given to rymc
    Def,      \* an item that is no import
    Shapes    \* the def zones to choose from: sequences of files to import and Defs

ASSUME RootAssumption == Root \in Files
ASSUME DefAssumption == Def \notin Files
ASSUME ShapesAssumption == Shapes \subseteq Seq(Files \cup {Def})

VARIABLES
    shape, ring, readable,  \* what the files say; they do not change
    stack,    \* activations: [file, zone, i], zone and i as in the code (i from 1)
    visited,  \* canonical paths seen
    outcome   \* "running", "merged", or the error that stopped it

files == <<shape, ring, readable>>
vars == <<shape, ring, readable, stack, visited, outcome>>

Item == [kind : {"def", "import"}, file : Files, n : Nat]

(* What the parser returns for the def zone of f. *)
Parsed(f) ==
    [k \in DOMAIN shape[f] |->
        IF shape[f][k] = Def THEN [kind |-> "def", file |-> f, n |-> k]
        ELSE [kind |-> "import", file |-> shape[f][k], n |-> k]]

Activation(f) == [file |-> f, zone |-> Parsed(f), i |-> 1]

(* Fault: the import is not removed. *)
SpliceKeepsImport(zone, i, items) ==
    SubSeq(zone, 1, i - 1) \o items \o SubSeq(zone, i, Len(zone))

(* Fault: the items are put at the end. *)
SpliceAtEnd(zone, i, items) ==
    SubSeq(zone, 1, i - 1) \o SubSeq(zone, i + 1, Len(zone)) \o items

(* zone with the item at i replaced by items: remove(i), then insert. *)
Splice(zone, i, items) ==
    SubSeq(zone, 1, i - 1) \o items \o SubSeq(zone, i + 1, Len(zone))

(* Fault: the item behind the spliced ones is skipped. *)
AfterSkips(i, items) == i + Len(items) + 1

(* i += n *)
After(i, items) == i + Len(items)

(* a with its def zone changed and i moved. *)
Moved(a, zone, i) == [a EXCEPT !.zone = zone, !.i = i]

Top == stack[Len(stack)]
Running == outcome = "running"
AtItem(kind) == Running /\ Top.i <= Len(Top.zone) /\ Top.zone[Top.i].kind = kind
Target == Top.zone[Top.i].file

Init ==
    /\ shape \in [Files -> Shapes]
    /\ ring \in [Files -> {"safe", "base"}]
    /\ readable \in {r \in [Files -> BOOLEAN] : r[Root]}
    /\ stack = <<Activation(Root)>>
    /\ visited = {}
    /\ outcome = "running"

-----------------------------------------------------------------------------
Continue(zone, i) ==
    /\ stack' = [stack EXCEPT ![Len(stack)] = Moved(@, zone, i)]
    /\ UNCHANGED <<files, outcome>>

KeepDef ==
    /\ AtItem("def")
    /\ Continue(Top.zone, Top.i + 1)
    /\ UNCHANGED visited

(* An import of a path seen before is dropped; nothing else is looked at. *)
DropVisited ==
    /\ AtItem("import") /\ Target \in visited
    /\ Continue(Splice(Top.zone, Top.i, <<>>), Top.i)
    /\ UNCHANGED visited

Visit ==
    /\ AtItem("import") /\ Target \notin visited
    /\ visited' = visited \cup {Target}
    /\ UNCHANGED files

Stop(error) == outcome' = error /\ UNCHANGED stack

(* The file does not exist, does not lex or does not parse. *)
FailRead ==
    /\ Visit
    /\ ~readable[Target]
    /\ Stop("unreadable")

(* Fault: the rings are compared the wrong way round. *)
RingBrokenSwapped(importer, imported) == ring[importer] = "base" /\ ring[imported] = "safe"

RingBroken(importer, imported) == ring[importer] = "safe" /\ ring[imported] = "base"

FailRing ==
    /\ Visit
    /\ readable[Target] /\ RingBroken(Top.file, Target)
    /\ Stop("ring")

(* The imported file is parsed and its own imports are resolved first. *)
Descend ==
    /\ Visit
    /\ readable[Target] /\ ~RingBroken(Top.file, Target)
    /\ stack' = Append(stack, Activation(Target))
    /\ UNCHANGED outcome

AtEnd == Running /\ Top.i > Len(Top.zone)

(* The recursive call returns: its def zone takes the import's place. *)
Merge ==
    /\ AtEnd /\ Len(stack) > 1
    /\ LET callers == SubSeq(stack, 1, Len(stack) - 1)
           below == callers[Len(callers)]
       IN  stack' = [callers EXCEPT ![Len(callers)] =
                        Moved(below, Splice(below.zone, below.i, Top.zone),
                                     After(below.i, Top.zone))]
    /\ UNCHANGED <<files, visited, outcome>>

Finish ==
    /\ AtEnd /\ Len(stack) = 1
    /\ outcome' = "merged"
    /\ UNCHANGED <<files, stack, visited>>

Next ==
    \/ KeepDef \/ DropVisited \/ FailRead \/ FailRing \/ Descend \/ Merge \/ Finish

Spec == Init /\ [][Next]_vars

(* The driver is one sequential program that waits for nothing. *)
FairSpec == Spec /\ WF_vars(Next)

-----------------------------------------------------------------------------
(* Properties.                                                              *)

(* Types; i stays within the def zone or just behind it.                    *)
ActivationType == [file : Files, zone : Seq(Item), i : Nat \ {0}]

ImportsTypeOK ==
    /\ shape \in [Files -> Shapes]
    /\ ring \in [Files -> {"safe", "base"}]
    /\ readable \in [Files -> BOOLEAN]
    /\ stack \in Seq(ActivationType) /\ stack # <<>>
    /\ \A k \in DOMAIN stack : stack[k].i <= Len(stack[k].zone) + 1
    /\ visited \subseteq Files
    /\ outcome \in {"running", "merged", "unreadable", "ring"}

(* Every import that is still open stands at the item its file is about to  *)
(* replace, so a splice never hits a definition; below it, only definitions *)
(* are left.                                                                *)
Opened ==
    \A k \in DOMAIN stack :
       /\ \A j \in 1..(stack[k].i - 1) : stack[k].zone[j].kind = "def"
       /\ k < Len(stack) =>
             /\ stack[k].i <= Len(stack[k].zone)
             /\ stack[k].zone[stack[k].i].kind = "import"
             /\ stack[k].zone[stack[k].i].file = stack[k + 1].file

Merged == stack[1].zone
Done == outcome = "merged"

Imports(f) == {g \in Files : \E k \in DOMAIN shape[f] : shape[f][k] = g}

(* What the files of S import, directly or through others, and S.           *)
Closed(T) == \A f \in T : Imports(f) \subseteq T
Closure(S) == {f \in Files : \A T \in SUBSET Files : (S \subseteq T /\ Closed(T)) => f \in T}

Reachable == Closure({Root})
Defs(f) == {k \in DOMAIN shape[f] : shape[f][k] = Def}

Position(f, n) == {p \in DOMAIN Merged : Merged[p].file = f /\ Merged[p].n = n}

(* The merged zone holds every definition of every file the root reaches    *)
(* and no import; those of an imported file once, those of the root itself  *)
(* once more if some file imports it back (the root is not in visited).     *)
MergesAll ==
    Done =>
      /\ \A p \in DOMAIN Merged : Merged[p].kind = "def" /\ Merged[p].file \in Reachable
      /\ \A f \in Reachable : \A n \in Defs(f) :
            Cardinality(Position(f, n)) \in (IF f = Root THEN {1, 2} ELSE {1})

(* Without a cycle a definition comes after everything the imports above it *)
(* bring in: lowering collects enum layouts in item order (lower.rs), so an *)
(* enum has to be merged before the functions that use it.                  *)
Acyclic == \A f \in Files : f \notin Closure(Imports(f))

ImportsComeFirst ==
    (Done /\ Acyclic) =>
      \A f \in Reachable : \A n \in Defs(f), k \in DOMAIN shape[f] :
         (k < n /\ shape[f][k] # Def) =>
            \A g \in Closure({shape[f][k]}) : \A m \in Defs(g) :
               \A p \in Position(g, m), q \in Position(f, n) : p < q

(* A safe root never gets code of a base file: "a safe file cannot import a *)
(* base file", however long the chain of imports.                           *)
SafeRootStaysSafe ==
    ring[Root] = "safe" =>
       \A k \in DOMAIN stack :
          /\ ring[stack[k].file] = "safe"
          /\ \A j \in DOMAIN stack[k].zone :
                stack[k].zone[j].kind = "def" => ring[stack[k].zone[j].file] = "safe"

(* "Enforces ring isolation: a safe file cannot import a base file." *)
RingIsolation ==
    Done => \A f \in Reachable, g \in Files : g \in Imports(f) => ~RingBroken(f, g)

(* Cycles do not keep it going: resolution ends, merged or with an error. *)
Resolves == <>(outcome # "running")
=============================================================================
