------------------------------ MODULE RymDriver ------------------------------
(****************************************************************************)
(* rymc (rymc/src/main.rs): one run of the compiler, from the source file   *)
(* on disk to the program on disk.  The lexer is RymLexer; of the other     *)
(* phases only the outcome counts here, accepted or not.  The compiler, the *)
(* assembler and the linker that are called are external: given what they   *)
(* expect they do their work or fail, and a failure may leave any wreck of  *)
(* the output.                                                              *)
(*                                                                          *)
(* A path is <<stem, extension>>, a file what is in it.                     *)
(****************************************************************************)
EXTENDS RymLexer

CONSTANT Invocations   \* the command lines, with the directory they are run in

Stems == {"p", "q"}
Extensions == {"", "rym", "c", "s", "o", "rt.o"}
Paths == Stems \X Extensions
NoPath == <<>>

(* others: what all the paths hold at which there is no source.             *)
Invocation ==
    [input : Paths, output : Paths \cup {NoPath}, target : {"c", "la64", "other"},
     emit_only : BOOLEAN, dump : {"none", "tokens", "ast", "ir"},
     others : {"absent", "user"}]

ASSUME InvocationsAssumption == Invocations \subseteq Invocation

Contents == {"absent", "user", "source", "C", "assembly", "object", "runtime", "program", "wreck"}

VARIABLES
    cli,         \* the command line (Cli)
    phase,       \* what main does next
    exit,        \* "running", "ok" or "error"
    disk,        \* what is in the files
    passed,      \* auxiliary: the phases that have accepted the program
    undeleted    \* auxiliary: files that could not be removed

driverVars == <<cli, phase, exit, disk, passed, undeleted>>
allVars == <<lexVars, driverVars>>

Before == [p \in Paths |-> IF p = cli.input THEN "source" ELSE cli.others]

DriverInit ==
    /\ LexInit
    /\ cli \in Invocations
    /\ phase = "read"
    /\ exit = "running"
    /\ disk = Before
    /\ passed = {}
    /\ undeleted = {}

-----------------------------------------------------------------------------
(* Where the output goes: the name that is given or the input's without its *)
(* extension, and next to it the files in between.                          *)

WithExtension(p, ext) == <<p[1], ext>>

BaseOut == IF cli.output = NoPath THEN WithExtension(cli.input, "") ELSE cli.output

CPath == WithExtension(BaseOut, "c")
AsmPath == WithExtension(BaseOut, "s")
ObjPath == WithExtension(BaseOut, "o")
RtObj == WithExtension(BaseOut, "rt.o")

-----------------------------------------------------------------------------
(* The steps of main.  A ? ends the run with an error.                      *)

In(p) == exit = "running" /\ phase = p

Proceed(p) == phase' = p /\ UNCHANGED exit
Leave(outcome) == exit' = outcome /\ UNCHANGED phase

(* A phase that may reject the program; a dump behind it ends the run.      *)
Accept(dump, next) ==
    \/ Leave("error") /\ UNCHANGED passed
    \/ /\ passed' = passed \cup {phase}
       /\ IF dump # "none" /\ cli.dump = dump THEN Leave("ok") ELSE Proceed(next)

ReadSource ==
    /\ In("read")
    /\ Proceed("lex") \/ Leave("error")
    /\ UNCHANGED <<lexVars, cli, disk, passed, undeleted>>

Lex == In("lex") /\ LexNext /\ UNCHANGED driverVars

EndLex ==
    /\ In("lex") /\ ~Lexing
    /\ IF lexed # "ok" THEN Leave("error")
       ELSE IF cli.dump = "tokens" THEN Leave("ok")
       ELSE Proceed("parse")
    /\ passed' = IF lexed = "ok" THEN {"lex"} ELSE {}
    /\ UNCHANGED <<lexVars, cli, disk, undeleted>>

(* The lexer is gone and the parser takes the tokens; src is kept for the   *)
(* places of errors, the last of which are those of the type checker.       *)
Parse ==
    /\ In("parse") /\ Accept("none", "imports")
    /\ tokens' = <<>> /\ pos' = 0
    /\ UNCHANGED <<src, lexed, cli, disk, undeleted>>

ResolveImports ==
    /\ In("imports") /\ Accept("ast", "check")
    /\ UNCHANGED <<lexVars, cli, disk, undeleted>>

(* Fault: the errors are printed, and compilation goes on. *)
CheckPrintsOnly ==
    /\ In("check") /\ Proceed("lower")
    /\ passed' \in {passed, passed \cup {"check"}}
    /\ src' = <<>>
    /\ UNCHANGED <<pos, tokens, lexed, cli, disk, undeleted>>

Check ==
    /\ In("check") /\ Accept("none", "lower")
    /\ src' = <<>>
    /\ UNCHANGED <<pos, tokens, lexed, cli, disk, undeleted>>

Lower ==
    /\ In("lower")
    /\ IF cli.dump = "ir" THEN Leave("ok")
       ELSE CASE cli.target = "c" -> Proceed("write_c")
              [] cli.target = "la64" -> Proceed("write_s")
              [] OTHER -> Leave("error")
    /\ UNCHANGED <<lexVars, cli, disk, passed, undeleted>>

-----------------------------------------------------------------------------
(* The steps of the backends: they write, call a tool or remove a file.     *)

Put(p, content) == disk' = [disk EXCEPT ![p] = content]

(* File p gets content and the run goes on with step, or it ends with an    *)
(* error and leaves of p what is left.  inputs are the files this takes and *)
(* what has to be in them (run_cmd).                                        *)
RunTool(inputs, p, content, step) ==
    /\ \/ /\ \A i \in DOMAIN inputs : disk[i] = inputs[i]
          /\ Put(p, content)
          /\ step
       \/ (\E left \in {disk[p], "absent", "wreck"} : Put(p, left)) /\ Leave("error")
    /\ UNCHANGED <<lexVars, cli, passed, undeleted>>

(* std::fs::write, and a tool whose input is not one of the run's files. *)
Produce(p, content, step) == RunTool(<<>>, p, content, step)

(* let _ = remove_file(p) *)
RemoveFile(p, step) ==
    /\ step
    /\ \/ Put(p, "absent") /\ UNCHANGED undeleted
       \/ UNCHANGED disk /\ undeleted' = undeleted \cup {p}
    /\ UNCHANGED <<lexVars, cli, passed>>

Emitted(next) == IF cli.emit_only THEN Leave("ok") ELSE Proceed(next)

(* compile_c *)
(* Fault: the C file is put next to the input. *)
WriteCBesideInput ==
    In("write_c") /\ Produce(WithExtension(cli.input, "c"), "C", Emitted("cc"))

WriteC == In("write_c") /\ Produce(CPath, "C", Emitted("cc"))
RunCc == In("cc") /\ RunTool(CPath :> "C", BaseOut, "program", Proceed("remove_c"))
RemoveC == In("remove_c") /\ RemoveFile(CPath, Leave("ok"))

(* compile_la64; the runtime is looked for when the assembly is written.    *)
WriteAsm == In("write_s") /\ Produce(AsmPath, "assembly", Emitted("runtime"))
FindRuntime ==
    /\ In("runtime")
    /\ Proceed("as") \/ Leave("error")
    /\ UNCHANGED <<lexVars, cli, passed, disk, undeleted>>
Assemble == In("as") /\ RunTool(AsmPath :> "assembly", ObjPath, "object", Proceed("as_rt"))
AssembleRuntime == In("as_rt") /\ Produce(RtObj, "runtime", Proceed("ld"))

(* Fault: the linker's outcome is not looked at. *)
LinkUnchecked ==
    /\ In("ld")
    /\ \E left \in {disk[BaseOut], "wreck", "program"} : Put(BaseOut, left)
    /\ Proceed("remove_o")
    /\ UNCHANGED <<lexVars, cli, passed, undeleted>>

Link ==
    /\ In("ld")
    /\ RunTool((RtObj :> "runtime") @@ (ObjPath :> "object"), BaseOut, "program",
               Proceed("remove_o"))
RemoveObj == In("remove_o") /\ RemoveFile(ObjPath, Proceed("remove_rt"))
RemoveRt == In("remove_rt") /\ RemoveFile(RtObj, Proceed("remove_s"))

RemoveAsm == In("remove_s") /\ RemoveFile(AsmPath, Leave("ok"))

FrontEnd == ReadSource \/ Lex \/ EndLex \/ Parse \/ ResolveImports \/ Check \/ Lower

Backend ==
    \/ WriteC \/ RunCc \/ RemoveC
    \/ WriteAsm \/ FindRuntime \/ Assemble \/ AssembleRuntime \/ Link
    \/ RemoveObj \/ RemoveRt \/ RemoveAsm

DriverNext == FrontEnd \/ Backend

DriverSpec == DriverInit /\ [][DriverNext]_allVars

-----------------------------------------------------------------------------
(* Properties.                                                              *)

(* The files of the run: the listing it generates, what it makes in between *)
(* and, unless emit_only, the program.                                      *)
Listing == IF cli.target = "c" THEN CPath ELSE AsmPath
Intermediates == IF cli.target = "c" THEN {CPath} ELSE {AsmPath, ObjPath, RtObj}
Products == IF cli.emit_only THEN {Listing} ELSE Intermediates \cup {BaseOut}

(* A run that succeeds has done what it was asked for: the program built    *)
(* from this source is where it should be, and nothing made in between is   *)
(* left (unless it could not be removed); with emit_only the listing is     *)
(* there.  A name given with -o that has the extension of an intermediate   *)
(* file is the exception: the program is built and removed.                 *)
SuccessDelivers ==
    exit = "ok" =>
       IF cli.dump # "none" THEN disk = Before
       ELSE IF cli.emit_only
            THEN disk[Listing] = (IF cli.target = "c" THEN "C" ELSE "assembly")
       ELSE /\ BaseOut \notin Intermediates => disk[BaseOut] = "program"
            /\ \A p \in Intermediates \ undeleted : disk[p] = "absent"

(* However the run ends, no file but its own products has changed, so the   *)
(* source survives unless it is named like one of them (an input without an *)
(* extension, or with that of an intermediate file, is overwritten).        *)
TouchesOnlyProducts ==
    \A p \in Paths \ Products : disk[p] = Before[p]

(* Nothing is written for a program that is not accepted: only when lexer,  *)
(* parser, import resolution and type checker have found no error does the  *)
(* disk change.                                                             *)
WritesOnlyAccepted ==
    disk # Before => lexed = "ok" /\ passed = {"lex", "parse", "imports", "check"}
=============================================================================
