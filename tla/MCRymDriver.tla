----------------------------- MODULE MCRymDriver -----------------------------
(* RymDriver: the default command line on every file of up to MaxLen        *)
(* characters, and every command line on a few files.                       *)
EXTENDS RymDriver

CONSTANT MaxLen   \* bound: the length of a file

Alphabet == {"a", "f", "1", "_", ".", "/", "=", "<", "\"", "\\", "\n", " ", "!"}

MCSources == UNION {[1..n -> Alphabet] : n \in 0..MaxLen}
MCKeywords == {<<"f">>}
MCMacroWord == <<"a">>

Plain == [input |-> <<"p", "rym">>, output |-> NoPath, target |-> "c",
          emit_only |-> FALSE, dump |-> "none", others |-> "absent"]

MCInvocations ==
    {c \in [input : {<<"p", "rym">>, <<"p", "c">>, <<"p", "">>},
            output : {NoPath, <<"q", "">>, <<"q", "c">>, <<"q", "s">>, <<"q", "o">>},
            target : {"c", "la64", "other"}, emit_only : BOOLEAN,
            dump : {"none", "tokens", "ast", "ir"}, others : {"absent", "user"}] :
        c.others = "user" => c.dump = "none"}

Few == {<<>>, <<"a">>, <<"\"">>}

Exited == exit # "running" /\ UNCHANGED allVars

MCInit == DriverInit /\ (cli = Plain \/ src \in Few)

MCSpec == MCInit /\ [][DriverNext \/ Exited]_allVars
=============================================================================
