---------------------------- MODULE MCRymImports ----------------------------
(* RymImports on every import graph over three files with one or two items  *)
(* each, at least one of them an import or the only one.                    *)
EXTENDS RymImports

CONSTANTS Main, A, B

MCFiles == {Main, A, B}
MCShapes == BoundedSeq(MCFiles \cup {Def}, 2) \ {<<>>, <<Def, Def>>}

Ended == outcome # "running" /\ UNCHANGED vars

MCSpec == Init /\ [][Next \/ Ended]_vars
MCFairSpec == MCSpec /\ WF_vars(Next)
=============================================================================
