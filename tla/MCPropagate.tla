---------------------------- MODULE MCPropagate ----------------------------
(* Three modules and five imports between them, cycles and a self-import    *)
(* among them, with c a stylesheet.                                         *)
EXTENDS Propagate, TLC

CONSTANTS a, b, c

MCModules == {a, b, c}
MCRank == a :> 1 @@ b :> 2 @@ c :> 3
MCSheets == {c}
MCEdges == {<<a, b>>, <<b, a>>, <<b, c>>, <<c, a>>, <<c, c>>}
=============================================================================
