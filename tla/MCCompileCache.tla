--------------------------- MODULE MCCompileCache ---------------------------
(* Two concurrent requests for a sheet; they are interchangeable.           *)
EXTENDS CompileCache, TLC

CONSTANTS r1, r2

Symmetry == Permutations(Requests)
=============================================================================
