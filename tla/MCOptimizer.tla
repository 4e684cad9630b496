---------------------------- MODULE MCOptimizer ----------------------------
(***************************************************************************)
(* One dependency that the scan finds and one that it misses.  Two calls   *)
(* register the missed one; the third registers the other, which it can    *)
(* when the first bundle left it out.                                      *)
(***************************************************************************)
EXTENDS Optimizer, TLC

CONSTANTS found, missed, c1, c2, c3

MCImport == c1 :> missed @@ c2 :> missed @@ c3 :> found
=============================================================================
