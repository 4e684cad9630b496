----------------------------- MODULE MCJsEngine -----------------------------
(* Five requests: a call c1 that waits for another, c2, whose promise hangs *)
(* until its deadline; an eval, a call that wedges and a GC barrier.        *)
EXTENDS JsEngine, TLC

CONSTANTS c1, c2, e1, w1, g1

MCRequests == {c1, c2, e1, w1, g1}
MCKind ==
    c1 :> "call" @@ c2 :> "call" @@ e1 :> "eval" @@ w1 :> "call" @@ g1 :> "gc"
MCCauses == {<<c1, c2>>}
=============================================================================
