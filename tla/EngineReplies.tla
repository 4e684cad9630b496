--------------------------- MODULE EngineReplies ---------------------------
(***************************************************************************)
(* What an engine may tell a caller (oj_js, EngineError): the vocabulary   *)
(* that JsEngine and its abstraction EngineService share.                  *)
(***************************************************************************)
Outcomes == {"ok", "js", "deadline", "memory", "closed"}

\* Deadline goes only to a timed request, MemoryLimit comes only from an
\* engine that is condemned by then, Closed only from one whose handle was
\* given up; and one that was condemned before runs no JavaScript.
TrueReason(value, timed, runsJs, wasCondemned, isCondemned, isOpen) ==
    /\ value = "deadline" => timed
    /\ value = "memory" => isCondemned
    /\ value = "closed" => ~isOpen
    /\ wasCondemned /\ runsJs => value \in {"memory", "closed"}
=============================================================================
