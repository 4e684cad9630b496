--------------------------- MODULE EngineService ---------------------------
(***************************************************************************)
(* What a JavaScript engine promises the code that holds its handle: a     *)
(* request asked of it gets at most one reply, the reason in an error is   *)
(* true, and an engine whose heap blew up (condemned) or whose handle was  *)
(* given up (closed) never comes back.  How requests are queued, parked    *)
(* and terminated is JsEngine's business.                                  *)
(***************************************************************************)
EXTENDS EngineReplies

CONSTANTS
    Requests,
    HasDeadline,   \* requests that may be told that their time is up
    Barriers       \* requests that run no JavaScript (the GC barrier)

VARIABLES
    asked,         \* requests the engine was asked
    reply,         \* what each was told, "none" so far
    condemned,     \* the heap cap fired
    open           \* the handle is held

vars == <<asked, reply, condemned, open>>

Init ==
    /\ asked = {}
    /\ reply = [r \in Requests |-> "none"]
    /\ condemned = FALSE
    /\ open = TRUE

Truthful(r, value) ==
    TrueReason(value, r \in HasDeadline, r \notin Barriers, condemned, condemned', open')

\* A closed engine refuses on the spot.
Ask(r) ==
    /\ r \notin asked
    /\ asked' = asked \cup {r}
    /\ reply' = IF open THEN reply ELSE [reply EXCEPT ![r] = "closed"]
    /\ UNCHANGED <<condemned, open>>

\* Some of those that wait are answered, together when the heap cap or the
\* end of the thread fails them all.
Serve ==
    /\ condemned' \in {condemned, TRUE}
    /\ reply' \in [Requests -> {"none"} \cup Outcomes]
    /\ \A r \in Requests :
         reply'[r] = reply[r] \/ (/\ r \in asked /\ reply[r] = "none"
                                  /\ Truthful(r, reply'[r]))
    /\ UNCHANGED <<asked, open>>

Shut ==
    /\ open' = FALSE
    /\ UNCHANGED <<asked, reply, condemned>>

Next == (\E r \in Requests : Ask(r)) \/ Serve \/ Shut

Spec == Init /\ [][Next]_vars
=============================================================================
