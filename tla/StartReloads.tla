---------------------------- MODULE StartReloads ----------------------------
(***************************************************************************)
(* The page reloads of Start dev (oj/src/start_reloads.rs) behind the      *)
(* editor's gate: a watcher of its own holds the changes and queues a      *)
(* rebundle, the coalescing worker installs its output and counts a change *)
(* (bump), a flush publishes what it released, and a page reloads when the *)
(* published count passes the stamp it was rendered with.                  *)
(***************************************************************************)
EXTENDS HmrGate

CONSTANT Pages

VARIABLES
    startUnseen,  \* changes the Start watcher has not batched yet
    rebundle,     \* the one PendingRebundle's paths, {} for None
    worker,       \* rebundle_worker: where it is, in bump from "counted"
    installed,    \* runs whose output is installed and is to reload pages
    latest,       \* Epochs.latest
    published,    \* Epochs.published
    page,         \* "away", "stamped", "loaded" or "connected"
    has,          \* the stamp of the page's document
    seen,         \* the published count its socket looked at last
    content       \* installed, when the document was rendered

epochVars == <<installed, latest, published>>
pageVars == <<page, has, seen, content>>
startVars == <<startUnseen, rebundle, worker, epochVars, pageVars>>
vars == <<gateVars, startVars>>

TypeOK ==
    /\ GateTypeOK
    /\ startUnseen \in SUBSET Paths
    /\ rebundle \in SUBSET Paths
    /\ worker \in {"idle", "building", "built", "counted", "unheld"}
    /\ installed \in Nat
    /\ latest \in 0 .. installed
    /\ published \in 0 .. latest
    /\ page \in [Pages -> {"away", "stamped", "loaded", "connected"}]
    /\ has \in [Pages -> 0 .. latest]
    /\ seen \in [Pages -> 0 .. published]
    /\ content \in [Pages -> 0 .. installed]

Init ==
    /\ GateInit
    /\ startUnseen = {}
    /\ rebundle = {}
    /\ worker = "idle"
    /\ installed = 0
    /\ latest = 0
    /\ published = 0
    /\ page = [p \in Pages |-> "away"]
    /\ has = [p \in Pages |-> 0]
    /\ seen = [p \in Pages |-> 0]
    /\ content = [p \in Pages |-> 0]

-----------------------------------------------------------------------------
(* The gate and the dev watcher, beside the Start server.                  *)

DiskChange(p) ==
    /\ Change(p)
    /\ startUnseen' = startUnseen \cup {p}
    /\ UNCHANGED <<rebundle, worker, epochVars, pageVars>>

GateStep ==
    /\ \/ \E paths \in SUBSET unseen : HandleBatch(paths)
       \/ EditorFlush
       \/ \E t \in timers : CapTimer(t)
       \/ \E t \in due : CapFlush(t)
       \/ \E t \in tasks : FlushSends(t) \/ BatchWatched(t) \/ Decide(t)
    /\ UNCHANGED startVars

-----------------------------------------------------------------------------
(* The Start watcher and the rebundle worker.                              *)

StartDebounced(paths) ==
    paths # {} /\ paths \subseteq startUnseen /\ Cardinality(paths) <= BatchSize

\* hold_reload at the watcher event, whatever it answers; then the queue.
StartBatch(paths) ==
    /\ StartDebounced(paths)
    /\ startUnseen' = startUnseen \ paths
    /\ IF Held(paths) = {} THEN UNCHANGED <<holdVars, clock>>
                           ELSE Hold(paths, TRUE)
    /\ rebundle' = rebundle \cup paths
    /\ UNCHANGED <<diskVars, unseen, lastFlush, due, tasks, flushSignal, worker,
                   epochVars, pageVars>>

TakeRun ==
    /\ worker = "idle" /\ rebundle # {}
    /\ rebundle' = {}
    /\ worker' = "building"
    /\ UNCHANGED <<gateVars, startUnseen, epochVars, pageVars>>

\* Faulty form: counts an output that is not installed.
InstallUncounted(reload) ==
    /\ worker = "building"
    /\ worker' = IF reload THEN "built" ELSE "idle"
    /\ UNCHANGED <<gateVars, startUnseen, rebundle, epochVars, pageVars>>

\* The run's output is installed.  A run whose changes all went out as hot
\* updates, or that no page runs, reloads nothing (reloads_browser).
Install(reload) ==
    /\ worker = "building"
    /\ IF reload THEN worker' = "built" /\ installed' = installed + 1
                 ELSE worker' = "idle" /\ UNCHANGED installed
    /\ UNCHANGED <<gateVars, startUnseen, rebundle, latest, published, pageVars>>

\* bump: the count moves first, under its lock.
BumpCount ==
    /\ worker = "built"
    /\ latest' = latest + 1
    /\ worker' = "counted"
    /\ UNCHANGED <<gateVars, startUnseen, rebundle, installed, published, pageVars>>

\* Then reload_is_held, which reads the bit and, when it is not set, locks the
\* gate to look at the pending paths.
BumpReadsReload ==
    /\ worker = "counted"
    /\ worker' = IF heldReload THEN "idle" ELSE "unheld"
    /\ UNCHANGED <<gateVars, startUnseen, rebundle, epochVars, pageVars>>

Publish == published' = IF latest > published THEN latest ELSE published

BumpReadsPending ==
    /\ worker = "unheld"
    /\ worker' = "idle"
    /\ IF pending # {} THEN UNCHANGED published ELSE Publish
    /\ UNCHANGED <<gateVars, startUnseen, rebundle, installed, latest, pageVars>>

EpochsLocked == worker \in {"counted", "unheld"}

\* flushed: the gate's receiver publishes what changed meanwhile.
Flushed ==
    /\ flushSignal /\ ~EpochsLocked
    /\ flushSignal' = FALSE
    /\ Publish
    /\ UNCHANGED <<clock, diskVars, unseen, holdVars, lastFlush, due, tasks,
                   startUnseen, rebundle, worker, installed, latest, pageVars>>

-----------------------------------------------------------------------------
(* A page: stamped before it renders, then its socket.                     *)

StampDocument(p) ==
    /\ page[p] = "away" /\ ~EpochsLocked
    /\ has' = [has EXCEPT ![p] = latest]
    /\ page' = [page EXCEPT ![p] = "stamped"]
    /\ UNCHANGED <<gateVars, startUnseen, rebundle, worker, epochVars, seen, content>>

RenderDocument(p) ==
    /\ page[p] = "stamped"
    /\ content' = [content EXCEPT ![p] = installed]
    /\ page' = [page EXCEPT ![p] = "loaded"]
    /\ UNCHANGED <<gateVars, startUnseen, rebundle, worker, epochVars, has, seen>>

Behind(p) == published > has[p]

\* Faulty form: waits for the next change without a look.
ConnectUnchecked(p) ==
    /\ page[p] = "loaded"
    /\ page' = [page EXCEPT ![p] = "connected"]
    /\ seen' = [seen EXCEPT ![p] = published]
    /\ UNCHANGED <<gateVars, startUnseen, rebundle, worker, epochVars, has, content>>

\* The socket asks with the stamp: behind is checked once, on connect.
Connect(p) ==
    /\ page[p] = "loaded"
    /\ page' = [page EXCEPT ![p] = IF Behind(p) THEN "away" ELSE "connected"]
    /\ seen' = [seen EXCEPT ![p] = published]
    /\ UNCHANGED <<gateVars, startUnseen, rebundle, worker, epochVars, has, content>>

\* fell_behind wakes up when the published count moved, and looks again.
FellBehind(p) ==
    /\ page[p] = "connected" /\ published # seen[p]
    /\ page' = [page EXCEPT ![p] = IF Behind(p) THEN "away" ELSE "connected"]
    /\ seen' = [seen EXCEPT ![p] = published]
    /\ UNCHANGED <<gateVars, startUnseen, rebundle, worker, epochVars, has, content>>

\* The socket is lost; the page keeps its stamp and connects again.
Disconnect(p) ==
    /\ page[p] = "connected"
    /\ page' = [page EXCEPT ![p] = "loaded"]
    /\ UNCHANGED <<gateVars, startUnseen, rebundle, worker, epochVars, has, seen,
                   content>>

PageStep(p) == StampDocument(p) \/ RenderDocument(p) \/ Connect(p) \/ FellBehind(p)

WorkerStep ==
    \/ TakeRun
    \/ \E reload \in BOOLEAN : Install(reload)
    \/ BumpCount \/ BumpReadsReload \/ BumpReadsPending

Next ==
    \/ \E p \in Paths : DiskChange(p)
    \/ GateStep
    \/ \E paths \in SUBSET startUnseen : StartBatch(paths)
    \/ WorkerStep
    \/ Flushed
    \/ \E p \in Pages : PageStep(p) \/ Disconnect(p)

\* The worker, the flush receiver, the gate's tasks and timers and an open
\* page run on.
Fairness ==
    /\ WF_vars(\E t \in timers : CapTimer(t) /\ UNCHANGED startVars)
    /\ WF_vars(\E t \in due : CapFlush(t) /\ UNCHANGED startVars)
    /\ WF_vars(\E t \in tasks : (FlushSends(t) \/ BatchWatched(t) \/ Decide(t))
                                  /\ UNCHANGED startVars)
    /\ WF_vars(WorkerStep)
    /\ WF_vars(Flushed)
    /\ \A p \in Pages : WF_vars(PageStep(p))

Spec == Init /\ [][Next]_vars /\ Fairness

-----------------------------------------------------------------------------
(* Properties.                                                             *)

\* A held page reload always has paths pending beside it, so that the cap
\* timer can release it: no race of hold, flush and cap timer leaves the bit
\* set "with nothing pending to make the cap timer fire".
ReloadReleasable == heldReload => pending # {}

\* A counted change is never forgotten: while the pages are not told of it
\* the gate holds something, the worker is still deciding, or a flush that
\* released something is on its way to flushed().
NoMissedReload ==
    published < latest =>
        \/ heldReload \/ pending # {}
        \/ EpochsLocked
        \/ flushSignal
        \/ \E t \in tasks : t.stage = "signal" /\ (t.dispatch \/ t.paths # {})

\* A page never believes it has a change its document was rendered without:
\* otherwise nothing would reload it for that change again.
StampHonest ==
    \A p \in Pages : page[p] \in {"loaded", "connected"} => has[p] <= content[p]

\* Every change pages must reload for reaches every page, across held and
\* released reloads, lost sockets and pages that were loading at the time.
PagesCatchUp ==
    \A p \in Pages : []<>(page[p] = "connected" /\ content[p] >= latest)
=============================================================================
