------------------------------ MODULE HmrGate ------------------------------
(***************************************************************************)
(* The editor's HMR gate (oj_server/src/hmr.rs): file changes are held     *)
(* until the editor posts a flush or the hold cap runs out, and what a     *)
(* flush releases becomes hot updates.  The dev watcher's batches          *)
(* (watch.rs, handle_batch) are held, or dispatched in a task each.        *)
(*                                                                         *)
(* Every clock reading is a tick of its own: SystemTime has nanoseconds.   *)
(***************************************************************************)
EXTENDS Naturals, FiniteSets

CONSTANTS
    Paths,        \* watched files, none of them a restart trigger
    Relevant,     \* gate_relevant: not build output, cache or node_modules
    Deletable,    \* bound: the files anyone deletes
    BatchSize,    \* how many paths the watcher's debounce may put together
    MaxTime       \* bound: no write and no editor flush from then on

ASSUME GateAssumption ==
    /\ Relevant \subseteq Paths /\ Deletable \subseteq Paths
    /\ BatchSize \in Nat /\ MaxTime \in Nat

VARIABLES
    clock,        \* the next SystemTime::now(), from 1
    mtime,        \* modified() of a file, 0 before its first write
    deleted,      \* files whose mtime is unreadable
    unseen,       \* changes the dev watcher has not batched yet
    owed,         \* changes no update was decided for yet
    pending,      \* GateInner.pending
    lastFlush,    \* GateInner.last_flush, 0 for None
    heldReload,   \* HmrGate.held_reload
    timers,       \* sleeping cap timers, by the instant each was armed
    due,          \* cap timers that found their hold set expired
    tasks,        \* spawned batches and running flushes
    flushSignal   \* gate_flush_tx has a message its receiver has not read

diskVars == <<mtime, deleted, owed>>
holdVars == <<pending, heldReload, timers>>
gateVars == <<clock, diskVars, unseen, holdVars, lastFlush, due, tasks, flushSignal>>

\* Two alike tasks are one: the second finds nothing left to do.
Task == [stage : {"watch", "decide", "signal"}, paths : SUBSET Paths,
         dispatch : BOOLEAN]

GateTypeOK ==
    /\ clock \in Nat \ {0}
    /\ mtime \in [Paths -> 0 .. clock - 1]
    /\ deleted \in SUBSET Paths
    /\ unseen \in SUBSET Paths
    /\ owed \in SUBSET Paths
    /\ pending \in SUBSET Paths
    /\ lastFlush \in 0 .. clock - 1
    /\ heldReload \in BOOLEAN
    /\ timers \in SUBSET (1 .. clock - 1)
    /\ due \in SUBSET (1 .. clock - 1)
    /\ tasks \in SUBSET Task
    /\ flushSignal \in BOOLEAN

GateInit ==
    /\ clock = 1
    /\ mtime = [p \in Paths |-> 0]
    /\ deleted = {}
    /\ unseen = {}
    /\ owed = {}
    /\ pending = {}
    /\ lastFlush = 0
    /\ heldReload = FALSE
    /\ timers = {}
    /\ due = {}
    /\ tasks = {}
    /\ flushSignal = FALSE

-----------------------------------------------------------------------------
(* The disk: the editor, or anyone, changes a file.                        *)

Write(p) ==
    /\ clock < MaxTime
    /\ clock' = clock + 1
    /\ mtime' = [mtime EXCEPT ![p] = clock]
    /\ deleted' = deleted \ {p}
    /\ owed' = owed \cup {p}

Delete(p) ==
    /\ p \in Deletable \ deleted
    /\ deleted' = deleted \cup {p}
    /\ owed' = owed \cup {p}
    /\ UNCHANGED <<clock, mtime>>

Change(p) ==
    /\ Write(p) \/ Delete(p)
    /\ unseen' = unseen \cup {p}
    /\ UNCHANGED <<holdVars, lastFlush, due, tasks, flushSignal>>

-----------------------------------------------------------------------------
(* hold: under the gate's lock, the relevant paths whose write no flush    *)
(* covers are held; the first of a hold set arms the cap timer.            *)

Held(paths) ==
    {p \in paths \cap Relevant :
        \/ lastFlush = 0
        \/ p \in deleted
        \/ mtime[p] > lastFlush}

\* Faulty form: arms no timer while an older one sleeps.
HoldArmingOnce(paths, reload) ==
    /\ pending' = pending \cup Held(paths)
    /\ heldReload' = (heldReload \/ reload)
    /\ IF timers = {}
       THEN timers' = timers \cup {clock} /\ clock' = clock + 1
       ELSE UNCHANGED <<timers, clock>>

Hold(paths, reload) ==
    /\ pending' = pending \cup Held(paths)
    /\ heldReload' = (heldReload \/ reload)
    /\ IF pending = {}
       THEN timers' = timers \cup {clock} /\ clock' = clock + 1
       ELSE UNCHANGED <<timers, clock>>

\* The watcher thread's debounce: what it puts into one batch is open.
Debounced(paths) ==
    paths # {} /\ paths \subseteq unseen /\ Cardinality(paths) <= BatchSize

\* Faulty form: never dispatches a batch.
HandleBatchHeldOnly(paths) ==
    /\ Debounced(paths)
    /\ unseen' = unseen \ paths
    /\ tasks' = tasks \cup
         {[stage |-> "watch", paths |-> paths, dispatch |-> FALSE]}
    /\ IF Held(paths) = {} THEN UNCHANGED <<holdVars, clock>>
                           ELSE Hold(paths, FALSE)
    /\ UNCHANGED <<diskVars, lastFlush, due, flushSignal>>

\* handle_batch: a batch the gate holds nothing of is dispatched whole.
HandleBatch(paths) ==
    /\ Debounced(paths)
    /\ unseen' = unseen \ paths
    /\ tasks' = tasks \cup
         {[stage |-> "watch", paths |-> paths, dispatch |-> Held(paths) = {}]}
    /\ IF Held(paths) = {} THEN UNCHANGED <<holdVars, clock>>
                           ELSE Hold(paths, FALSE)
    /\ UNCHANGED <<diskVars, lastFlush, due, flushSignal>>

-----------------------------------------------------------------------------
(* flush: the lock, then the signal to the Start server, then the updates. *)

\* Faulty form: leaves the reload bit set.
DrainKeepingReload ==
    /\ clock' = clock + 1
    /\ lastFlush' = clock
    /\ pending' = {}
    /\ tasks' = tasks \cup
         {[stage |-> "signal", paths |-> pending, dispatch |-> heldReload]}
    /\ UNCHANGED <<diskVars, unseen, timers, flushSignal, heldReload>>

\* Faulty form: dates the flush after it.
DrainAhead ==
    /\ clock' = clock + 1
    /\ lastFlush' = clock + 1
    /\ pending' = {}
    /\ heldReload' = FALSE
    /\ tasks' = tasks \cup
         {[stage |-> "signal", paths |-> pending, dispatch |-> heldReload]}
    /\ UNCHANGED <<diskVars, unseen, timers, flushSignal>>

\* Faulty form: drops what it drained.
DrainForgetting ==
    /\ clock' = clock + 1
    /\ lastFlush' = clock
    /\ pending' = {}
    /\ heldReload' = FALSE
    /\ UNCHANGED <<diskVars, unseen, timers, flushSignal, tasks>>

\* A flush task's dispatch is the held_reload it swapped out.
Drain ==
    /\ clock' = clock + 1
    /\ lastFlush' = clock
    /\ pending' = {}
    /\ heldReload' = FALSE
    /\ tasks' = tasks \cup
         {[stage |-> "signal", paths |-> pending, dispatch |-> heldReload]}
    /\ UNCHANGED <<diskVars, unseen, timers, flushSignal>>

EditorFlush == clock < MaxTime /\ Drain /\ UNCHANGED due

\* The cap timer: it looks under the lock whether its hold set was ever
\* flushed, lets the lock go, and flushes.
CapTimer(t) ==
    /\ t \in timers
    /\ timers' = timers \ {t}
    /\ due' = IF pending # {} /\ lastFlush < t THEN due \cup {t} ELSE due
    /\ UNCHANGED <<clock, diskVars, unseen, pending, heldReload, lastFlush,
                   tasks, flushSignal>>

CapFlush(t) == t \in due /\ Drain /\ due' = due \ {t}

\* Faulty form: a flush of mere paths says nothing.
SignalOnReload(t) == flushSignal \/ t.dispatch

\* A flush that released something says so.
Signal(t) == flushSignal \/ t.dispatch \/ t.paths # {}

\* A task goes on as next, or ends.
Replace(t, next) == tasks' = (tasks \ {t}) \cup next

FlushSends(t) ==
    /\ t \in tasks /\ t.stage = "signal"
    /\ flushSignal' = Signal(t)
    /\ Replace(t, {[x EXCEPT !.stage = "decide"] : x \in {y \in {t} : y.paths # {}}})
    /\ UNCHANGED <<clock, diskVars, unseen, holdVars, lastFlush, due>>

\* The batch's task has run the plugins' watch hooks and invalidated the
\* graph; a held batch ends here.
BatchWatched(t) ==
    /\ t \in tasks /\ t.stage = "watch"
    /\ Replace(t, {[x EXCEPT !.stage = "decide"] : x \in {y \in {t} : y.dispatch}})
    /\ UNCHANGED <<clock, diskVars, unseen, holdVars, lastFlush, due, flushSignal>>

\* decide: the hot updates (or the reload) of these paths go to the browser.
Decide(t) ==
    /\ t \in tasks /\ t.stage = "decide"
    /\ owed' = owed \ t.paths
    /\ Replace(t, {})
    /\ UNCHANGED <<clock, mtime, deleted, unseen, holdVars, lastFlush, due,
                   flushSignal>>

GateNext ==
    \/ \E p \in Paths : Change(p)
    \/ \E paths \in SUBSET unseen : HandleBatch(paths)
    \/ EditorFlush
    \/ \E t \in timers : CapTimer(t)
    \/ \E t \in due : CapFlush(t)
    \/ \E t \in tasks : FlushSends(t) \/ BatchWatched(t) \/ Decide(t)

\* The watcher thread, the runtime's timers and its tasks run on; nobody has
\* to write or to flush.
GateFairness ==
    /\ WF_gateVars(\E paths \in SUBSET unseen : HandleBatch(paths))
    /\ WF_gateVars(\E t \in timers : CapTimer(t))
    /\ WF_gateVars(\E t \in due : CapFlush(t))
    /\ WF_gateVars(\E t \in tasks : FlushSends(t) \/ BatchWatched(t) \/ Decide(t))

GateSpec == GateInit /\ [][GateNext]_gateVars /\ GateFairness

-----------------------------------------------------------------------------
(* Properties.                                                             *)

Underway == UNION {t.paths : t \in {u \in tasks : u.stage # "watch" \/ u.dispatch}}

\* No change is dropped between the watcher, the gate and the browser: one
\* that no update was decided for is still to be batched, held, or on its way
\* in a dispatched batch or a flush.  hold: "that flush covers every write
\* made before it, however late the write's watcher event is delivered".
NothingLost == owed \subseteq unseen \cup pending \cup Underway

\* A hold set is never left without the cap timer that releases it: one is
\* sleeping that no flush has outdated, or has already found the set expired.
CapWatches == pending # {} => due # {} \/ \E t \in timers : lastFlush < t

\* Every change reaches the browser, though no editor ever flushes.
EveryChangeReleased == \A p \in Paths : (p \in owed) ~> (p \notin owed)
=============================================================================
