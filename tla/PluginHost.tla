---------------------------- MODULE PluginHost ----------------------------
(***************************************************************************)
(* The life of the plugin host's engine (oj_server/src/plugins/host.rs):   *)
(* one engine generation at a time, declared dead by whoever finds it      *)
(* wedged, out of memory or failing to boot, and revived by a later call   *)
(* within a lifetime budget.  Calls wait for the generation's init, run    *)
(* hooks on the engine they pick and probe one that keeps them waiting.    *)
(*                                                                         *)
(* What is read or written under the revive lock is one step; host_gone    *)
(* and initialized are watch channels that their writers set after letting *)
(* the lock go, so those writes are steps of their own, and come late when *)
(* the thread is descheduled in between.  When, if ever, a hook returns is *)
(* up to the plugins.                                                      *)
(*                                                                         *)
(* Time is not kept: PLUGIN_HOST_RESPAWN_SPACING may have passed since the *)
(* last revive whenever the next is tried, or not.                         *)
(*                                                                         *)
(* An ignite that drops the last handle of the engine it replaces waits    *)
(* for that engine's thread (JsEngine::drop joins it), the revive and the  *)
(* engine lock in its hands.  The model lets the thread end afterwards.    *)
(***************************************************************************)
EXTENDS Naturals

CONSTANTS
    Callers,      \* tasks that call hooks, one call after the other
    Limit,        \* PLUGIN_HOST_RESPAWN_LIMIT
    Addons,       \* native addons are loaded
    None

ASSUME HostAssumption ==
    /\ Limit \in Nat
    /\ Addons \in BOOLEAN
    /\ None \notin 0 .. Limit

Generations == 0 .. Limit

VARIABLES
    generation,   \* ReviveState.generation; attempts is always the same
    reported,     \* ReviveState.reported
    slot,         \* HostCore.engine, by the generation it was spawned for
    gone,         \* host_gone
    initialized,  \* the init gate
    shutDown,     \* shut_down
    retired,      \* shutdown has taken the engine
    engine,       \* the engine of each generation
    booted,       \* engines that evaluated the plugins' top level
    boot,         \* the boot task of each generation
    dispatcher,   \* its push dispatcher
    pushes,       \* generations whose init push is in the channel
    at,           \* where each caller is in call
    my,           \* the generation it ignites, or read for its hook
    on,           \* the engine its hook is on
    blind         \* a flag was written or read in a window of the code below

reviveVars == <<generation, reported>>
flagVars == <<gone, initialized, blind>>
engineVars == <<engine, booted>>
taskVars == <<boot, dispatcher, pushes>>
hostVars == <<reviveVars, slot, flagVars, shutDown, retired, engineVars, taskVars>>
callVars == <<at, my, on>>
vars == <<hostVars, callVars>>

Labels ==
    {"idle", "revive", "ignite", "spawned", "lift", "init", "hook", "pick", "called",
     "probing", "mark", "gone"}

TypeOK ==
    /\ generation \in Generations
    /\ reported \in BOOLEAN
    /\ slot \in Generations \cup {None}
    /\ gone \in BOOLEAN /\ initialized \in BOOLEAN
    /\ shutDown \in BOOLEAN /\ retired \in BOOLEAN
    /\ engine \in [Generations -> {"none", "up", "replaced", "keeping", "closing", "exited"}]
    /\ booted \in SUBSET Generations
    /\ boot \in [Generations -> {"none", "running", "gone", "done"}]
    /\ dispatcher \in [Generations -> {"none", "running", "mark", "gone", "done"}]
    /\ pushes \in SUBSET Generations
    /\ at \in [Callers -> Labels]
    /\ my \in [Callers -> Generations] /\ on \in [Callers -> Generations]
    /\ blind \in BOOLEAN

Init ==
    /\ generation = 0 /\ reported = FALSE
    /\ slot = 0
    /\ gone = FALSE /\ initialized = FALSE
    /\ shutDown = FALSE /\ retired = FALSE
    /\ engine = [g \in Generations |-> IF g = 0 THEN "up" ELSE "none"]
    /\ booted = {}
    /\ boot = [g \in Generations |-> IF g = 0 THEN "running" ELSE "none"]
    /\ dispatcher = [g \in Generations |-> IF g = 0 THEN "running" ELSE "none"]
    /\ pushes = {}
    /\ at = [c \in Callers |-> "idle"]
    /\ my = [c \in Callers |-> 0] /\ on = [c \in Callers |-> 0]
    /\ blind = FALSE

\* The boot task and the hooks have handles of their own.
InUse(g) ==
    \/ boot[g] \in {"running", "gone"}
    \/ \E c \in Callers : at[c] \in {"called", "probing", "mark", "gone"} /\ on[c] = g

\* Abandoned, or replaced in the slot and without a handle since.
Closing(g) == engine[g] = "closing" \/ (engine[g] = "replaced" /\ ~InUse(g))
Dead(g) == Closing(g) \/ engine[g] = "exited"

Goto(c, label) ==
    /\ at' = [at EXCEPT ![c] = label]
    /\ UNCHANGED <<my, on>>

\* The call goes on knowing only which generation it is about, or nothing.
GotoKnowing(c, label, g) ==
    /\ at' = [at EXCEPT ![c] = label]
    /\ my' = [my EXCEPT ![c] = g]
    /\ on' = [on EXCEPT ![c] = 0]
EndCall(c) == GotoKnowing(c, "idle", 0)

-----------------------------------------------------------------------------
(* The flags.  blind records that a thread was late or early with one:     *)
(* gone set for a generation that was replaced meanwhile, or lifted for    *)
(* one whose death was latched already, the gate opened before the engine  *)
(* that calls would now reach has evaluated its module, or gone, which is  *)
(* lifted last, read meanwhile: a push of the new generation is dropped    *)
(* like a dead one's, and a caller revives the host once more.             *)

SetGone(g) ==
    /\ gone' = TRUE
    /\ blind' = (blind \/ generation # g)
    /\ UNCHANGED initialized

MarkInitialized ==
    /\ initialized' = TRUE
    /\ blind' = (blind \/ generation \notin booted)
    /\ UNCHANGED gone

\* abandon: the channel closes, whoever has a handle.
Closed(es, g) == IF g = None THEN es ELSE [es EXCEPT ![g] = "closing"]

\* first_death_report
FirstReport(g) == generation = g /\ ~reported

\* declare_gone under the lock: the engine leaves its slot and is abandoned,
\* or first kept alive until its addons are registered elsewhere.
Retire ==
    /\ reported' = TRUE
    /\ slot' = None
    /\ \/ engine' = Closed(engine, slot)
       \/ /\ Addons /\ slot # None
          /\ engine' = [engine EXCEPT ![slot] = "keeping"]
    /\ UNCHANGED <<generation, booted>>

-----------------------------------------------------------------------------
(* call: a dead host is revived first.                                     *)

Enter(c) ==
    /\ at[c] = "idle" /\ ~(gone /\ shutDown)
    /\ Goto(c, IF gone THEN "revive" ELSE "init")
    /\ UNCHANGED hostVars

\* try_revive: another caller was faster.
AlreadyLive(c) ==
    /\ at[c] = "revive" /\ ~gone
    /\ Goto(c, "init")
    /\ UNCHANGED hostVars

\* The budget is spent, the last revive too recent, or an addon of the dead
\* generation cannot be registered again.
Refused(c) ==
    /\ at[c] = "revive" /\ gone
    /\ EndCall(c)
    /\ UNCHANGED hostVars

\* Faulty form: revives without a budget.
ReviveUnbounded(c) ==
    /\ at[c] = "revive" /\ gone
    /\ generation' = generation + 1
    /\ reported' = FALSE
    /\ initialized' = FALSE
    /\ GotoKnowing(c, "ignite", generation + 1)
    /\ UNCHANGED <<slot, gone, blind, shutDown, retired, engineVars, taskVars>>

\* The generation moves on and reset_generation_state shuts the gate.
Revive(c) ==
    /\ at[c] = "revive" /\ gone
    /\ generation < Limit
    /\ generation' = generation + 1
    /\ reported' = FALSE
    /\ initialized' = FALSE
    /\ blind' = (blind \/ slot # None)
    /\ GotoKnowing(c, "ignite", generation + 1)
    /\ UNCHANGED <<slot, gone, shutDown, retired, engineVars, taskVars>>

\* ignite spawns the engine outside the lock, or fails to.
Spawn(c) ==
    /\ at[c] = "ignite"
    /\ \/ EndCall(c) /\ UNCHANGED engine
       \/ /\ Goto(c, "spawned")
          /\ engine' = [engine EXCEPT ![my[c]] = "up"]
    /\ UNCHANGED <<reviveVars, slot, flagVars, shutDown, retired, booted, taskVars>>

Superseded(c) ==
    /\ at[c] = "spawned"
    /\ generation # my[c] \/ shutDown
    /\ engine' = Closed(engine, my[c])
    /\ EndCall(c)
    /\ UNCHANGED <<reviveVars, slot, flagVars, shutDown, retired, booted, taskVars>>

\* An engine that is still in the slot loses this handle only.
Replaced == IF slot = None THEN engine ELSE [engine EXCEPT ![slot] = "replaced"]

\* Faulty form: ignites after a shutdown.
IgniteAnyway(c) ==
    /\ at[c] = "spawned"
    /\ generation = my[c]
    /\ slot' = my[c]
    /\ engine' = Replaced
    /\ boot' = [boot EXCEPT ![my[c]] = "running"]
    /\ dispatcher' = [dispatcher EXCEPT ![my[c]] = "running"]
    /\ Goto(c, "lift")
    /\ UNCHANGED <<reviveVars, flagVars, shutDown, retired, booted, pushes>>

\* The engine takes the slot.
Ignite(c) ==
    /\ at[c] = "spawned"
    /\ generation = my[c] /\ ~shutDown
    /\ slot' = my[c]
    /\ engine' = Replaced
    /\ boot' = [boot EXCEPT ![my[c]] = "running"]
    /\ dispatcher' = [dispatcher EXCEPT ![my[c]] = "running"]
    /\ Goto(c, "lift")
    /\ UNCHANGED <<reviveVars, flagVars, shutDown, retired, booted, pushes>>

\* The new generation's own death was declared or its channel's end noted.
DeathLatched(g) == reported \/ dispatcher[g] = "done"

\* "Lift the death flag last".
Lift(c) ==
    /\ at[c] = "lift"
    /\ gone' = FALSE
    /\ blind' = (blind \/ generation # my[c] \/ DeathLatched(my[c]))
    /\ GotoKnowing(c, "init", 0)
    /\ UNCHANGED <<reviveVars, slot, initialized, shutDown, retired, engineVars,
                   taskVars>>

\* wait_for_init: only the host's death fails it.
WaitForInit(c) ==
    /\ at[c] = "init" /\ (initialized \/ gone)
    /\ IF initialized THEN Goto(c, "hook") ELSE EndCall(c)
    /\ UNCHANGED hostVars

-----------------------------------------------------------------------------
(* run_hook: the generation is read before the engine.                     *)

ReadGeneration(c) ==
    /\ at[c] = "hook"
    /\ GotoKnowing(c, "pick", generation)
    /\ UNCHANGED hostVars

PickEngine(c) ==
    /\ at[c] = "pick"
    /\ IF slot = None
       THEN EndCall(c)
       ELSE /\ at' = [at EXCEPT ![c] = "called"]
            /\ on' = [on EXCEPT ![c] = slot]
            /\ UNCHANGED my
    /\ UNCHANGED hostVars

InHook(c) == at[c] \in {"called", "probing"}

\* finish_call.  A value needs the module; it opens the gate if the generation
\* is still the one the call read.
FinishOk(c) ==
    /\ at[c] = "called" /\ on[c] \in booted
    /\ IF generation = my[c] THEN Goto(c, "mark") ELSE EndCall(c)
    /\ UNCHANGED hostVars

FinishMarks(c) ==
    /\ at[c] = "mark"
    /\ MarkInitialized
    /\ EndCall(c)
    /\ UNCHANGED <<reviveVars, slot, shutDown, retired, engineVars, taskVars>>

\* An error opens the gate whatever the generation: a throwing hook's, or a
\* module's that failed to evaluate.
FinishJs(c) ==
    /\ at[c] = "called"
    /\ MarkInitialized
    /\ EndCall(c)
    /\ UNCHANGED <<reviveVars, slot, shutDown, retired, engineVars, taskVars>>

\* Closed, or the termination of an abandoned engine.
FinishClosed(c) ==
    /\ at[c] = "called" /\ Dead(on[c])
    /\ EndCall(c)
    /\ UNCHANGED hostVars

\* declare_gone: the heap cap ends a hook with MemoryLimit, or a probe meets
\* two windows of silence.
DeclareGone(c) ==
    /\ InHook(c) /\ FirstReport(my[c])
    /\ Retire
    /\ Goto(c, "gone")
    /\ UNCHANGED <<flagVars, shutDown, retired, taskVars>>

StaleReport(c) ==
    /\ InHook(c) /\ ~FirstReport(my[c])
    /\ EndCall(c)
    /\ UNCHANGED hostVars

DeclaredGone(c) ==
    /\ at[c] = "gone"
    /\ SetGone(my[c])
    /\ EndCall(c)
    /\ UNCHANGED <<reviveVars, slot, shutDown, retired, engineVars, taskVars>>

\* host_gone_wait, for which a reply comes first and a flag that is lifted
\* again before the task runs was never set.
SeesGone(c) ==
    /\ at[c] = "called" /\ gone
    /\ EndCall(c)
    /\ UNCHANGED hostVars

\* The probe: a closed engine refuses it at once.
Probe(c) ==
    /\ at[c] = "called"
    /\ IF Dead(on[c]) THEN EndCall(c) ELSE Goto(c, "probing")
    /\ UNCHANGED hostVars

\* Answered, or with Closed for an engine that went away meanwhile.
ProbeEnds(c) ==
    /\ at[c] = "probing"
    /\ \/ Goto(c, "called") /\ engine[on[c]] # "exited"
       \/ EndCall(c) /\ Dead(on[c])
    /\ UNCHANGED hostVars

-----------------------------------------------------------------------------
(* A generation's boot task and push dispatcher, and its engine.           *)

\* The plugins' top level is done and pushes ojInit.
BootReady(g) ==
    /\ boot[g] = "running" /\ engine[g] # "exited"
    /\ booted' = booted \cup {g}
    /\ pushes' = pushes \cup {g}
    /\ boot' = [boot EXCEPT ![g] = "done"]
    /\ UNCHANGED <<reviveVars, slot, flagVars, shutDown, retired, engine, dispatcher, callVars>>

\* Faulty form: a boot that fails is not reported.
BootFailsUnsaid(g) ==
    /\ boot[g] = "running"
    /\ boot' = [boot EXCEPT ![g] = "done"]
    /\ UNCHANGED <<reviveVars, slot, flagVars, shutDown, retired, engineVars, dispatcher,
                   pushes, callVars>>

\* The seed or the top level fails, for whatever reason: declare_gone.
BootFails(g) ==
    /\ boot[g] = "running"
    /\ IF FirstReport(g) THEN /\ Retire
                              /\ boot' = [boot EXCEPT ![g] = "gone"]
                         ELSE /\ boot' = [boot EXCEPT ![g] = "done"]
                              /\ UNCHANGED <<reviveVars, slot, engine, booted>>
    /\ UNCHANGED <<flagVars, shutDown, retired, dispatcher, pushes, callVars>>

BootGone(g) ==
    /\ boot[g] = "gone"
    /\ SetGone(g)
    /\ boot' = [boot EXCEPT ![g] = "done"]
    /\ UNCHANGED <<reviveVars, slot, shutDown, retired, engineVars, dispatcher,
                   pushes, callVars>>

\* ojHostReady answered with Closed.
BootClosed(g) ==
    /\ boot[g] = "running" /\ Dead(g)
    /\ boot' = [boot EXCEPT ![g] = "done"]
    /\ UNCHANGED <<reviveVars, slot, flagVars, shutDown, retired, engineVars,
                   dispatcher, pushes, callVars>>

\* A push of a dead or replaced generation is dropped.
Push(g) ==
    /\ dispatcher[g] = "running" /\ g \in pushes
    /\ pushes' = pushes \ {g}
    /\ dispatcher' = [dispatcher EXCEPT ![g] =
                        IF gone \/ generation # g THEN "running" ELSE "mark"]
    /\ blind' = (blind \/ (gone /\ generation = g /\ ~DeathLatched(g)))
    /\ UNCHANGED <<reviveVars, slot, gone, initialized, shutDown, retired, engineVars,
                   boot, callVars>>

PushMarks(g) ==
    /\ dispatcher[g] = "mark"
    /\ MarkInitialized
    /\ dispatcher' = [dispatcher EXCEPT ![g] = "running"]
    /\ UNCHANGED <<reviveVars, slot, shutDown, retired, engineVars, boot, pushes,
                   callVars>>

\* The engine thread is gone: latched, unless its generation was replaced.
ChannelClosed(g) ==
    /\ dispatcher[g] = "running" /\ engine[g] = "exited" /\ g \notin pushes
    /\ dispatcher' = [dispatcher EXCEPT ![g] =
                        IF generation = g THEN "gone" ELSE "done"]
    /\ UNCHANGED <<reviveVars, slot, flagVars, shutDown, retired, engineVars, boot,
                   pushes, callVars>>

ChannelGone(g) ==
    /\ dispatcher[g] = "gone"
    /\ SetGone(g)
    /\ dispatcher' = [dispatcher EXCEPT ![g] = "done"]
    /\ UNCHANGED <<reviveVars, slot, shutDown, retired, engineVars, boot, pushes,
                   callVars>>

\* The keeper has registered the addons or given up (AbandonOnDrop).
KeeperDone(g) ==
    /\ engine[g] = "keeping"
    /\ engine' = [engine EXCEPT ![g] = "closing"]
    /\ UNCHANGED <<reviveVars, slot, flagVars, shutDown, retired, booted, taskVars, callVars>>

\* The engine thread ends once its channel is closed.
Exit(g) ==
    /\ Closing(g)
    /\ engine' = [engine EXCEPT ![g] = "exited"]
    /\ UNCHANGED <<reviveVars, slot, flagVars, shutDown, retired, booted, taskVars, callVars>>

-----------------------------------------------------------------------------

\* shutdown: the flag, then the engine under the lock.
Shutdown ==
    /\ ~shutDown
    /\ shutDown' = TRUE
    /\ UNCHANGED <<reviveVars, slot, flagVars, retired, engineVars, taskVars, callVars>>

ShutdownTakes ==
    /\ shutDown /\ ~retired
    /\ retired' = TRUE
    /\ slot' = None
    /\ engine' = Closed(engine, slot)
    /\ UNCHANGED <<reviveVars, flagVars, shutDown, booted, taskVars, callVars>>

CallerStep(c) ==
    \/ Enter(c) \/ AlreadyLive(c) \/ Refused(c) \/ Revive(c)
    \/ Spawn(c) \/ Superseded(c) \/ Ignite(c) \/ Lift(c)
    \/ WaitForInit(c) \/ ReadGeneration(c) \/ PickEngine(c)
    \/ FinishOk(c) \/ FinishMarks(c) \/ FinishJs(c) \/ FinishClosed(c)
    \/ DeclareGone(c) \/ StaleReport(c) \/ DeclaredGone(c)
    \/ SeesGone(c) \/ Probe(c) \/ ProbeEnds(c)

TaskStep(g) ==
    \/ BootReady(g) \/ BootFails(g) \/ BootGone(g) \/ BootClosed(g)
    \/ Push(g) \/ PushMarks(g) \/ ChannelClosed(g) \/ ChannelGone(g)
    \/ KeeperDone(g) \/ Exit(g)

Next ==
    \/ \E c \in Callers : CallerStep(c)
    \/ \E g \in Generations : TaskStep(g)
    \/ Shutdown \/ ShutdownTakes

Spec == Init /\ [][Next]_vars

-----------------------------------------------------------------------------
(* Properties.                                                             *)

\* No engine is left behind: one whose handle nobody gave up is in the slot or
\* just being ignited, whichever revives and shutdowns race, and after a
\* shutdown nobody puts one into the slot.  An engine that a later revive
\* replaced is open until its boot task and its hooks let go of it; it is found
\* by none but those.  "a racing revive can never leave a live engine behind",
\* "racing ignites must never leave a live loser".
NoEngineLeftBehind ==
    /\ \A g \in Generations :
         engine[g] = "up" =>
            slot = g \/ \E c \in Callers : at[c] = "spawned" /\ my[c] = g
    /\ retired => slot = None

\* Somebody found this generation dead and is about to say so.
DeathUnderway(g) ==
    \/ \E c \in Callers : at[c] = "gone" /\ my[c] = g
    \/ boot[g] = "gone"

\* Its death is still to be told, or to be found by its dispatcher.
DeathPending(g) ==
    \/ DeathUnderway(g)
    \/ dispatcher[g] = "gone"
    \/ dispatcher[g] = "running" /\ Dead(g)

\* The init of the generation is still to come: its top level runs, or the
\* dispatcher has the push before it or has still to open the gate for it.
InitPending(g) ==
    \/ boot[g] = "running"
    \/ g \in pushes /\ dispatcher[g] = "running"
    \/ dispatcher[g] = "mark"

\* "only host death (host_gone) fails the wait", which has no deadline: as long
\* as calls wait for the gate of a host that is not gone, somebody is left who
\* opens the gate or raises host_gone.  It is claimed of the races of boots,
\* deaths, revives and a shutdown that meet none of the windows blind records;
\* DeadOrRearmed, which claims it of all, does not hold.
InitOwed ==
    ~blind /\ ~gone => initialized \/ InitPending(generation) \/ DeathPending(generation)

\* "a caller sees a dead host or a fully re-armed one": unless its death is
\* being told, a host that is not gone has the live generation's engine in the
\* slot, its gate is open only when that engine has evaluated the plugins, and
\* shut only while their init is still to come; and a host is gone beside that
\* engine only while the revive that put it there has still to lift the flag.
DeadOrRearmed ==
    IF gone
    THEN slot = generation =>
            \E c \in Callers : at[c] = "lift" /\ my[c] = generation
    ELSE \/ retired
         \/ DeathPending(generation)
         \/ /\ slot = generation
            /\ IF initialized THEN generation \in booted ELSE InitPending(generation)
=============================================================================
