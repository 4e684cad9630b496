# TLA+ models of the `oj` dev server

`oj` is a development server and build tool for web projects: it serves every
source file as a compiled ES module, keeps a graph of who imports whom, turns a
file change into the smallest hot update that is correct, and embeds a
JavaScript engine for plugins, CSS tools and server-side rendering. The modules
here model the parts of it where several threads, tasks, caches and clients
meet. TLC checks them on small instances; TLAPS proves that their safety
properties hold for every value of the constants, and that the engine
implements the service its owners rely on. `PROJECT.json`
maps every definition to the source lines it stands for.

Contents: [the system](#the-system) · [modules](#modules-and-the-code-they-model) ·
[runs](#runs) · [fairness](#fairness) · [proofs](#proofs) ·
[findings](#findings) · [not modelled](#not-modelled) · [plan](#plan)

## The system

| component | state | operations | correct when |
|---|---|---|---|
| Module graph (`oj_graph/src/lib.rs`) | nodes, both directions of the import edges, what each module accepts, HMR and invalidation stamps | register a compiled module, invalidate on change, stamp an update, accept an invalidation | edges agree; a prune names exactly what lost its last importer; an update leaves no gap in the stamped chain; invalidation stamps never repeat |
| Propagation (`oj_graph/src/propagate.rs`) | a colour per module, a stack, the boundaries found | walk from an update's seeds to its boundaries | ends; finds all boundaries and no others; reloads only when needed; what is re-imported is stamped |
| HMR gate (`oj_server/src/hmr.rs`, `watch.rs`) | pending paths, last flush, held reload, cap timers, tasks | hold, flush, cap, dispatch, decide | no change is lost; each is released without an editor |
| Start reload epochs (`oj/src/start_reloads.rs`, `start_dev.rs`) | latest and published counts, the pages' stamps, one pending rebundle | hold, rebundle, install, bump, publish, serve a document, connect | every page ends up with the newest document; no stamp claims too much |
| Compile pipeline (`oj_server/src/module_pipeline.rs`) | fast-path keys, memory and on-disk cache, a lock per url | look up, compile, store, invalidate | no request gets a module older than what it may rely on |
| JavaScript engine (`oj_js`) | job channel, parked calls, watchdog, heap-cap and condemnation flags | submit, run, park, settle, time out, condemn, abandon, drop | a termination hits only the job it is for; verdicts are true; every request is answered |
| Watcher and restarter (`oj_server/src/watch.rs`) | debounce window, content hashes, restart request | batch, rescan, request a restart | no lost event, no spurious one |
| Plugin host (`oj_server/src/plugins/host.rs`) | generation, engine slot, `host_gone`, the init gate, a respawn budget | call a hook, probe, declare dead, revive, boot, shut down | no engine is left behind; the flags agree on the live generation; no call waits for what cannot come |
| Dependency optimizer (`oj_server/src/optimize.rs`) | the live map, discovered, pending and failed imports, one task | register, hold a request, scan, bundle, commit | a registered import is bundled; a URL handed out works until the page is told to reload |
| CSS engine (`oj_server`) | the engine it owns | call, replace a condemned engine | a call does not go to a condemned engine twice |
| Start bundle, SSR runner (`oj`) | the installed bundle, pinned generations | rebundle, install, run | a request renders with one generation |
| Compilers, config, resolver, CLI, vendored Deno | none that is shared | pure or batch | not this project's subject |

How they interact. The watcher's thread batches file events. A batch is held by
the gate or dispatched in a task that invalidates the graph, drops fast-path
keys and decides an update: `decide` walks the graph with Propagation, stamps it,
and sends frames to the browsers. The browser then fetches modules; every fetch
goes through the compile pipeline, whose key contains the graph's stamps, and
registers the compiled module in the graph again. Start dev has a second watcher
on the same gate, a coalescing rebundle worker and page sockets. A compile that
meets a bare import registers it with the optimizer and writes its future URL
into the module; the browser's request for that URL waits for the bundle.
Plugins, CSS tools and SSR run in JavaScript engines, each a thread with a job
channel; the plugin host replaces its engine when that one wedges or dies.

What is hard about it: two watchers, timer tasks and an HTTP handler change the
gate; stamps, targets and keys are read under one lock acquisition and used
under another; the on-disk cache outlives the process that numbered its keys;
a deadline and a heap cap terminate the whole isolate while jobs start, park and
end; a call may wait for a request it made of its own engine; an engine is
replaced while calls of the old one are still coming back; imports are
registered while the bundle they missed is being committed. The `hazards` of
`PROJECT.json` list these places line by line with the properties that watch
them.

## Modules and the code they model

**`GraphState`** declares the structure of the module graph and defines the
walks that depend on nothing else. Each is the least set closed under its
loop's step (`DirtyClosure` for `dirty_closure`), which is what a
worklist computes in any order.

**`ModuleGraph`** (`oj_graph/src/lib.rs`; the callers in `module_pipeline.rs`
and `hmr.rs`) adds stamps and clock and has one action per operation that runs
under the graph's lock. `Register` is all of `register_in_graph`: the imports
with their pruning, the acceptance, the bindings and the stamping of what was
pruned. A *shape* is what a compile can say of a module. `pruneFrame` and
`handedBack` record what the last step tells the client. `decide_file` and the
invalidate handler read the clock before they take the graph's lock
(`hmr.rs:1321`, `216`), so `StampUpdate` and `AcceptInvalidation` stamp with any
instant up to now: of two updates the later one may stamp earlier, and
`hmrTimestamp` may go back. Invalidation stamps are counted under the lock and
may not (`InvalidationStampsGrow`).

**`Propagate`** (`propagate.rs`) is the depth-first walk of
`collect_boundaries` and `climb` with its colours and stack, one action per
loop step, on any graph that `Init` picks. `WalkExact` compares the result
with a definition that has no walk in it: the least set of modules the update
flows through, the boundaries around it, and its dead ends. `TargetsStamped`
and `UnstampedPastAccepting` compare it with what the update stamps, after a
change and after `import.meta.hot.invalidate()`.

**`HmrGate`** (`hmr.rs`, `watch.rs`) has `hold`, `flush`, the cap timer's check
and its flush as separate steps (the code lets the lock go in between), and the
tasks that batches and flushes spawn. `owed` is a history variable: the changes
no update was decided for.

**`StartReloads`** extends `HmrGate` by the Start server: a second watcher,
the rebundle worker, `Epochs` and `PageEpoch`. `bump` takes three steps, since
it counts, reads the held bit and reads the pending set one after the other: it
keeps the count's lock throughout, but the gate can change between two of them.

**`EngineService`** is what a JavaScript engine promises to whoever holds its
handle: at most one reply to a request, an error that states its true reason,
no JavaScript once the heap cap fired, and no way back from closed or
condemned. `EngineReplies` holds the vocabulary of replies it shares with the
engine.

**`JsEngine`** (`engine.rs`, `scheduler.rs`, `isolate.rs`, `watchdog.rs`) is one engine:
callers, channel, scheduler thread, watchdog thread and V8's flags. What the
JavaScript does is external and comes in through constants: setups that never
end, promises that never settle, calls that wait for calls they caused. It
implements `EngineService` (`ImplementsService`) under the mapping: `asked` is the requests
whose status is no longer new, `Barriers` the GC requests; `reply`, `condemned` and `open`
are themselves. Queue, ticks, parked calls, guards and the watchdog are
invisible in the service, so most steps map to a stutter; the end of the
thread and a fired heap cap map to one `Serve` of several requests.

**`PluginHost`** (`plugins/host.rs`) is the owner of such an engine across its
generations. What runs under the revive lock is one step. `host_gone` and
`initialized` are watch channels that the code writes after letting that lock
go, so those writes are steps (`DeclaredGone`, `BootGone`, `ChannelGone`,
`PushMarks`, `FinishMarks`, `Lift`). Callers go through `call`, `try_revive`,
`ignite`, `wait_for_init` and `run_hook` with its probe; each generation has a
boot task, a push dispatcher and, with native addons, a keeper. The engine is
reduced to what its handle shows. One that an ignite finds in the slot is
*replaced*: it stays open as long as its boot task or a hook holds a handle of
it, and closes with the last one. `NoEngineLeftBehind` counts those holders.

The flags have windows. The history variable `blind` records that a thread was
late or early with one: `host_gone` set for a generation that was replaced
meanwhile (2863, 2394), lifted for one already dead, a push dropped because it
is lifted last (2592), or the gate opened by an error of the replaced engine
(2828). Comments of the code promise that none of this happens (2391, 2592,
2800-2801, 2836-2837): `DeadOrRearmed` is that promise, of all states, and TLC
refutes it (finding 4). `InitOwed` says what does hold up to the first such
window, and that nothing else goes wrong: a wait for init has somebody to end
it. `NoEngineLeftBehind` holds in all states.

**`Optimizer`** (`optimize.rs`) has the six acquisitions of `register_missing`
on the compiles' threads, the hold of the dep route, and the one optimizer task
with its initial run (`publish_plan`, `hold_for_crawl_end`, `commit_initial`)
and its debounced reruns (`rerun_once`, `fail_pending`, the put-off reload, the
commit that carries pending entries over). What a bundle takes and whether it
contradicts what was served is chosen freely. A version is the set a URL was
minted for, which is what its hash depends on. A URL *works* while its
dependency is mapped and pending or on disk, or is served per file.
`CommitKeepsUrls` says that the map a rerun sends takes no working URL away;
`NoPhantomUrl` that every URL handed out works, is about to, or its page is told to
reload. The second is what the comments at `optimize.rs:99`, `116`, `726` and `893` promise
together, and the initial commit and two more windows break it (finding 3).

**`CompileCache`** (`module_pipeline.rs`, `watch.rs`, `hmr.rs`) follows
concurrent requests for one stylesheet that embeds another file, through every
`await` of `ensure_module_as`, beside a watcher that stamps and drops keys and a
server that may restart. A load or a compile may fail; a key found on disk may
still need a compile (`needs_retransform`). A file's content is its version number. `stampedDep`
and the `floor` of a request are history variables: the oldest version of the
embedded file an answer may contain.

The `MC...` modules hold the model values and small sets of the runs.
Definitions commented *Faulty form* are plausible mistakes, one or more per
property; each is the body of a `mutants` entry that TLC finds out.

## Runs

Bounds are constants in the guards (`MaxTime`, `MaxStamp`, `MaxOwn`, `MaxDep`,
`MaxBoots`) or small sets. Deadlock is not checked: with no request, change or
promise outstanding each of these parts may rest.

| run | configuration | shows | distinct states |
|---|---|---|---|
| `graph` | two scripts that may import each other, a sheet that inlines one; stamps and clock up to 2 | edges, stamps, pruning, invalidation and chains in any order of operations | 303 217 |
| `propagate` | three modules, five possible imports with cycles and a self import, partial acceptance, bindings, a sheet | the walk ends and finds exactly the boundaries; the circular flag is right; targets are stamped, after an invalidation up to accepting importers | 501 762 |
| `js_engine` | a call that awaits another whose promise hangs until its deadline, an eval, a wedging call, a GC barrier, heap cap, abandon and drop | ownership of terminations, true verdicts, condemnation, the service is implemented, every request is answered | 102 045 |
| `hmr_gate` | a source and a build output, batches of one, five clock readings before writes and editor flushes stop | no change lost, cap timer always there, every change released | 398 418 |
| `hmr_gate_mixed` | two sources in one batch | **violated**, finding 1 | |
| `start_reloads` | one source, one page, two watchers | reloads are released, none is missed, stamps are honest, pages catch up | 811 630 |
| `plugin_host` | two callers, two revives in the budget, native addons | no engine left behind, a wait for init has somebody to end it | 4 822 728 |
| `plugin_host_flags` | the same with one revive | **violated**, finding 4 | |
| `optimizer` | an import the scan finds and one it misses, two registrations of the one and one of the other, cold and warm boots | no lost wake, commits keep URLs, held requests are answered | 891 811 |
| `optimizer_urls` | the same | **violated**, finding 3 | |
| `compile_cache` | two requests, an edit of each file, a restart | keyed and own content fresh | 3 797 131 (under symmetry) |
| `compile_cache_race` | the same without own edits or restart | **violated**, finding 2 | |

Why these bounds are enough for the interesting cases. Three modules give
self imports, 2-cycles, 3-cycles, diamonds from the two importers of the third,
and a soft module between a file and a sheet. A second stamp or update is where
a repeated stamp or a second `invalidate()` would show. The gate's cases need
a write, a flush after it, a late event, a new hold and a timer of the old hold
set: five clock readings. A page that loads during a change, loses its socket
and returns needs two changes at most. Two requests are a compile in flight and
the one that must not be served it. Two revives with two callers are two
ignites that race, the older of which must find itself superseded or be
replaced with its boot task still running, a report of an old generation that
meets the new one, two reports of one death, and a shutdown that meets an
ignite; the proofs cover the code's three. Two imports and three registrations give a
registration before, during and after each commit, a second one of the same
import after the first failed, and a batch that is partly skipped. The safety
claims that pass do not rest on the bounds at all: all of them are proved below.

## Fairness

Fairness is stated only for steps that the program schedules by itself.

- `Propagate`: the walk is a loop, so `WF(Next)`.
- `HmrGate`: the watcher thread hands over batches, tokio runs spawned tasks
  and fires sleeping timers. Nobody is assumed to write or to flush:
  `EveryChangeReleased` holds by the cap timer alone.
- `StartReloads`: the same for timers and tasks, the rebundle worker, the flush
  receiver, and the steps of an open page (load, connect, react to the
  socket). Neither watcher is assumed to batch, since `PagesCatchUp` speaks
  only of counted changes.
- `JsEngine`: the scheduler takes the next tick, the watchdog thread and the
  clock run on, a job that is not wedged gets done, a terminated one ends with
  an error, a promise settles unless it hangs, a caused request is made. There
  is no fairness for `Submit`, `OutOfMemory`, `Drop` or `AbandonTerminate`.
  `AbandonClose` is fair: it is the next statement of the same function.
- `Optimizer`: registrations that have begun, the optimizer task and a held
  request run on; a bundle ends, with success or failure, and so does the
  crawl. Nobody has to register or to ask.
- `ModuleGraph`, `CompileCache` and `PluginHost` state no liveness and have no
  fairness. A plugin host owes little of it: no hook has to return, no boot to
  end and no engine thread to exit, since a wedged one never does. That somebody
  is left to end a wait is an invariant there (`InitOwed`).

## Proofs

The eight `...Proofs` modules extend the module they are about. They assume what
that module's `ASSUME`s say (types of the constants, `NoRequest` and `Flush` are
no requests, `NoExports` is no list of exports) and, in three theorems
(`SinglesNeverLost`, `StartNeverLoses`, `StampsWork`), what the text below says. They hold for any number of modules, files, pages, requests,
callers and dependencies, and for any bound. Every invariant and every action
property of a passing run is proved. Some theorems state what no run does: the
safety cores of the liveness properties, and how far each finding reaches. Their
definitions are in the proof modules, beside them.

- **`ModuleGraphProofs`**. `GraphInv` is the types, `EdgesAgree`,
  `StampsBounded`, and that the clock never reads 0, without which a stamped
  module could look unstamped. `EdgesAgree` cannot be left out: that a prune is
  exact needs the importers to be the inverse of the imports in the state
  before. The action properties (`PrunesExactly`, `InvalidatesOnce`,
  `ChainsStamped`, `SheetsAlwaysFollow`, `InvalidationStampsAlwaysGrow`) follow from the
  invariant and one step; those about walks from `DirtyClosureClosed` and its
  counterpart for invalidation: the least closed set is closed.
- **`HmrGateProofs`**. `GateInv` is the types, in which no instant kept is
  ahead of the clock, and `CapWatches`. A new hold set arms a timer at the
  clock, hence after every flush so far; a flush that outdates timers empties
  the set. `SinglesNeverLost` proves `NothingLost` for batches of one;
  `hmr_gate_mixed` shows that the assumption is needed. `LossesLeftOut` needs no
  assumption: whatever the batches, a deletion, or a write after the last flush,
  of a file the gate is about is never lost.
- **`StartReloadsProofs`** reuses the gate's lemmas for both watchers and
  strengthens by the order of the counts: published ≤ latest ≤ installed, with
  installed one ahead of latest exactly between install and count. From it
  follow `NeverMissesReload` and `StampsHonest`. `StartNeverLoses` and
  `StartLossesLeftOut` are the gate's two theorems on losses with both watchers
  holding. `SocketsStayAwake`: a connected page that is behind has not looked at the
  count published last, so no publish falls between its look on connect and its
  first wait.
- **`JsEngineProofs`**. `EngineInv` adds to the properties who holds the
  watchdog (`Guarded`: the running job alone, armed or expired, with no call
  parked while the loop ticks) and that the loop ends only once the channel is closed
  (`ClosedThread`). `TerminationOwned` is not inductive without `Guarded`: a
  fire has to find its own job still running.

  `EngineIsService` is the refinement: `Init` maps to the service's `Init`, and
  each action to an `Ask`, a `Serve`, a `Shut` or a stutter. The steps that
  answer use `EngineInv` for the truth of the reason: that an expired guard is
  of a timed request, and that a condemned engine has nothing left that could
  return a value.

  `EngineForgetsNobody` follows a caller that has no answer yet: `Kept` says that
  a queued request is in the channel, a running one runs, and that the thread
  leaves its loop with neither and is gone only with nothing parked.
- **`PropagateProofs`**. `WalkInv` says what the colours mean half-way:
  every module visited is one the update flows through (`Sound`), every importer
  it flows on to is visited or still to do on the stack (`Complete`), and the
  boundaries collected are those around the modules visited (`Found`). When the
  stack is empty, these three make the visited set closed and contained in the least
  such set, which is `WalkIsExact`. The circular flag needs the shape of the stack too: each gray
  module imports, directly or not, the ones below it (`Chained`).
  `TargetsAreStamped` compares two closures: whatever an update flows through
  is in `DirtyClosure`. For an invalidation that is false, against the doc of
  `accept_invalidation` (see [below](#findings)), and
  `UnstampedOnlyPastAccepting` says by how much: what is not stamped lies past an
  importer that accepts the invalidated module. `WalkShrinks` orders the states
  of the walk by the modules not visited, then the gray ones, then the lists of
  importers left: every step that does not end the walk makes the first of them
  that it changes smaller. No induction over the graph is used, so all but the
  last conclusion from it, that the walk ends, hold of an infinite one too.
- **`PluginHostProofs`**. `NoEngineLeftBehind` becomes inductive with
  `Ordered` (a shutdown sets its flag before it takes the engine; no call
  knows a generation that is still to come); a replaced engine is let go when the
  last of its holders is, whatever the number of ignites that race.
  `ReportsRetireOwn` rests on `OnLive`: a hook reads the
  generation before it picks the engine, so that one with the live generation is
  on the live engine and its report of death passes the comparison for no other.
  `SlotIsLive` rests on `Reserved`: a generation belongs to one
  revive until its tasks start, so that two revives never ignite the same.
  `InitStaysOwed` (`InitOwed`) says that a wait for the init gate has somebody to
  end it. It needs what the flags mean before a window (`FlagsTrue`), that the live engine
  was not replaced (`NotReplaced`), `Deaths` (a death that was reported is told,
  or about to be) and the same promise from the ignition on, before `host_gone` is lifted (`Owed`).
- **`OptimizerProofs`**. `WakeOwed` follows from `Covered`: at each point of
  the task, who looks after a pending dependency (the batch, a wake in the channel, or a
  call that has still to wake). `CommitsKeepUrls` follows from `Filed`:
  what a rerun is about to commit has its files, and what it does not commit is
  carried over while pending.
  `RequestsNeverStranded` combines `Covered` with `HeldForReason`: what takes a
  dependency out of pending is on its way to send a map, and each map makes the
  waiting request look again.
- **`CompileCacheProofs`**. `OwnFresh` needs that a request's key is of the
  source it loaded, no older than the file it found (`Keyed`). What a key finds
  is the subject of `Stamped`: a stamp of the file moves the sheet's, so each
  module that can still answer a request (`Circulating`: on disk, in memory,
  compiled) embeds the file as of the last stamp its key knows (`Current`), as
  long as no on-disk entry of an earlier process embeds one (`Untainted`). Hence
  `StampsWork`, which proves `KeyedFresh` where sheets embed files by `data:` only
  (`Importing \subseteq Inlining`, as in the passing run), and
  `StampsWorkTillRestart`, which has no such assumption; without either it is false
  (see [below](#findings)). `StaleAnswersByFastKey` says which step can
  give a stale answer at all: the fast path, by a key that is not of the current
  stamp, or any lookup in a restarted server of a sheet that imports.

Only model-checked: the liveness properties `Terminates`,
`EveryRequestAnswered`, `EveryChangeReleased`, `PagesCatchUp` and
`RequestsAnswered`, which are beyond the prover. Of each, the part that is not
about fairness is proved (`WalkShrinks`, `EngineForgetsNobody`,
`CapAlwaysWatches`, `SocketsStayAwake`, `RequestsNeverStranded`): that there
is always somebody left whose step brings the goal nearer, for any constants. What only TLC shows, on the instances of the
runs, is that the fair steps add up to it.

## Findings

1. *Mixed batches* (`hmr_gate_mixed`, `NothingLost`). `hold` keeps the paths
   no flush covers and reports the whole batch held. A file whose write the last
   flush covers but whose event comes late, together with a newer change, is
   neither held nor dispatched. Of the files the gate is about, only such a write
   is lost (`LossesLeftOut`,
   `StartLossesLeftOut`), and only from a batch of several files
   (`SinglesNeverLost`, `StartNeverLoses`).
2. *A key recorded after its invalidation* (`compile_cache_race`,
   `ServedFresh`). `compile_key` reads the stamps under one lock and records the
   fast-path key under another; an invalidation in between drops no key, and
   the stale one answers later requests. Within one process there is no other
   way to a stale answer (`StaleAnswersByFastKey`).
3. *A URL with nothing behind it* (`optimizer_urls`, `NoPhantomUrl`).
   `commit_initial` copies the provisional entries of what is pending (767-781)
   and sends its map (782) after letting the locks go. An entry registered in between
   is overwritten, though "deps a compile discovered meanwhile keep their
   provisional entries" (726-727): until a rerun brings it back, its URL is neither mapped,
   nor held at the dep route, nor on disk. Two more windows break the property: a
   dependency the initial rebundle skipped stays discovered (768-772), against
   116-118 and 893-894, and a compile that passed `may_register` before its
   dependency failed or was committed registers it again. A rerun's commit does
   no such thing (`CommitsKeepUrls`).
4. *A host neither dead nor re-armed* (`plugin_host_flags`, `DeadOrRearmed`).
   `try_revive` lifts `host_gone` after the new engine's tasks have started. A
   plugin whose top level is through before the lift has its `ojInit` push dropped
   (2384-2387), nothing repeats it, and every call waits in `wait_for_init` without
   a deadline, though 2592 says that "a caller sees a dead host or a fully
   re-armed one". Three more windows break the property: `declare_gone` (2862-2863)
   and the dispatcher (2393-2395) set `host_gone` after letting the lock go under
   which they compared the generation, against 2391 and 2836-2837, and
   `finish_call` opens the gate in the same way (2802-2804) or without a comparison
   (2828-2830), against 2800-2801. Before the first of these a wait for init
   always has somebody to end it (`InitStaysOwed`).

Two more disagreements between the code and its words are visible in what a
property or a theorem had to leave out.

- *Invalidation targets without a stamp.* `update_targets_from_importers` starts
  at every importer of the invalidated module; `dirty_closure` leaves out those
  that `hot.accept` it. Such an importer can become a boundary the client
  re-imports though `accept_invalidation` has not stamped it, which its doc
  (`oj_graph/src/lib.rs:209-211`) denies. It takes such an importer: that is
  `UnstampedPastAccepting`.
- *A persisted sheet that embeds a file.* With `--enable-cache`, which is off by
  default, only `data:` keeps a sheet out of the on-disk cache; one that embeds
  a file by `@import` is stored (`module_pipeline.rs:668-704`) under stamps that are 0
  again after a restart, though the comment at 344-346 says that such content is
  never persisted. `KeyedFresh` with such sheets in `Importing` and a restart
  fails for that reason. Before a restart, and for `data:` sheets after one, it
  holds (`StampsWorkTillRestart`, `StampsWork`).

## Not modelled

Within modelled components: two map updates of the graph that skip work when
nothing changes are the assignments they skip; restart triggers, tsconfig
changes and the frames `decide` chooses by file type; what a compile or a rebundle
produces, and hot updates of Start pages that have no gate; Tailwind sheets,
dependencies and server modules in the compile pipeline; containers, hook
plans, the reverse RPC and the stall monitor of the plugin host, which only
publishes evidence, and its respawn spacing, which only ever refuses a revive
the model refuses at will, and the wait for a replaced engine's thread, which
`JsEngine::drop` joins under the revive lock; what the optimizer persists for the next session
(manifest, the version in compile keys) and how it rewrites served chunks.
Clock steps and coarse
mtimes are left out: every reading of the clock is a new instant.

Whole components: see `components` in `PROJECT.json`. The CSS engine replaces
its engine under a single lock, the plugin host's pattern without its windows.
The compilers translate
strings and have no shared state; configuration and resolver are functions of
files read once; the CLI is a batch pipeline; the Deno crates and the type
checker bindings are vendored or generated; `oj_notify` binds the operating
system's file events, which the gate modules take as late and batched at will.

## Plan

The order the modules were written in.

1. `GraphState`, `ModuleGraph`, `Propagate`: the graph and its walk; proved.
2. `JsEngine`, then `EngineService`, which it implements; proved.
3. `HmrGate`, and `StartReloads`, which composes it with the Start server; proved.
4. `CompileCache`; proved.
5. `PluginHost`, the owner of an engine; proved.
6. `Optimizer`; proved.

What would come next:

7. `Decide`: an update's targets, its stamps and its frames as separate
   acquisitions of the graph's lock, composed with `ModuleGraph`; the hazards
   at `hmr.rs:1317`, `watch.rs:1365` and `module_pipeline.rs:1640` are its subject.
8. `Watcher`: debounce, content comparison, rescans after lost events, and the
   restart request, as a refinement of the event source of `HmrGate`.
9. `StartBundle`: install, pinned generations and hot updates.
