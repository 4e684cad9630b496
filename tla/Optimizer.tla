----------------------------- MODULE Optimizer -----------------------------
(***************************************************************************)
(* The dependency optimizer of the dev server (oj_server/src/optimize.rs): *)
(* a bare import that a compile finds missing from the pre-bundle is       *)
(* registered and rewritten to its future URL at once, a request for that  *)
(* URL is held, and one optimizer task bundles what was registered and     *)
(* commits a new map of dependencies.                                      *)
(*                                                                         *)
(* Registrations run on the compiles' threads.  The mutexes (discovered,   *)
(* pending, failed) and the watch channel that carries the map are taken   *)
(* one after the other, so every acquisition is a step.  A URL version is  *)
(* a hash of the discovered set it was minted for (browser_hash), here     *)
(* that set itself; the session's salt keeps a warm boot's apart.          *)
(*                                                                         *)
(* What a session persists (the manifest, the version in compile keys) is  *)
(* left out: nothing reads it back before the next session, and Init has   *)
(* the warm boots.                                                         *)
(***************************************************************************)
CONSTANTS
    Deps,         \* bare imports
    Scanned,      \* those the scan finds
    Calls,        \* calls of register_missing, by compiles on other threads
    Import,       \* the bare import each of them registers
    NoDep

ASSUME OptimizerAssumption ==
    Scanned \subseteq Deps /\ NoDep \notin Deps /\ Import \in [Calls -> Deps]

Versions == {"none", "hash", "committed", "warm"} \X SUBSET Deps
Absent == <<"none", {}>>

\* Faulty form: the session is left out of the hash.
BrowserHashUnsalted(deps) == <<"unsalted", deps>>

BrowserHash(deps) == <<"hash", deps>>

VARIABLES
    map,          \* the live map: the version of each entry's URL, or Absent
    ready,        \* there is a map (the watch channel's Some)
    discovered,   \* RerunState.discovered: the version of the provisional URL
    pending,      \* RerunState.pending
    failed,       \* RerunState.failed
    dead,         \* RerunState.dead
    wake,         \* the wake channel is not empty
    disk,         \* dependencies with a bundle file in the deps dir
    at,           \* where the optimizer task is
    names,        \* its snapshot of discovered: what it bundles besides the scan
    batch,        \* its snapshot of pending (or the plan, in the initial run)
    late,         \* pending after the bundle, and not in the batch
    built,        \* the map it is about to send
    got,          \* what the bundle took
    reload,       \* the bundle contradicts what was served
    bundled,      \* the run returned a map
    step,         \* where each call is
    minted,       \* the version it minted
    asked,        \* the dependency that a request at the dep route is for
    looks         \* a map has come since it looked

liveVars == <<map, ready, discovered, pending, failed, dead>>
taskVars == <<at, names, batch, late, built, got, reload, bundled>>
callVars == <<step, minted>>
routeVars == <<asked, looks>>
vars == <<liveVars, wake, disk, taskVars, callVars, routeVars>>

Mapped == {d \in Deps : map[d] # Absent}
Provisional == {d \in Deps : discovered[d] # Absent}
NoDeps == [d \in Deps |-> Absent]

TypeOK ==
    /\ map \in [Deps -> Versions] /\ discovered \in [Deps -> Versions]
    /\ ready \in BOOLEAN
    /\ pending \in SUBSET Deps /\ failed \in SUBSET Deps /\ dead \in BOOLEAN
    /\ wake \in BOOLEAN /\ disk \in SUBSET Deps
    /\ at \in {"scan", "first", "hold", "release", "publish", "idle", "count", "bundle",
               "unmap", "tell", "compare", "commit", "send", "announce"}
    /\ names \in SUBSET Deps /\ batch \in SUBSET Deps /\ late \in SUBSET Deps
    /\ built \in [Deps -> Versions]
    /\ got \in SUBSET Deps /\ reload \in BOOLEAN /\ bundled \in BOOLEAN
    /\ step \in [Calls -> {"start", "checked", "looked", "pend", "publish", "wake", "done"}]
    /\ minted \in [Calls -> Versions]
    /\ asked \in Deps \cup {NoDep} /\ looks \in BOOLEAN

NoTask ==
    /\ names = {} /\ batch = {} /\ late = {} /\ built = NoDeps /\ got = {}
    /\ reload = FALSE /\ bundled = FALSE

\* A cold session scans first; a warm one has the map of its manifest, and in
\* it what earlier sessions discovered.
Init ==
    /\ \/ /\ at = "scan" /\ ready = FALSE
          /\ map = NoDeps /\ discovered = NoDeps /\ disk = {}
       \/ \E earlier \in SUBSET (Deps \ Scanned) :
            /\ at = "idle" /\ ready = TRUE
            /\ disk = Scanned \cup earlier
            /\ map = [d \in Deps |-> IF d \in disk THEN <<"warm", {}>> ELSE Absent]
            /\ discovered = [d \in Deps |-> IF d \in earlier THEN <<"warm", {}>> ELSE Absent]
    /\ pending = {} /\ failed = {} /\ dead = FALSE
    /\ wake = FALSE
    /\ NoTask
    /\ step = [c \in Calls |-> "start"]
    /\ minted = [c \in Calls |-> Absent]
    /\ asked = NoDep /\ looks = FALSE

\* The watch channel has a new map: who waits for one looks again.
SendMap(new) ==
    /\ map' = new
    /\ looks' = (asked # NoDep)
    /\ UNCHANGED asked

-----------------------------------------------------------------------------
(* register_missing, by a compile.                                         *)

\* may_register
Check(c) ==
    /\ step[c] = "start"
    /\ ready /\ ~dead /\ Import[c] \notin failed
    /\ step' = [step EXCEPT ![c] = "checked"]
    /\ UNCHANGED <<liveVars, wake, disk, taskVars, minted, routeVars>>

Returns(c) ==
    /\ step' = [step EXCEPT ![c] = "done"]
    /\ minted' = [minted EXCEPT ![c] = Absent]

\* meta_now: the live map may have it.
Look(c) ==
    /\ step[c] = "checked"
    /\ IF map[Import[c]] # Absent
       THEN Returns(c)
       ELSE step' = [step EXCEPT ![c] = "looked"] /\ UNCHANGED minted
    /\ UNCHANGED <<liveVars, wake, disk, taskVars, routeVars>>

\* Another compile registered it.
Known(c) ==
    /\ step[c] = "looked"
    /\ discovered[Import[c]] # Absent
    /\ Returns(c)
    /\ UNCHANGED <<liveVars, wake, disk, taskVars, routeVars>>

\* A dependency that failed since the check, or was bundled since the look, is
\* registered all the same.
Discover(c) ==
    /\ step[c] = "looked"
    /\ discovered[Import[c]] = Absent
    /\ minted' = [minted EXCEPT ![c] = BrowserHash(Provisional \cup {Import[c]})]
    /\ discovered' = [discovered EXCEPT ![Import[c]] = minted'[c]]
    /\ step' = [step EXCEPT ![c] = "pend"]
    /\ UNCHANGED <<map, ready, pending, failed, dead, wake, disk,
                   taskVars, routeVars>>

Pend(c) ==
    /\ step[c] = "pend"
    /\ pending' = pending \cup {Import[c]}
    /\ step' = [step EXCEPT ![c] = "publish"]
    /\ UNCHANGED <<map, ready, discovered, failed, dead, wake, disk,
                   taskVars, minted, routeVars>>

\* Too late when the batch it belongs to is over, or bundled it as a late one.
PublishEntry(c) ==
    /\ step[c] = "publish"
    /\ SendMap([map EXCEPT ![Import[c]] = minted[c]])
    /\ step' = [step EXCEPT ![c] = "wake"]
    /\ UNCHANGED <<ready, discovered, pending, failed, dead, wake, disk,
                   taskVars, minted>>

\* Faulty form: a task that is busy is not woken.
WakeIfIdle(c) ==
    /\ step[c] = "wake"
    /\ wake' = (wake \/ at = "idle")
    /\ Returns(c)
    /\ UNCHANGED <<liveVars, disk, taskVars, routeVars>>

Wake(c) ==
    /\ step[c] = "wake"
    /\ wake' = TRUE
    /\ Returns(c)
    /\ UNCHANGED <<liveVars, disk, taskVars, routeVars>>

-----------------------------------------------------------------------------
(* await_dep, at the dep route: one request, for they do not touch each    *)
(* other.                                                                  *)

\* Ready or outdated, unless the live map has the dependency and it is pending:
\* then the request waits for the next map.
Held(d) == map[d] # Absent /\ d \in pending

\* A request that is held; the others are answered at once.
Request(d) ==
    /\ asked = NoDep /\ Held(d)
    /\ asked' = d /\ looks' = FALSE
    /\ UNCHANGED <<liveVars, wake, disk, taskVars, callVars>>

\* rx.changed() returned: it looks again.
AwaitDep ==
    /\ asked # NoDep /\ looks
    /\ looks' = FALSE
    /\ asked' = IF Held(asked) THEN asked ELSE NoDep
    /\ UNCHANGED <<liveVars, wake, disk, taskVars, callVars>>

-----------------------------------------------------------------------------
(* The initial run.                                                        *)

\* publish_plan
PublishPlan ==
    /\ at = "scan"
    /\ at' = "first"
    /\ batch' = Scanned
    /\ pending' = pending \cup Scanned
    /\ SendMap([d \in Deps |-> IF d \in Scanned THEN BrowserHash({}) ELSE Absent])
    /\ ready' = TRUE
    /\ UNCHANGED <<discovered, failed, dead, wake, disk, names, late, built, got,
                   reload, bundled, callVars>>

\* The first bundle fails, or holds for the end of the crawl, if at all.
FirstBundle ==
    /\ at = "first"
    /\ \/ dead' = TRUE /\ at' = "release"
       \/ UNCHANGED dead /\ at' \in {"hold", "release"}
    /\ UNCHANGED <<map, ready, discovered, pending, failed, wake, disk, names, batch, late,
                   built, got, reload, bundled, callVars, routeVars>>

\* hold_for_crawl_end has returned; scanner_missed.  Bundled again with what
\* the scan missed, or else the first bundle is committed.
ScannerMissed ==
    /\ at = "hold"
    /\ batch' \in {batch, batch \cup (pending \cap Provisional)}
    /\ at' = "release"
    /\ UNCHANGED <<liveVars, wake, disk, names, late, built, got, reload, bundled,
                   callVars, routeVars>>

\* The URL the plan gave a dependency, its registration if the scan missed it.
PlannedVersion(d) == IF d \in Scanned THEN BrowserHash({}) ELSE discovered[d]

\* commit_initial under the locks.  A bundle that took other deps than planned,
\* or under another file or interop, contradicts the plan.  A missed dependency
\* that it did not take stays discovered, as a URL without a file.
Release ==
    /\ at = "release"
    /\ at' = "publish"
    /\ pending' = pending \ batch
    /\ \E taken \in SUBSET batch :
         /\ dead => taken = {}
         /\ reload' \in BOOLEAN /\ (taken # batch => reload')
         /\ built' = [d \in Deps |->
                      IF d \in taken
                      THEN IF reload' THEN <<"committed", taken>> ELSE PlannedVersion(d)
                      ELSE IF d \in pending' THEN discovered[d] ELSE Absent]
         /\ disk' = taken
    /\ UNCHANGED <<map, ready, discovered, failed, dead, wake, names, batch, late, got,
                   bundled, callVars, routeVars>>

\* What a run leaves in its locals is of no use to the next.
Forgets ==
    /\ names' = {} /\ batch' = {} /\ late' = {} /\ built' = NoDeps /\ got' = {}
    /\ reload' = FALSE /\ bundled' = FALSE

TaskEnds == at' = "idle" /\ Forgets

EndsOrAnnounces ==
    IF reload
    THEN at' = "announce" /\ Forgets
    ELSE TaskEnds

\* ... and its send, over what was registered since.
PublishInitial ==
    /\ at = "publish"
    /\ SendMap(built)
    /\ EndsOrAnnounces
    /\ UNCHANGED <<ready, discovered, pending, failed, dead, wake, disk,
                   callVars>>

-----------------------------------------------------------------------------
(* rerun_once, after a quiet window.                                       *)

\* debounce_wakes has consumed every wake; the snapshot of discovered.
SnapDiscovered ==
    /\ at = "idle" /\ wake
    /\ wake' = FALSE
    /\ names' = Provisional
    /\ at' = "count"
    /\ UNCHANGED <<liveVars, disk, batch, late, built, got, reload, bundled, callVars,
                   routeVars>>

SnapPending ==
    /\ at = "count"
    /\ IF pending = {}
       THEN TaskEnds
       ELSE /\ batch' = pending
            /\ at' = "bundle"
            /\ UNCHANGED <<names, late, built, got, reload, bundled>>
    /\ UNCHANGED <<liveVars, wake, disk, callVars, routeVars>>

\* A batch that did not bundle is failed (fail_pending), and so are the deps of
\* it that the bundle skipped.
Failing == batch \ got

FailPending(deps) ==
    /\ discovered' = [d \in Deps |-> IF d \in deps THEN Absent ELSE discovered[d]]
    /\ pending' = pending \ deps
    /\ failed' = failed \cup deps
    /\ UNCHANGED <<map, ready, dead>>

\* The run fails.
BundleFails ==
    /\ at = "bundle"
    /\ at' = "unmap"
    /\ FailPending(batch)
    /\ UNCHANGED <<wake, disk, names, batch, late, built, got, reload, bundled, callVars,
                   routeVars>>

\* The bundle of scan and snapshot; reload says that a file hash changed or
\* an interop guess was wrong.  late is what is pending now, and was not.
Bundle ==
    /\ at = "bundle"
    /\ bundled' = TRUE
    /\ got' \in SUBSET (Scanned \cup names)
    /\ reload' \in BOOLEAN
    /\ disk' = disk \cup got'
    /\ \/ /\ batch \subseteq got'
          /\ at' = "compare"
          /\ late' = pending \ batch
          /\ UNCHANGED liveVars
       \/ /\ ~ batch \subseteq got'
          /\ at' = "unmap"
          /\ FailPending(batch \ got')
          /\ UNCHANGED late
    /\ UNCHANGED <<wake, names, batch, built, callVars, routeVars>>

\* Faulty form: the entries are dropped without a notice to who waits.
UnmapQuietly ==
    /\ at = "unmap"
    /\ at' = "tell"
    /\ map' = [d \in Deps |-> IF d \in Failing THEN Absent ELSE map[d]]
    /\ UNCHANGED <<ready, discovered, pending, failed, dead, wake, disk, names,
                   batch, late, built, got, reload, bundled, callVars, routeVars>>

Unmap ==
    /\ at = "unmap"
    /\ at' = "tell"
    /\ SendMap([d \in Deps |-> IF d \in Failing THEN Absent ELSE map[d]])
    /\ UNCHANGED <<ready, discovered, pending, failed, dead, wake, disk, names,
                   batch, late, built, got, reload, bundled, callVars>>

\* on_commit: compiled modules are dropped and the page is told to reload.
\* The rest of the bundle goes on; late, as above.
Tell ==
    /\ at = "tell"
    /\ IF bundled
       THEN /\ late' = pending \ batch
            /\ at' = "compare"
            /\ UNCHANGED <<names, batch, built, got, reload, bundled>>
       ELSE TaskEnds
    /\ UNCHANGED <<liveVars, wake, disk, callVars, routeVars>>

\* needs_reload; a reload while discoveries arrive is put off.
NeedsReload == reload \/ \E d \in Mapped \ (batch \cup late) : d \notin got

\* The version a bundled entry is committed under.
KeptVersion(d) == IF NeedsReload \/ map[d] = Absent THEN BrowserHash(names) ELSE map[d]

\* The map to commit is made from the one read here; a registration that has
\* still to publish its entry comes too late for it.
Compare ==
    /\ at = "compare"
    /\ IF NeedsReload /\ late # {}
       THEN wake' = TRUE /\ TaskEnds
       ELSE /\ reload' = NeedsReload
            /\ built' = [d \in Deps |-> IF d \in got THEN KeptVersion(d) ELSE Absent]
            /\ names' = {} /\ late' = {} /\ got' = {} /\ bundled' = FALSE
            /\ at' = "commit"
            /\ UNCHANGED <<wake, batch>>
    /\ UNCHANGED <<liveVars, disk, callVars, routeVars>>

Commit ==
    /\ at = "commit"
    /\ at' = "send"
    /\ pending' = pending \ batch
    /\ batch' = {}
    /\ UNCHANGED <<map, ready, discovered, failed, dead, wake, disk,
                   names, late, built, got, reload, bundled, callVars, routeVars>>

\* Faulty form: what is still pending is left to its own batch.
MergeNothing == built

\* Entries still pending are carried over, read under the watch lock.
MergePending ==
    [d \in Deps |-> IF built[d] = Absent /\ d \in pending THEN map[d] ELSE built[d]]

Send ==
    /\ at = "send"
    /\ SendMap(MergePending)
    /\ EndsOrAnnounces
    /\ UNCHANGED <<ready, discovered, pending, failed, dead, wake, disk,
                   callVars>>

Announce ==
    /\ at = "announce"
    /\ TaskEnds
    /\ UNCHANGED <<liveVars, wake, disk, callVars, routeVars>>

-----------------------------------------------------------------------------

CallStep(c) ==
    Look(c) \/ Known(c) \/ Discover(c) \/ Pend(c) \/ PublishEntry(c) \/ Wake(c)

TaskStep ==
    \/ PublishPlan \/ FirstBundle \/ ScannerMissed \/ Release
    \/ PublishInitial \/ SnapDiscovered \/ SnapPending \/ Bundle
    \/ BundleFails \/ Unmap \/ Tell \/ Compare \/ Commit \/ Send \/ Announce

Next ==
    \/ \E c \in Calls : Check(c) \/ CallStep(c)
    \/ \E d \in Deps : Request(d)
    \/ AwaitDep
    \/ TaskStep

\* The runtime runs the compiles, the optimizer task and the requests on; a
\* bundle ends, and so does the crawl, which waits for none of them.
Fairness ==
    /\ WF_vars(\E c \in Calls : CallStep(c))
    /\ WF_vars(TaskStep) /\ WF_vars(AwaitDep)

Spec == Init /\ [][Next]_vars /\ Fairness

-----------------------------------------------------------------------------
(* Properties.                                                             *)

\* What is pending is being worked on: the optimizer task never sleeps on a
\* registered dependency unless the compile has still to wake it.
WakeOwed ==
    at = "idle" /\ ~wake
        => \A d \in pending :
             \E c \in Calls : Import[c] = d /\ step[c] \in {"publish", "wake"}

InFlight(d) == \E c \in Calls : Import[c] = d /\ step[c] \in {"pend", "publish"}

\* The map was changed under the page, which has still to be told.
Reloading == at \in {"unmap", "tell", "announce"} \/ (at = "publish" /\ reload)

\* A URL that was handed out works: it names the version the live map has and
\* the bundle is on disk or its requests are held; or the map has no entry for
\* it any more, and the older file is served as it is.
Works(d) ==
    \/ map[d] # Absent /\ d \in pending \cup disk
    \/ map[d] = Absent /\ (discovered[d] # Absent => d \in disk)

\* The map a rerun sends takes no working URL away, whatever compiles have
\* registered since its bundle and since the comparison: an entry that is still
\* pending is "carried over from the live map so its URL keeps blocking at the
\* dep route until its own batch commits", and one that is new has its file.
CommitKeepsUrls == [][Send => \A d \in Deps : Works(d) => Works(d)']_vars

\* No page is left with a URL that nothing stands behind: "the dep route holds
\* requests for a pending bundle", deps discovered during the initial run
\* "keep their provisional entries for the rerun that bundles them", and what
\* a run cannot bundle is served per file "instead of a phantom optimized URL".
NoPhantomUrl == \A d \in Deps : Works(d) \/ InFlight(d) \/ Reloading

\* Every held request is answered.
RequestsAnswered == (asked # NoDep) ~> (asked = NoDep)
=============================================================================
