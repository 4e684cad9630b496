---------------------------- MODULE ModuleGraph ----------------------------
(***************************************************************************)
(* The operations of the dev server's module graph, each of which runs     *)
(* under the graph's lock: a served module registers what it imports and   *)
(* accepts, a file change invalidates, an HMR update stamps, and a client  *)
(* may hand an update back with import.meta.hot.invalidate().              *)
(***************************************************************************)
EXTENDS GraphState, Naturals, FiniteSets

CONSTANTS
    Shapes,       \* what a compile of a module can say of it
    MaxTime,      \* bound on the clock
    MaxStamp      \* bound on invalidation_stamp

ASSUME ShapesAssumption ==
    Shapes \subseteq [url : Modules, imports : SUBSET Modules,
                      selfAccept : BOOLEAN, deps : SUBSET Modules,
                      exports : (SUBSET Names) \cup {NoExports},
                      bindings : Bindings]
ASSUME BoundsAssumption == MaxTime \in Nat /\ MaxStamp \in Nat

VARIABLES
    hmrTimestamp,            \* last_hmr_timestamp, 0 until an update
    invalidationReceived,    \* last_hmr_invalidation_received
    invalidationTimestamp,   \* last_invalidation_timestamp, 0 until a change
    invalidationStamp,       \* ModuleGraph.invalidation_stamp
    pruneFrame,              \* the paths of the prune message a step sends
    handedBack,              \* the module whose invalidate() a step accepts
    clock                    \* now_millis()

stampVars == <<hmrTimestamp, invalidationReceived>>
vars == <<graphVars, stampVars, invalidationTimestamp, invalidationStamp,
          pruneFrame, handedBack, clock>>

TypeOK ==
    /\ GraphTypeOK
    /\ hmrTimestamp \in [Modules -> Nat]
    /\ invalidationReceived \in [Modules -> BOOLEAN]
    /\ invalidationTimestamp \in [Modules -> Nat]
    /\ invalidationStamp \in Nat
    /\ pruneFrame \in SUBSET Modules
    /\ handedBack \in SUBSET Modules
    /\ clock \in Nat

Init ==
    /\ nodes = {}
    /\ importers = [m \in Modules |-> {}]
    /\ imports = [m \in Modules |-> {}]
    /\ selfAccepting = [m \in Modules |-> FALSE]
    /\ acceptedDeps = [m \in Modules |-> {}]
    /\ acceptedExports = [m \in Modules |-> NoExports]
    /\ importedBindings = [m \in Modules |-> NoBindings]
    /\ hmrTimestamp = [m \in Modules |-> 0]
    /\ invalidationReceived = [m \in Modules |-> FALSE]
    /\ invalidationTimestamp = [m \in Modules |-> 0]
    /\ invalidationStamp = 0
    /\ pruneFrame = {}
    /\ handedBack = {}
    /\ clock = 1

-----------------------------------------------------------------------------
(* Stamping.                                                               *)

NoMessage == pruneFrame' = {} /\ handedBack' = {}

\* stamp_all: a new HMR timestamp on paths re-arms their invalidation.
StampAll(paths, now) ==
    /\ hmrTimestamp' = [m \in Modules |->
            IF m \in paths THEN now ELSE hmrTimestamp[m]]
    /\ invalidationReceived' = [m \in Modules |->
            m \notin paths /\ invalidationReceived[m]]

\* The newest HMR timestamp among a module's imports: part of its cache key.
ImportsTimestamp(m) ==
    LET stamps == {0} \cup {hmrTimestamp[i] : i \in imports[m] \cap nodes}
    IN  CHOOSE t \in stamps : \A u \in stamps : u <= t

-----------------------------------------------------------------------------
(* set_imports: the edges to deps no longer listed go, the rest are added. *)

\* Faulty form: prunes deps that others still import.
PrunedShared(url, deps) == imports[url] \ deps

Pruned(url, deps) ==
    {d \in imports[url] \ deps : importers[d] \ {url} = {}}

\* Faulty form: keeps the reverse edges of dropped deps.
SetImportsKeepingStale(url, deps) ==
    /\ nodes' = nodes \cup {url} \cup deps
    /\ imports' = [imports EXCEPT ![url] = deps]
    /\ importers' = [d \in Modules |->
            IF d \in deps THEN importers[d] \cup {url} ELSE importers[d]]

\* Faulty form: rebuilds the reverse edges from the new deps alone.
SetImportsOfDepsOnly(url, deps) ==
    /\ nodes' = nodes \cup {url} \cup deps
    /\ imports' = [imports EXCEPT ![url] = deps]
    /\ importers' = [d \in deps |-> importers[d] \cup {url}]

SetImports(url, deps) ==
    /\ nodes' = nodes \cup {url} \cup deps
    /\ imports' = [imports EXCEPT ![url] = deps]
    /\ importers' = [d \in Modules |->
            IF d \in deps THEN importers[d] \cup {url}
                          ELSE importers[d] \ {url}]

-----------------------------------------------------------------------------
(* The operations.                                                         *)

\* What the module accepts and which bindings it uses, as compiled now.
SetAcceptance(s) ==
    /\ selfAccepting' = [selfAccepting EXCEPT ![s.url] = s.selfAccept]
    /\ acceptedDeps' = [acceptedDeps EXCEPT ![s.url] = s.deps]
    /\ acceptedExports' = [acceptedExports EXCEPT ![s.url] = s.exports]
    /\ importedBindings' = [importedBindings EXCEPT ![s.url] = s.bindings]

\* register_in_graph: every path that hands out a module lands here.
Register(s) ==
    /\ SetImports(s.url, s.imports)
    /\ pruneFrame' = Pruned(s.url, s.imports)
    /\ handedBack' = {}
    /\ StampAll(Pruned(s.url, s.imports), clock)
    /\ SetAcceptance(s)
    /\ UNCHANGED <<invalidationTimestamp, invalidationStamp, clock>>

\* A compile that could not resolve an import clears its self-acceptance.
ResolveFailed(url) ==
    /\ nodes' = nodes \cup {url}
    /\ selfAccepting' = [selfAccepting EXCEPT ![url] = FALSE]
    /\ NoMessage
    /\ UNCHANGED <<importers, imports, acceptedDeps, acceptedExports,
                   importedBindings, stampVars, invalidationTimestamp,
                   invalidationStamp, clock>>

\* Faulty form: stamps before the counter moves.
InvalidateWithLastStamp(changed) ==
    /\ changed \in nodes
    /\ invalidationStamp < MaxStamp
    /\ invalidationStamp' = invalidationStamp + 1
    /\ invalidationTimestamp' = [m \in Modules |->
            IF m \in HardInvalidated(changed) THEN invalidationStamp
                                              ELSE invalidationTimestamp[m]]
    /\ NoMessage
    /\ UNCHANGED <<graphVars, stampVars, clock>>

\* Faulty form: invalidates the direct importers only.
InvalidateDirect(changed) ==
    /\ changed \in nodes
    /\ invalidationStamp < MaxStamp
    /\ invalidationStamp' = invalidationStamp + 1
    /\ invalidationTimestamp' = [m \in Modules |->
            IF m = changed \/ m \in importers[changed] \cap Sheets
            THEN invalidationStamp + 1 ELSE invalidationTimestamp[m]]
    /\ NoMessage
    /\ UNCHANGED <<graphVars, stampVars, clock>>

\* invalidate_on_change, run for every file change.
InvalidateOnChange(changed) ==
    /\ changed \in nodes
    /\ invalidationStamp < MaxStamp
    /\ invalidationStamp' = invalidationStamp + 1
    /\ invalidationTimestamp' = [m \in Modules |->
            IF m \in HardInvalidated(changed) THEN invalidationStamp + 1
                                              ELSE invalidationTimestamp[m]]
    /\ NoMessage
    /\ UNCHANGED <<graphVars, stampVars, clock>>

\* Faulty form: stamps the direct importers only.
StampUpdateDirect(changed, now) ==
    /\ StampAll(({changed} \cup importers[changed]) \cap nodes, now)
    /\ NoMessage
    /\ UNCHANGED <<graphVars, invalidationTimestamp, invalidationStamp, clock>>

\* stamp_update, for a change whose update reaches its boundaries.  decide_file
\* reads the clock before it takes the graph's lock: now may be long past, and
\* older than a stamp that another task made meanwhile.
StampUpdate(changed, now) ==
    /\ StampAll(DirtyClosure(changed) \cap nodes, now)
    /\ NoMessage
    /\ UNCHANGED <<graphVars, invalidationTimestamp, invalidationStamp, clock>>

\* Faulty form: stamps the module that hands the update back.
InvalidationDirtyWithSelf(changed) == DirtyClosure(changed) \cap nodes

\* The modules an accepted invalidate() of changed stamps.
InvalidationDirty(changed) == (DirtyClosure(changed) \cap nodes) \ {changed}

\* accept_invalidation: once per update of a self-accepting module; the clock is
\* read before the lock is taken here too.
AcceptInvalidation(changed, now) ==
    /\ changed \in nodes
    /\ selfAccepting[changed]
    /\ hmrTimestamp[changed] # 0
    /\ ~invalidationReceived[changed]
    /\ LET dirty == InvalidationDirty(changed)
       IN  /\ hmrTimestamp' = [m \in Modules |->
                    IF m \in dirty THEN now ELSE hmrTimestamp[m]]
           /\ invalidationReceived' = [m \in Modules |->
                    m \notin dirty /\ (m = changed \/ invalidationReceived[m])]
    /\ pruneFrame' = {}
    /\ handedBack' = {changed}
    /\ UNCHANGED <<graphVars, invalidationTimestamp, invalidationStamp, clock>>

\* Time passes; two operations may fall in one millisecond.
Tick ==
    /\ clock < MaxTime
    /\ clock' = clock + 1
    /\ NoMessage
    /\ UNCHANGED <<graphVars, stampVars, invalidationTimestamp,
                   invalidationStamp>>

Next ==
    \/ \E s \in Shapes : Register(s)
    \/ \E m \in Modules :
          \/ ResolveFailed(m)
          \/ InvalidateOnChange(m)
          \/ \E now \in 1 .. clock : StampUpdate(m, now) \/ AcceptInvalidation(m, now)
    \/ Tick

Spec == Init /\ [][Next]_vars

-----------------------------------------------------------------------------
(* Properties.                                                             *)

\* The two directions of every edge agree, and both its ends are nodes: a
\* walk up the importers never meets a stale or a missing module.
EdgesAgree ==
    \A a, b \in Modules :
        /\ b \in imports[a] <=> a \in importers[b]
        /\ b \in imports[a] => a \in nodes /\ b \in nodes

\* No stamp is ahead of what was handed out, a module outside the graph has
\* none, and invalidate() is only on record for a module an update touched.
StampsBounded ==
    \A m \in Modules :
        /\ hmrTimestamp[m] <= clock
        /\ invalidationTimestamp[m] <= invalidationStamp
        /\ hmrTimestamp[m] # 0 => m \in nodes
        /\ invalidationReceived[m] => hmrTimestamp[m] # 0

\* The client is told to prune exactly the modules that lost their last
\* importer in this step (the side effects of no other module are undone),
\* and a pruned module carries the stamp that makes a re-import re-run it.
PruneExact ==
    [][ /\ pruneFrame' = {m \in Modules : importers[m] # {} /\ importers'[m] = {}}
        /\ \A m \in pruneFrame' : hmrTimestamp'[m] = clock ]_vars

\* import.meta.hot.invalidate() is accepted at most once per update: the
\* module that hands an update back keeps its stamp and has the call on
\* record, and only its prune or an update of a whole chain that it is part of
\* takes it off the record again.
InvalidatedOnce ==
    [][ /\ \A m \in handedBack' :
              /\ ~invalidationReceived[m] /\ invalidationReceived'[m]
              /\ hmrTimestamp'[m] = hmrTimestamp[m]
        /\ \A m \in Modules :
              invalidationReceived[m] /\ ~invalidationReceived'[m]
                => \/ m \in pruneFrame'
                   \/ \E c \in nodes :
                        /\ m \in DirtyClosure(c)
                        /\ \A d \in (DirtyClosure(c) \cap nodes) \ handedBack' :
                             hmrTimestamp'[d] = hmrTimestamp'[m] ]_vars

\* An update leaves no gap in the chain of re-fetches: an importer of a newly
\* stamped module gets the same stamp unless the stamped module accepts itself
\* or the importer accepts it, whatever the two had before.  (The module that hands an update back is the
\* one exception: it keeps the instance the browser has loaded.)
ChainStamped ==
    [][ graphVars' = graphVars =>
          \A m \in Modules : \A i \in importers[m] \ handedBack' :
             /\ hmrTimestamp'[m] # hmrTimestamp[m]
             /\ ~selfAccepting[m] /\ ~AcceptsDep(i, m)
             => hmrTimestamp'[i] = hmrTimestamp'[m] ]_vars

\* A file change is not lost on a stylesheet that inlines it, directly or
\* through one other module, hard-invalidated or not: unless one of them
\* accepts, the sheet gets the same new stamp.
SheetsFollow ==
    [][ invalidationStamp' # invalidationStamp =>
          \A m \in Modules : \A i \in importers[m] : \A s \in importers[i] \cup {i} :
             /\ invalidationTimestamp'[m] = invalidationStamp'
             /\ ~AcceptsDep(i, m)
             /\ s \in Sheets /\ (s = i \/ ~AcceptsDep(s, i))
             => invalidationTimestamp'[s] = invalidationStamp' ]_vars

\* Invalidation stamps, which compiles are keyed by, only grow, and every file
\* change of a known module gives some module a stamp no module had: a compile
\* keyed by the old stamp is not found again.  (Nothing of the kind holds of
\* HMR timestamps.)
InvalidationStampsGrow ==
    [][ /\ \A m \in Modules : invalidationTimestamp'[m] >= invalidationTimestamp[m]
        /\ invalidationStamp' # invalidationStamp =>
              \E m \in nodes : \A o \in Modules :
                  invalidationTimestamp'[m] > invalidationTimestamp[o] ]_vars
=============================================================================
