------------------------- MODULE ModuleGraphProofs -------------------------
(***************************************************************************)
(* What the module graph promises, for any set of modules and any shape of *)
(* the compiled modules.  Every property of ModuleGraph follows from one   *)
(* inductive invariant: the types, the agreement of the two edge maps, the *)
(* bounds of the stamps, and a clock that never reads 0.                   *)
(***************************************************************************)
EXTENDS ModuleGraph, TLAPS

\* A node stamped now is told from one never stamped: now_millis() is not 0.
ClockStarted == clock >= 1

\* The inductive invariant.
GraphInv == TypeOK /\ EdgesAgree /\ StampsBounded /\ ClockStarted

-----------------------------------------------------------------------------
(* The walks.                                                              *)

\* Where dirty_closure starts, it includes; and it misses no importer that
\* its loop pushes.
LEMMA DirtyClosureClosed ==
    /\ \A changed \in Modules : changed \in DirtyClosure(changed)
    /\ \A changed \in Modules : \A m \in DirtyClosure(changed), i \in Modules :
          DirtyStep(changed, m, i) => i \in DirtyClosure(changed)
<1>1. \A changed \in Modules : changed \in DirtyClosure(changed)
  BY DEF DirtyClosure
<1>2. ASSUME NEW changed \in Modules, NEW m \in DirtyClosure(changed),
             NEW i \in Modules, DirtyStep(changed, m, i)
      PROVE  i \in DirtyClosure(changed)
  <2>1. SUFFICES ASSUME NEW C \in SUBSET Modules,
                        changed \in C, DirtyClosed(changed, C)
                 PROVE  i \in C
    BY DEF DirtyClosure
  <2>2. m \in C
    BY <2>1 DEF DirtyClosure
  <2>3. QED
    BY <2>1, <2>2, <1>2 DEF DirtyClosed
<1>3. QED
  BY <1>1, <1>2

\* A module outside the graph has no chain to stamp.
LEMMA DirtyClosureRooted ==
    \A changed \in Modules : DirtyClosure(changed) \cap nodes # {} => changed \in nodes
<1>1. ASSUME NEW changed \in Modules, changed \notin nodes
      PROVE  DirtyClosure(changed) \subseteq {changed}
  BY <1>1 DEF DirtyClosure, DirtyClosed, DirtyStep
<1>2. QED
  BY <1>1

\* The same of invalidate_on_change.
LEMMA InvalidatedClosed ==
    /\ \A changed \in Modules : changed \in Invalidated(changed)
    /\ \A changed \in Modules : \A m \in Invalidated(changed), i \in Modules :
          m \in nodes /\ i \in importers[m] /\ ~AcceptsDep(i, m)
            => i \in Invalidated(changed)
<1>1. \A changed \in Modules : changed \in Invalidated(changed)
  BY DEF Invalidated
<1>2. ASSUME NEW changed \in Modules, NEW m \in Invalidated(changed),
             NEW i \in Modules,
             m \in nodes, i \in importers[m], ~AcceptsDep(i, m)
      PROVE  i \in Invalidated(changed)
  <2>1. SUFFICES ASSUME NEW C \in SUBSET Modules,
                        changed \in C, InvalidationClosed(C)
                 PROVE  i \in C
    BY DEF Invalidated
  <2>2. m \in C
    BY <2>1 DEF Invalidated
  <2>3. QED
    BY <2>1, <2>2, <1>2 DEF InvalidationClosed
<1>3. QED
  BY <1>1, <1>2

-----------------------------------------------------------------------------
(* The inductive invariant.                                                *)

\* A graph no module was registered in satisfies it.
LEMMA InitInv == Init => GraphInv
<1>1. SUFFICES ASSUME Init PROVE GraphInv
  OBVIOUS
<1>2. NoBindings \in Bindings
  <2>1. NoBindings \in [{} -> SUBSET Names]
    BY DEF NoBindings
  <2>2. QED
    BY <2>1 DEF Bindings
<1>3. TypeOK
  BY <1>1, <1>2 DEF Init, TypeOK, GraphTypeOK
<1>4. EdgesAgree /\ StampsBounded /\ ClockStarted
  BY <1>1 DEF Init, EdgesAgree, StampsBounded, ClockStarted
<1>5. QED
  BY <1>3, <1>4 DEF GraphInv

\* stamp_all leaves timestamps and flags behind.
LEMMA StampAllType ==
    ASSUME GraphInv, NEW P \in SUBSET Modules, NEW now \in Nat, StampAll(P, now)
    PROVE  /\ hmrTimestamp' \in [Modules -> Nat]
           /\ invalidationReceived' \in [Modules -> BOOLEAN]
<1>1. hmrTimestamp' \in [Modules -> Nat]
  BY DEF GraphInv, TypeOK, StampAll
<1>2. invalidationReceived' \in [Modules -> BOOLEAN]
  BY DEF GraphInv, TypeOK, StampAll
<1>3. QED
  BY <1>1, <1>2

\* register_in_graph keeps it: the pruned modules it stamps were imported, so
\* they are nodes, and set_imports moves both directions of every edge.
LEMMA RegisterInv ==
    ASSUME GraphInv, NEW s \in Shapes, Register(s)
    PROVE  GraphInv'
<1> DEFINE P == Pruned(s.url, s.imports)
<1>1. /\ s.url \in Modules /\ s.imports \in SUBSET Modules
      /\ s.selfAccept \in BOOLEAN /\ s.deps \in SUBSET Modules
      /\ s.exports \in (SUBSET Names) \cup {NoExports}
      /\ s.bindings \in Bindings
  BY ShapesAssumption
<1>2. P \in SUBSET Modules /\ P \subseteq nodes
  BY <1>1 DEF GraphInv, TypeOK, GraphTypeOK, EdgesAgree, Pruned
<1>3. StampAll(P, clock) /\ SetImports(s.url, s.imports) /\ SetAcceptance(s)
      /\ pruneFrame' = P /\ handedBack' = {}
      /\ UNCHANGED <<invalidationTimestamp, invalidationStamp, clock>>
  BY DEF Register
<1>4. TypeOK'
  <2>1. nodes' \in SUBSET Modules
    BY <1>1, <1>3 DEF SetImports, GraphInv, TypeOK, GraphTypeOK
  <2>2. imports' \in [Modules -> SUBSET Modules]
    BY <1>1, <1>3 DEF SetImports, GraphInv, TypeOK, GraphTypeOK
  <2>3. importers' \in [Modules -> SUBSET Modules]
    BY <1>1, <1>3 DEF SetImports, GraphInv, TypeOK, GraphTypeOK
  <2>4. /\ selfAccepting' \in [Modules -> BOOLEAN]
        /\ acceptedDeps' \in [Modules -> SUBSET Modules]
        /\ acceptedExports' \in [Modules -> (SUBSET Names) \cup {NoExports}]
        /\ importedBindings' \in [Modules -> Bindings]
    BY <1>1, <1>3 DEF SetAcceptance, GraphInv, TypeOK, GraphTypeOK
  <2>5. /\ hmrTimestamp' \in [Modules -> Nat]
        /\ invalidationReceived' \in [Modules -> BOOLEAN]
    BY <1>2, <1>3, StampAllType DEF GraphInv, TypeOK
  <2>6. QED
    BY <1>2, <1>3, <2>1, <2>2, <2>3, <2>4, <2>5
    DEF GraphInv, TypeOK, GraphTypeOK
<1>5. EdgesAgree'
  BY <1>1, <1>3 DEF SetImports, GraphInv, TypeOK, GraphTypeOK, EdgesAgree
<1>6. StampsBounded'
  <2>1. nodes \subseteq nodes'
    BY <1>3 DEF SetImports
  <2>2. QED
    BY <1>2, <1>3, <2>1
    DEF StampAll, GraphInv, TypeOK, GraphTypeOK, StampsBounded, ClockStarted
<1>7. ClockStarted'
  BY <1>3 DEF GraphInv, ClockStarted
<1>8. QED
  BY <1>4, <1>5, <1>6, <1>7 DEF GraphInv

\* Every operation of the graph keeps it.
LEMMA NextInv == GraphInv /\ [Next]_vars => GraphInv'
<1>1. SUFFICES ASSUME GraphInv, [Next]_vars PROVE GraphInv'
  OBVIOUS
<1>2. ASSUME NEW s \in Shapes, Register(s) PROVE GraphInv'
  BY <1>1, <1>2, RegisterInv
<1>3. ASSUME NEW m \in Modules, ResolveFailed(m) PROVE GraphInv'
  BY <1>1, <1>3
  DEF ResolveFailed, NoMessage, stampVars, GraphInv, TypeOK, GraphTypeOK,
      EdgesAgree, StampsBounded, ClockStarted
<1>4. ASSUME NEW m \in Modules, InvalidateOnChange(m) PROVE GraphInv'
  <2>1. TypeOK'
    BY <1>1, <1>4
    DEF InvalidateOnChange, NoMessage, graphVars, stampVars, GraphInv, TypeOK,
        GraphTypeOK
  <2>2. EdgesAgree' /\ ClockStarted'
    BY <1>1, <1>4
    DEF InvalidateOnChange, graphVars, GraphInv, EdgesAgree, ClockStarted
  <2>3. StampsBounded'
    BY <1>1, <1>4
    DEF InvalidateOnChange, graphVars, stampVars, GraphInv, TypeOK,
        StampsBounded
  <2>4. QED
    BY <2>1, <2>2, <2>3 DEF GraphInv
<1>5. ASSUME NEW m \in Modules, NEW now \in 1 .. clock, StampUpdate(m, now)
      PROVE  GraphInv'
  <2> DEFINE P == DirtyClosure(m) \cap nodes
  <2>1. P \in SUBSET Modules /\ P \subseteq nodes /\ now \in Nat /\ clock \in Nat
    BY <1>1 DEF GraphInv, TypeOK, GraphTypeOK
  <2>2. StampAll(P, now) /\ NoMessage
        /\ UNCHANGED <<graphVars, invalidationTimestamp, invalidationStamp, clock>>
    BY <1>5 DEF StampUpdate
  <2> HIDE DEF P
  <2>3. TypeOK'
    BY <1>1, <2>1, <2>2, StampAllType
    DEF NoMessage, graphVars, GraphInv, TypeOK, GraphTypeOK
  <2>4. EdgesAgree' /\ ClockStarted'
    BY <1>1, <2>2 DEF graphVars, GraphInv, EdgesAgree, ClockStarted
  <2>5. StampsBounded'
    BY <1>1, <2>1, <2>2
    DEF StampAll, graphVars, GraphInv, TypeOK, StampsBounded, ClockStarted
  <2>6. QED
    BY <2>3, <2>4, <2>5 DEF GraphInv
<1>6. ASSUME NEW m \in Modules, NEW now \in 1 .. clock, AcceptInvalidation(m, now)
      PROVE  GraphInv'
  <2> DEFINE D == InvalidationDirty(m)
  <2>1. D \in SUBSET Modules /\ D \subseteq nodes /\ now \in Nat /\ clock \in Nat
    BY <1>1 DEF GraphInv, TypeOK, GraphTypeOK, InvalidationDirty
  <2>2. /\ m \in nodes /\ hmrTimestamp[m] # 0
        /\ hmrTimestamp' = [n \in Modules |->
              IF n \in D THEN now ELSE hmrTimestamp[n]]
        /\ invalidationReceived' = [n \in Modules |->
              n \notin D /\ (n = m \/ invalidationReceived[n])]
        /\ pruneFrame' = {} /\ handedBack' = {m}
        /\ UNCHANGED <<graphVars, invalidationTimestamp, invalidationStamp, clock>>
    BY <1>6 DEF AcceptInvalidation
  <2> HIDE DEF D
  <2>3. TypeOK'
    BY <1>1, <2>1, <2>2 DEF graphVars, GraphInv, TypeOK, GraphTypeOK
  <2>4. EdgesAgree' /\ ClockStarted'
    BY <1>1, <2>2 DEF graphVars, GraphInv, EdgesAgree, ClockStarted
  <2>5. StampsBounded'
    BY <1>1, <2>1, <2>2
    DEF graphVars, GraphInv, TypeOK, StampsBounded, ClockStarted
  <2>6. QED
    BY <2>3, <2>4, <2>5 DEF GraphInv
<1>7. CASE Tick
  BY <1>1, <1>7
  DEF Tick, NoMessage, graphVars, stampVars, GraphInv, TypeOK, GraphTypeOK,
      EdgesAgree, StampsBounded, ClockStarted
<1>8. CASE UNCHANGED vars
  BY <1>1, <1>8
  DEF vars, graphVars, stampVars, GraphInv, TypeOK, GraphTypeOK, EdgesAgree,
      StampsBounded, ClockStarted
<1>9. QED
  BY <1>1, <1>2, <1>3, <1>4, <1>5, <1>6, <1>7, <1>8 DEF Next

-----------------------------------------------------------------------------
(* Invariants.                                                             *)

\* The invariant holds of every state the graph's operations reach.
THEOREM GraphInvariant == Spec => []GraphInv
  BY InitInv, NextInv, PTL DEF Spec

\* Every field of the graph keeps its type under all of its operations.
THEOREM TypeCorrect == Spec => []TypeOK
<1>1. GraphInv => TypeOK
  BY DEF GraphInv
<1>2. QED
  BY <1>1, GraphInvariant, PTL

\* set_imports keeps importers and imports each other's inverse, between
\* modules of the graph, whatever is registered, in whatever order.
THEOREM EdgesAlwaysAgree == Spec => []EdgesAgree
<1>1. GraphInv => EdgesAgree
  BY DEF GraphInv
<1>2. QED
  BY <1>1, GraphInvariant, PTL

\* No stamp is ahead of the clock or the counter it was read from, and only
\* modules of the graph carry one.
THEOREM StampsAlwaysBounded == Spec => []StampsBounded
<1>1. GraphInv => StampsBounded
  BY DEF GraphInv
<1>2. QED
  BY <1>1, GraphInvariant, PTL

-----------------------------------------------------------------------------
(* Action properties: what a step of the graph may never do.               *)

\* register_in_graph's prune list is exactly the modules that lost their last
\* importer, each stamped; no other operation prunes.
THEOREM PrunesExactly == Spec => PruneExact
<1> DEFINE Exact ==
      /\ pruneFrame' = {m \in Modules : importers[m] # {} /\ importers'[m] = {}}
      /\ \A m \in pruneFrame' : hmrTimestamp'[m] = clock
<1>1. ASSUME GraphInv, [Next]_vars PROVE [Exact]_vars
  <2>1. ASSUME NEW s \in Shapes, Register(s) PROVE Exact
    <3>1. s.url \in Modules /\ s.imports \in SUBSET Modules
      BY ShapesAssumption
    <3>2. pruneFrame' = Pruned(s.url, s.imports)
          /\ SetImports(s.url, s.imports) /\ StampAll(pruneFrame', clock)
      BY <2>1 DEF Register
    <3>3. ASSUME NEW m \in Modules
          PROVE  m \in Pruned(s.url, s.imports)
                   <=> importers[m] # {} /\ importers'[m] = {}
      BY <1>1, <3>1, <3>2
      DEF Pruned, SetImports, GraphInv, TypeOK, GraphTypeOK, EdgesAgree
    <3>4. Pruned(s.url, s.imports) \subseteq Modules
      BY <1>1, <3>1 DEF Pruned, GraphInv, TypeOK, GraphTypeOK
    <3>5. \A m \in pruneFrame' : hmrTimestamp'[m] = clock
      BY <3>2, <3>4 DEF StampAll
    <3>6. QED
      BY <3>2, <3>3, <3>4, <3>5
  <2>2. CASE \E m \in Modules :
               \/ ResolveFailed(m) \/ InvalidateOnChange(m)
               \/ \E now \in 1 .. clock : StampUpdate(m, now) \/ AcceptInvalidation(m, now)
    BY <2>2 DEF ResolveFailed, InvalidateOnChange, StampUpdate,
                AcceptInvalidation, NoMessage, graphVars
  <2>3. CASE Tick
    BY <2>3 DEF Tick, NoMessage, graphVars
  <2>4. QED
    BY <1>1, <2>1, <2>2, <2>3 DEF Next
<1>2. QED
  BY <1>1, GraphInvariant, PTL DEF Spec, PruneExact

\* accept_invalidation takes a module's invalidate() once per update.
THEOREM InvalidatesOnce == Spec => InvalidatedOnce
<1> DEFINE Updated(m) ==
             \/ m \in pruneFrame'
             \/ \E c \in nodes :
                  /\ m \in DirtyClosure(c)
                  /\ \A d \in (DirtyClosure(c) \cap nodes) \ handedBack' :
                       hmrTimestamp'[d] = hmrTimestamp'[m]
           Once ==
             /\ \A m \in handedBack' :
                   /\ ~invalidationReceived[m] /\ invalidationReceived'[m]
                   /\ hmrTimestamp'[m] = hmrTimestamp[m]
             /\ \A m \in Modules :
                   invalidationReceived[m] /\ ~invalidationReceived'[m] => Updated(m)
<1>1. ASSUME GraphInv, [Next]_vars PROVE [Once]_vars
  <2>1. ASSUME NEW s \in Shapes, Register(s) PROVE Once
    BY <1>1, <2>1 DEF Register, StampAll, GraphInv, TypeOK
  <2>2. ASSUME NEW m \in Modules, ResolveFailed(m) \/ InvalidateOnChange(m)
        PROVE  Once
    BY <2>2 DEF ResolveFailed, InvalidateOnChange, NoMessage, stampVars
  <2>3. ASSUME NEW c \in Modules, NEW now \in 1 .. clock, StampUpdate(c, now) PROVE Once
    <3> DEFINE P == DirtyClosure(c) \cap nodes
    <3>1. StampAll(P, now) /\ handedBack' = {}
      BY <2>3 DEF StampUpdate, NoMessage
    <3>2. P # {} => c \in nodes
      BY DirtyClosureRooted
    <3>3. \A m \in Modules : invalidationReceived[m] /\ ~invalidationReceived'[m] => m \in P
      BY <1>1, <3>1 DEF StampAll, GraphInv, TypeOK
    <3>4. \A d \in P : hmrTimestamp'[d] = now
      BY <3>1 DEF StampAll, DirtyClosure
    <3>5. QED
      BY <3>1, <3>2, <3>3, <3>4
  <2>4. ASSUME NEW c \in Modules, NEW now \in 1 .. clock, AcceptInvalidation(c, now)
        PROVE  Once
    <3> DEFINE D == InvalidationDirty(c)
    <3>1. /\ c \in nodes /\ ~invalidationReceived[c] /\ handedBack' = {c}
          /\ hmrTimestamp' = [n \in Modules |-> IF n \in D THEN now ELSE hmrTimestamp[n]]
          /\ invalidationReceived' = [n \in Modules |->
                n \notin D /\ (n = c \/ invalidationReceived[n])]
      BY <2>4 DEF AcceptInvalidation
    <3>2. D = (DirtyClosure(c) \cap nodes) \ {c} /\ D \subseteq Modules
      BY DEF InvalidationDirty, DirtyClosure
    <3>3. \A m \in handedBack' :
             /\ ~invalidationReceived[m] /\ invalidationReceived'[m]
             /\ hmrTimestamp'[m] = hmrTimestamp[m]
      BY <1>1, <3>1, <3>2 DEF GraphInv, TypeOK
    <3>4. \A m \in Modules : invalidationReceived[m] /\ ~invalidationReceived'[m] => m \in D
      BY <1>1, <3>1 DEF GraphInv, TypeOK
    <3>5. \A d \in D : hmrTimestamp'[d] = now
      BY <3>1, <3>2
    <3>6. QED
      BY <3>1, <3>2, <3>3, <3>4, <3>5
  <2>5. CASE Tick
    BY <2>5 DEF Tick, NoMessage, stampVars
  <2>6. QED
    BY <1>1, <2>1, <2>2, <2>3, <2>4, <2>5 DEF Next
<1>2. QED
  BY <1>1, GraphInvariant, PTL DEF Spec, InvalidatedOnce

\* stamp_update and accept_invalidation leave no gap between the changed
\* module and its boundaries.
THEOREM ChainsStamped == Spec => ChainStamped
<1> DEFINE Chain ==
      graphVars' = graphVars =>
        \A m \in Modules : \A i \in importers[m] \ handedBack' :
           /\ hmrTimestamp'[m] # hmrTimestamp[m]
           /\ ~selfAccepting[m] /\ ~AcceptsDep(i, m)
           => hmrTimestamp'[i] = hmrTimestamp'[m]
<1>1. ASSUME GraphInv, [Next]_vars PROVE [Chain]_vars
  <2>1. ASSUME NEW s \in Shapes, Register(s) PROVE Chain
    <3>1. SUFFICES ASSUME graphVars' = graphVars PROVE hmrTimestamp' = hmrTimestamp
      BY <1>1 DEF GraphInv, TypeOK
    <3>2. s.url \in Modules /\ imports'[s.url] = s.imports
      BY <1>1, <2>1, ShapesAssumption
      DEF Register, SetImports, GraphInv, TypeOK, GraphTypeOK
    <3>3. Pruned(s.url, s.imports) = {}
      BY <3>1, <3>2 DEF graphVars, Pruned
    <3>4. QED
      BY <1>1, <2>1, <3>3 DEF Register, StampAll, GraphInv, TypeOK
  <2>2. ASSUME NEW m \in Modules, ResolveFailed(m) \/ InvalidateOnChange(m)
        PROVE  Chain
    BY <1>1, <2>2
    DEF ResolveFailed, InvalidateOnChange, stampVars, GraphInv, TypeOK
  <2>3. ASSUME NEW c \in Modules, NEW now \in 1 .. clock,
               StampUpdate(c, now) \/ AcceptInvalidation(c, now),
               NEW m \in Modules, NEW i \in importers[m] \ handedBack',
               hmrTimestamp'[m] # hmrTimestamp[m],
               ~selfAccepting[m], ~AcceptsDep(i, m)
        PROVE  hmrTimestamp'[i] = hmrTimestamp'[m]
    <3>1. i \in Modules /\ i \in nodes /\ m \in nodes
      BY <1>1, <2>3 DEF GraphInv, TypeOK, GraphTypeOK, EdgesAgree
    <3>2. m \in DirtyClosure(c) /\ hmrTimestamp'[m] = now
      BY <1>1, <2>3
      DEF StampUpdate, StampAll, AcceptInvalidation, InvalidationDirty,
          GraphInv, TypeOK
    <3>3. i \in DirtyClosure(c)
      BY <2>3, <3>1, <3>2, DirtyClosureClosed DEF DirtyStep
    <3>4. CASE StampUpdate(c, now)
      BY <3>1, <3>2, <3>3, <3>4 DEF StampUpdate, StampAll
    <3>5. CASE AcceptInvalidation(c, now)
      BY <2>3, <3>1, <3>2, <3>3, <3>5 DEF AcceptInvalidation, InvalidationDirty
    <3>6. QED
      BY <2>3, <3>4, <3>5
  <2>4. CASE Tick
    BY <1>1, <2>4 DEF Tick, stampVars, GraphInv, TypeOK
  <2>5. QED
    BY <1>1, <2>1, <2>2, <2>3, <2>4 DEF Next
<1>2. QED
  BY <1>1, GraphInvariant, PTL DEF Spec, ChainStamped

\* invalidate_on_change reaches every stylesheet that inlines what changed,
\* through modules it only invalidates softly too.
THEOREM SheetsAlwaysFollow == Spec => SheetsFollow
<1> DEFINE Follow ==
      invalidationStamp' # invalidationStamp =>
        \A m \in Modules : \A i \in importers[m] : \A s \in importers[i] \cup {i} :
           /\ invalidationTimestamp'[m] = invalidationStamp'
           /\ ~AcceptsDep(i, m)
           /\ s \in Sheets /\ (s = i \/ ~AcceptsDep(s, i))
           => invalidationTimestamp'[s] = invalidationStamp'
<1>1. ASSUME GraphInv, [Next]_vars PROVE [Follow]_vars
  <2>1. ASSUME NEW c \in Modules, InvalidateOnChange(c),
               NEW m \in Modules, NEW i \in importers[m],
               NEW s \in importers[i] \cup {i},
               invalidationTimestamp'[m] = invalidationStamp',
               ~AcceptsDep(i, m), s \in Sheets, s = i \/ ~AcceptsDep(s, i)
        PROVE  invalidationTimestamp'[s] = invalidationStamp'
    <3>1. i \in Modules /\ i \in nodes /\ m \in nodes
      BY <1>1 DEF GraphInv, TypeOK, GraphTypeOK, EdgesAgree
    <3>2. s \in Modules /\ s \in nodes
      BY <1>1, <3>1 DEF GraphInv, TypeOK, GraphTypeOK, EdgesAgree
    <3>3. m \in Invalidated(c)
      <4>1. m \in HardInvalidated(c)
        BY <1>1, <2>1
        DEF InvalidateOnChange, GraphInv, TypeOK, StampsBounded
      <4>2. QED
        BY <4>1 DEF HardInvalidated
    <3>4. i \in Invalidated(c)
      BY <2>1, <3>1, <3>3, InvalidatedClosed
    <3>5. s \in Invalidated(c)
      BY <2>1, <3>1, <3>2, <3>4, InvalidatedClosed
    <3>6. s \in HardInvalidated(c)
      BY <2>1, <3>2, <3>5 DEF HardInvalidated
    <3>7. QED
      BY <2>1, <3>2, <3>6 DEF InvalidateOnChange
  <2>2. ASSUME NEW c \in Modules,
               \/ ResolveFailed(c)
               \/ \E now \in 1 .. clock : StampUpdate(c, now) \/ AcceptInvalidation(c, now)
        PROVE  Follow
    BY <2>2 DEF ResolveFailed, StampUpdate, AcceptInvalidation
  <2>3. CASE Tick \/ \E s \in Shapes : Register(s)
    BY <2>3 DEF Tick, Register
  <2>4. QED
    BY <1>1, <2>1, <2>2, <2>3 DEF Next, vars
<1>2. QED
  BY <1>1, GraphInvariant, PTL DEF Spec, SheetsFollow

\* No operation takes an invalidation stamp back, and invalidate_on_change always
\* gives the changed module one that no module had.
THEOREM InvalidationStampsAlwaysGrow == Spec => InvalidationStampsGrow
<1> DEFINE Grow ==
      /\ \A m \in Modules : invalidationTimestamp'[m] >= invalidationTimestamp[m]
      /\ invalidationStamp' # invalidationStamp =>
            \E m \in nodes : \A o \in Modules :
                invalidationTimestamp'[m] > invalidationTimestamp[o]
<1>1. ASSUME GraphInv, [Next]_vars PROVE [Grow]_vars
  <2>1. ASSUME NEW c \in Modules, InvalidateOnChange(c) PROVE Grow
    <3>1. c \in HardInvalidated(c)
      BY <2>1, InvalidatedClosed DEF InvalidateOnChange, HardInvalidated
    <3>2. invalidationTimestamp'[c] = invalidationStamp + 1
      BY <2>1, <3>1 DEF InvalidateOnChange
    <3>3. \A o \in Modules :
             invalidationTimestamp'[c] > invalidationTimestamp[o]
      BY <1>1, <3>2 DEF GraphInv, TypeOK, StampsBounded
    <3>4. \A m \in Modules : invalidationTimestamp'[m] >= invalidationTimestamp[m]
      BY <1>1, <2>1
      DEF InvalidateOnChange, GraphInv, TypeOK, StampsBounded
    <3>5. c \in nodes
      BY <2>1 DEF InvalidateOnChange
    <3>6. QED
      BY <3>3, <3>4, <3>5
  <2>2. ASSUME NEW c \in Modules,
               \/ ResolveFailed(c)
               \/ \E now \in 1 .. clock : StampUpdate(c, now) \/ AcceptInvalidation(c, now)
        PROVE  Grow
    BY <1>1, <2>2
    DEF ResolveFailed, StampUpdate, AcceptInvalidation, GraphInv, TypeOK
  <2>3. ASSUME NEW s \in Shapes, Register(s) PROVE Grow
    BY <1>1, <2>3 DEF Register, GraphInv, TypeOK
  <2>4. CASE Tick
    BY <1>1, <2>4 DEF Tick, GraphInv, TypeOK
  <2>5. CASE UNCHANGED vars
    BY <2>5
  <2>6. QED
    BY <1>1, <2>1, <2>2, <2>3, <2>4, <2>5 DEF Next
<1>2. QED
  BY <1>1, GraphInvariant, PTL DEF Spec, InvalidationStampsGrow
=============================================================================
