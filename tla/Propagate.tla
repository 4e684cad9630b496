------------------------------ MODULE Propagate ------------------------------
(***************************************************************************)
(* collect_boundaries and climb (oj_graph/src/propagate.rs): the           *)
(* depth-first walk from the seeds of an update up their importers to the  *)
(* modules that accept it, or to a full reload.  The walk runs under the   *)
(* graph's lock, so the graph does not change; Init takes any graph.       *)
(*                                                                         *)
(* The code's stack holds, for every gray module, one Blacken step with    *)
(* the Enter steps of its importers above it; path is the gray modules and *)
(* todo[m] the Enter steps still above m's Blacken.                        *)
(***************************************************************************)
EXTENDS GraphState, Naturals, Sequences

CONSTANTS
    Rank,         \* the order of the paths
    Edges,        \* the imports a graph may have (a bound)
    EdgeKinds,    \* how an importer may take a dep, see KindsOfEdge
    NodeKinds     \* how a module may accept, see KindsOfNode

KindsOfEdge == {"none", "plain", "accepts", "gated"}
KindsOfNode == {"plain", "self", "partial"}

ASSUME KindsAssumption ==
    /\ Edges \subseteq Modules \X Modules
    /\ EdgeKinds \subseteq KindsOfEdge
    /\ NodeKinds \subseteq KindsOfNode
ASSUME RankAssumption ==
    /\ Rank \in [Modules -> Nat]
    /\ \A m, n \in Modules : Rank[m] = Rank[n] => m = n

VARIABLES
    changed,      \* the module the update is of
    fromImporters,\* update_targets_from_importers rather than update_targets
    seeds,        \* seeds the walk has not started from yet
    gray, black,  \* Color
    path,         \* the gray modules this walk entered, outermost first
    todo,         \* importers of a gray module still to be entered
    targets,      \* boundaries: Vec<UpdateTarget>
    result        \* "walking", "ok", or "reload" (Err)

walkVars == <<seeds, gray, black, path, todo, targets, result>>
vars == <<graphVars, changed, fromImporters, walkVars>>

preStack == IF fromImporters THEN {changed} ELSE {}

Target == [boundary : Modules, accepted : Modules, circular : BOOLEAN]

TypeOK ==
    /\ GraphTypeOK
    /\ changed \in Modules
    /\ fromImporters \in BOOLEAN
    /\ seeds \in SUBSET Modules
    /\ gray \in SUBSET Modules
    /\ black \in SUBSET Modules
    /\ path \in Seq(Modules)
    /\ todo \in [Modules -> SUBSET Modules]
    /\ targets \in SUBSET Target
    /\ result \in {"walking", "ok", "reload"}

-----------------------------------------------------------------------------
(* The graph: every registered node with its edges in both directions.    *)

AnyGraph ==
    \E edge \in [Edges -> EdgeKinds], kind \in [Modules -> NodeKinds] :
        LET Has(m, d, kinds) == <<m, d>> \in Edges /\ edge[<<m, d>>] \in kinds
            Import == {"plain", "accepts", "gated"}
        IN  /\ nodes = Modules
            /\ imports = [m \in Modules |-> {d \in Modules : Has(m, d, Import)}]
            /\ importers = [d \in Modules |-> {m \in Modules : Has(m, d, Import)}]
            /\ selfAccepting = [m \in Modules |-> kind[m] = "self"]
            /\ acceptedDeps = [m \in Modules |->
                    {d \in Modules : Has(m, d, {"accepts"})}]
            /\ acceptedExports = [m \in Modules |->
                    IF kind[m] = "partial" THEN {} ELSE NoExports]
            /\ importedBindings = [m \in Modules |->
                    [d \in {e \in Modules : Has(m, e, Import)} |->
                        IF Has(m, d, {"gated"}) THEN {} ELSE Names]]

\* update_targets refuses a module outside the graph (the caller reloads);
\* update_targets_from_importers also one that nothing imports.  The latter
\* is only called for a self-accepting module (accept_invalidation).
Init ==
    /\ AnyGraph
    /\ changed \in nodes
    /\ fromImporters \in {FALSE, selfAccepting[changed]}
    /\ seeds = IF fromImporters THEN importers[changed] ELSE {changed}
    /\ gray = preStack
    /\ black = {}
    /\ path = <<>>
    /\ todo = [m \in Modules |-> {}]
    /\ targets = {}
    /\ result = IF seeds = {} THEN "reload" ELSE "walking"

-----------------------------------------------------------------------------
(* is_within_circular_imports: the chain up from the boundary, through     *)
(* importers that are neither stylesheets nor the module itself, meets a   *)
(* module on the current change chain or the boundary again.               *)

ChainImporters(m) == {i \in importers[m] : i # m /\ i \notin Sheets}

\* The modules the search upwards from boundary visits.
ChainUp(boundary) ==
    {m \in Modules : \A C \in SUBSET Modules :
        /\ boundary \in C
        /\ \A c \in C : ChainImporters(c) \subseteq C
        => m \in C}

\* Faulty form: ignores the change chain.
WithinCircularSelf(boundary, onChain) ==
    \E m \in ChainUp(boundary) : boundary \in ChainImporters(m)

WithinCircular(boundary, onChain) ==
    \E m \in ChainUp(boundary) : \E i \in ChainImporters(m) :
        i = boundary \/ i \in onChain

TargetOf(boundary, accepted, onChain) ==
    [boundary |-> boundary, accepted |-> accepted,
     circular |-> WithinCircular(boundary, onChain)]

-----------------------------------------------------------------------------
(* One Enter step of climb.                                                *)

\* Black or gray: skipped.  A gray one is a circular import.
Skip(m) ==
    /\ m \in gray \cup black
    /\ UNCHANGED <<gray, black, path, targets, result>>

ReachEntry(m) ==
    /\ m \notin gray \cup black
    /\ m \notin nodes \/ DeadEnd(m)
    /\ result' = "reload"
    /\ UNCHANGED <<gray, black, path, targets>>

AcceptSelf(m) ==
    /\ m \notin gray \cup black
    /\ m \in nodes /\ selfAccepting[m]
    /\ targets' = targets \cup {TargetOf(m, m, gray)}
    /\ black' = black \cup {m}
    /\ UNCHANGED <<gray, path, result>>

\* Faulty form: goes on past an accepting importer.
OnwardPastAccepting(m) == {i \in importers[m] : ~AllImportsAccepted(i, m)}

\* The importers the walk goes on to.
Onward(m) ==
    {i \in importers[m] : ~AcceptsDep(i, m) /\ ~AllImportsAccepted(i, m)}

\* A partially accepting module is a boundary, each importer that accepts m is
\* one, and the walk goes on to the importers neither covers.
Descend(m) ==
    /\ m \notin gray \cup black
    /\ m \in nodes /\ ~selfAccepting[m] /\ ~DeadEnd(m)
    /\ gray' = gray \cup {m}
    /\ path' = Append(path, m)
    /\ targets' = targets
         \cup {TargetOf(m, m, gray) : x \in {y \in {m} : acceptedExports[y] # NoExports}}
         \cup {TargetOf(i, m, gray \cup {m}) : i \in {j \in importers[m] : AcceptsDep(j, m)}}
    /\ UNCHANGED <<black, result>>

Enter(m) == Skip(m) \/ ReachEntry(m) \/ AcceptSelf(m) \/ Descend(m)

\* Faulty form: keeps worklists of the gray modules only.
TodoOfGray(m) == [g \in gray' |-> IF g = m THEN Onward(m) ELSE todo[g]]

\* The todo list of m if it was entered by Descend.
TodoAfter(m) ==
    IF m \in gray' \ gray THEN [todo EXCEPT ![m] = Onward(m)] ELSE todo

EnterSeed(s) ==
    /\ result = "walking" /\ path = <<>> /\ s \in seeds
    /\ seeds' = seeds \ {s}
    /\ Enter(s)
    /\ todo' = TodoAfter(s)
    /\ UNCHANGED <<graphVars, changed, fromImporters>>

Top == path[Len(path)]

\* Faulty form: leaves the entered importer on the stack.
EnterImporterAgain ==
    /\ result = "walking" /\ path # <<>> /\ todo[Top] # {}
    /\ \E i \in todo[Top] :
         /\ \A j \in todo[Top] : Rank[i] <= Rank[j]
         /\ Enter(i)
         /\ todo' = TodoAfter(i)
    /\ UNCHANGED <<graphVars, changed, fromImporters, seeds>>

\* The importers are pushed in reverse order: the least is entered first.
EnterImporter ==
    /\ result = "walking" /\ path # <<>> /\ todo[Top] # {}
    /\ \E i \in todo[Top] :
         /\ \A j \in todo[Top] : Rank[i] <= Rank[j]
         /\ Enter(i)
         /\ todo' = [TodoAfter(i) EXCEPT ![Top] = @ \ {i}]
    /\ UNCHANGED <<graphVars, changed, fromImporters, seeds>>

Blacken ==
    /\ result = "walking" /\ path # <<>> /\ todo[Top] = {}
    /\ gray' = gray \ {Top}
    /\ black' = black \cup {Top}
    /\ path' = SubSeq(path, 1, Len(path) - 1)
    /\ UNCHANGED <<graphVars, changed, fromImporters, seeds, todo, targets, result>>

Finish ==
    /\ result = "walking" /\ path = <<>> /\ seeds = {}
    /\ result' = "ok"
    /\ UNCHANGED <<graphVars, changed, fromImporters, seeds, gray, black, path,
                   todo, targets>>

Next == (\E s \in seeds : EnterSeed(s)) \/ EnterImporter \/ Blacken \/ Finish

Spec == Init /\ [][Next]_vars /\ WF_vars(Next)

-----------------------------------------------------------------------------
(* What the walk should find, stated without a walk.                       *)

Seeds == IF fromImporters THEN importers[changed] ELSE {changed}

\* The modules the update flows through from the modules of S.
FlowsFrom(S) ==
    {m \in Modules : \A C \in SUBSET Modules :
        S \ preStack \subseteq C /\ ClimbClosed(preStack, C) => m \in C}

Reached == FlowsFrom(Seeds)

Accepting(m) == selfAccepting[m] \/ acceptedExports[m] # NoExports

Boundaries ==
    {<<m, m>> : m \in {r \in Reached : Accepting(r)}}
      \cup {e \in Modules \X Reached :
               /\ ~selfAccepting[e[2]]
               /\ e[1] \in importers[e[2]]
               /\ AcceptsDep(e[1], e[2])}

\* The modules m imports, directly or not.
ImportsPlus(m) ==
    {d \in Modules : \A C \in SUBSET Modules :
        imports[m] \subseteq C /\ (\A c \in C : imports[c] \subseteq C) => d \in C}

-----------------------------------------------------------------------------
(* Properties.                                                             *)

\* The walk finds exactly the boundaries the update flows to, whatever the
\* cycles and the order of the importers, and it asks for a full reload if
\* and only if some entry the update flows to has nothing accepting it.
WalkExact ==
    /\ result = "ok" =>
         /\ \A m \in Reached : ~DeadEnd(m)
         /\ {<<t.boundary, t.accepted>> : t \in targets} = Boundaries
    /\ result = "reload" => Seeds = {} \/ \E m \in Reached : DeadEnd(m)

\* isWithinCircularImport: a boundary that the changed module imports again
\* (stylesheets aside) is always flagged, and a flagged one really is on an
\* import cycle.
CircularFlag ==
    \A t \in targets :
        /\ (\E m \in ChainUp(t.boundary) : changed \in ChainImporters(m)) => t.circular
        /\ t.circular => t.boundary \in ImportsPlus(t.boundary)

\* What the client re-imports for an update is stamped by it: stamp_update
\* walks as far as the boundaries the walk reports, also those above a module
\* that accepts only some of its exports.
TargetsStamped ==
    ~fromImporters => \A t \in targets : t.accepted \in DirtyClosure(changed)

\* The importers that hold an accept callback for the changed module.
AcceptingImporters == {i \in importers[changed] : AcceptsDep(i, changed)}

\* What import.meta.hot.invalidate() makes the client re-import is stamped
\* too, the module that invalidated itself being walked past although it
\* accepts itself, with one exception that "Its importers up to the next
\* boundaries are stamped" (accept_invalidation) does not make: what lies past
\* an importer that accepts the module, where update_targets_from_importers
\* walks on and dirty_closure stops.
UnstampedPastAccepting ==
    fromImporters => \A t \in targets :
        t.accepted \in DirtyClosure(changed) \cup FlowsFrom(AcceptingImporters)

\* The walk ends, in import cycles too.
Terminates == <>(result # "walking")
=============================================================================
