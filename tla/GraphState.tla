----------------------------- MODULE GraphState -----------------------------
(***************************************************************************)
(* The structure of the dev server's module graph (oj_graph): who imports  *)
(* whom and what every module accepts.  The walks over it are operators    *)
(* here, each the least set its worklist loop computes; ModuleGraph adds   *)
(* the stamps and the operations that change the graph, Propagate the      *)
(* depth-first walk that looks for the boundaries of an update.            *)
(***************************************************************************)
CONSTANTS
    Modules,      \* graph node paths (urls)
    Sheets,       \* the paths with a stylesheet extension
    Names,        \* export names a module can bind
    NoExports     \* accepted_exports: None, a set that no export list is

ASSUME SheetsAssumption == Sheets \subseteq Modules
ASSUME NoExportsAssumption == NoExports \notin SUBSET Names

VARIABLES
    nodes,             \* the keys of ModuleGraph.modules
    importers,         \* ModuleNode.importers
    imports,           \* ModuleNode.imports
    selfAccepting,     \* ModuleNode.is_self_accepting
    acceptedDeps,      \* ModuleNode.accepted_hmr_deps
    acceptedExports,   \* ModuleNode.accepted_exports
    importedBindings   \* ModuleNode.imported_bindings

graphVars == <<nodes, importers, imports, selfAccepting, acceptedDeps,
               acceptedExports, importedBindings>>

Bindings == UNION {[D -> SUBSET Names] : D \in SUBSET Modules}

NoBindings == [d \in {} |-> {}]

GraphTypeOK ==
    /\ nodes \in SUBSET Modules
    /\ importers \in [Modules -> SUBSET Modules]
    /\ imports \in [Modules -> SUBSET Modules]
    /\ selfAccepting \in [Modules -> BOOLEAN]
    /\ acceptedDeps \in [Modules -> SUBSET Modules]
    /\ acceptedExports \in [Modules -> (SUBSET Names) \cup {NoExports}]
    /\ importedBindings \in [Modules -> Bindings]

-----------------------------------------------------------------------------
(* What an importer accepts.                                               *)

AcceptsDep(importer, dep) == dep \in acceptedDeps[importer]

\* Every binding the importer uses from dep is one dep accepts.
AllImportsAccepted(importer, dep) ==
    /\ acceptedExports[dep] # NoExports
    /\ dep \in DOMAIN importedBindings[importer]
    /\ importedBindings[importer][dep] \subseteq acceptedExports[dep]

-----------------------------------------------------------------------------
(* dirty_closure: the importers of changed up to and including the         *)
(* accepting boundaries; changed itself is walked through even when it     *)
(* accepts itself.                                                         *)

\* Faulty form: stops at a partially accepting module.
DirtyStepPastPartial(changed, m, importer) ==
    /\ m \in nodes
    /\ selfAccepting[m] \/ acceptedExports[m] # NoExports => m = changed
    /\ importer \in importers[m]
    /\ ~AcceptsDep(importer, m)

\* Faulty form: stops at the changed module when that accepts itself.
DirtyStepPastPlain(changed, m, importer) ==
    /\ m \in nodes
    /\ ~selfAccepting[m]
    /\ importer \in importers[m]
    /\ ~AcceptsDep(importer, m)

DirtyStep(changed, m, importer) ==
    /\ m \in nodes
    /\ selfAccepting[m] => m = changed
    /\ importer \in importers[m]
    /\ ~AcceptsDep(importer, m)

DirtyClosed(changed, C) ==
    \A m \in C, importer \in Modules :
        DirtyStep(changed, m, importer) => importer \in C

DirtyClosure(changed) ==
    {m \in Modules : \A C \in SUBSET Modules :
        changed \in C /\ DirtyClosed(changed, C) => m \in C}

-----------------------------------------------------------------------------
(* invalidate_on_change: every importer that does not accept is            *)
(* invalidated in turn, softly when it is not a stylesheet.                *)

InvalidationClosed(C) ==
    \A m \in C, importer \in Modules :
        /\ m \in nodes
        /\ importer \in importers[m]
        /\ ~AcceptsDep(importer, m)
        => importer \in C

Invalidated(changed) ==
    {m \in Modules : \A C \in SUBSET Modules :
        changed \in C /\ InvalidationClosed(C) => m \in C}

HardInvalidated(changed) ==
    {m \in Invalidated(changed) \cap nodes : m = changed \/ m \in Sheets}

-----------------------------------------------------------------------------
(* The walk of an update.  ClimbStep: an update of m goes on to importer.  *)
(* preStack are the modules the walk starts with as visited.               *)

ClimbStep(m, importer) ==
    /\ ~selfAccepting[m]
    /\ importer \in importers[m]
    /\ ~AcceptsDep(importer, m)
    /\ ~AllImportsAccepted(importer, m)

ClimbClosed(preStack, C) ==
    \A m \in C, importer \in Modules \ preStack :
        ClimbStep(m, importer) => importer \in C

\* An update that reaches an entry nothing accepts for reloads the page.
DeadEnd(m) ==
    /\ ~selfAccepting[m]
    /\ acceptedExports[m] = NoExports
    /\ importers[m] = {}
=============================================================================
