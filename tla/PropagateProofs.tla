-------------------------- MODULE PropagateProofs --------------------------
(***************************************************************************)
(* The walk of an update is exact in every finite or infinite graph.  The  *)
(* inductive invariant WalkInv says what the colors mean half-way: every   *)
(* module visited is one the update flows through (Sound), every importer  *)
(* it flows on to is visited or still on the stack (Complete), and the     *)
(* targets are the boundaries of the modules visited (Found).  The flags   *)
(* need the shape of the stack too: each gray module imports, directly or  *)
(* not, the ones below it (Chained).  From the same invariant follow where *)
(* an invalidation can report what it does not stamp, and that every step  *)
(* of the walk brings its end nearer.                                      *)
(***************************************************************************)
EXTENDS Propagate, SequenceTheorems, TLAPS

USE SheetsAssumption, NoExportsAssumption, KindsAssumption, RankAssumption

-----------------------------------------------------------------------------
(* The graph, which a walk does not change.                                *)

Graph ==
    /\ GraphTypeOK
    /\ changed \in Modules /\ fromImporters \in BOOLEAN
    /\ nodes = Modules
    /\ \A m, n \in Modules : n \in importers[m] <=> m \in imports[n]

GraphKept == UNCHANGED <<graphVars, changed, fromImporters>>

\* A graph of Init has its edges in both directions.
LEMMA GraphInit == Init => Graph
  <1> SUFFICES ASSUME Init PROVE Graph
      OBVIOUS
  <1>1. PICK edge \in [Edges -> EdgeKinds], kind \in [Modules -> NodeKinds] :
          LET Has(m, d, kinds) == <<m, d>> \in Edges /\ edge[<<m, d>>] \in kinds
              Import == {"plain", "accepts", "gated"}
          IN  /\ nodes = Modules
              /\ imports = [m \in Modules |-> {d \in Modules : Has(m, d, Import)}]
              /\ importers = [d \in Modules |-> {m \in Modules : Has(m, d, Import)}]
              /\ selfAccepting = [m \in Modules |-> kind[m] = "self"]
              /\ acceptedDeps = [m \in Modules |->
                      {d \in Modules : Has(m, d, {"accepts"})}]
              /\ acceptedExports = [m \in Modules |->
                      IF kind[m] = "partial" THEN {} ELSE NoExports]
              /\ importedBindings = [m \in Modules |->
                      [d \in {e \in Modules : Has(m, e, Import)} |->
                          IF Has(m, d, {"gated"}) THEN {} ELSE Names]]
      BY DEF Init, AnyGraph
  <1> DEFINE Has(m, d, kinds) == <<m, d>> \in Edges /\ edge[<<m, d>>] \in kinds
             Import == {"plain", "accepts", "gated"}
  <1>2. /\ importers \in [Modules -> SUBSET Modules]
        /\ imports \in [Modules -> SUBSET Modules]
        /\ selfAccepting \in [Modules -> BOOLEAN]
        /\ acceptedDeps \in [Modules -> SUBSET Modules]
        /\ acceptedExports \in [Modules -> (SUBSET Names) \cup {NoExports}]
      BY <1>1
  <1>3. \A m, n \in Modules : n \in importers[m] <=> m \in imports[n]
      BY <1>1
  <1>4. importedBindings \in [Modules -> Bindings]
    <2>1. \A m \in Modules : [d \in {e \in Modules : Has(m, e, Import)} |->
                                IF Has(m, d, {"gated"}) THEN {} ELSE Names] \in Bindings
      <3> SUFFICES ASSUME NEW m \in Modules
                   PROVE  [d \in {e \in Modules : Has(m, e, Import)} |->
                             IF Has(m, d, {"gated"}) THEN {} ELSE Names] \in Bindings
          OBVIOUS
      <3> DEFINE D == {e \in Modules : Has(m, e, Import)}
      <3>1. D \in SUBSET Modules
          OBVIOUS
      <3>2. [d \in D |-> IF Has(m, d, {"gated"}) THEN {} ELSE Names] \in [D -> SUBSET Names]
          OBVIOUS
      <3> QED
          BY <3>1, <3>2 DEF Bindings
    <2> QED
        BY <1>1, <2>1
  <1> QED
      BY <1>1, <1>2, <1>3, <1>4 DEF Graph, GraphTypeOK, Init

\* What is computed from the graph stays.
LEMMA KeptGraph ==
    ASSUME Graph, GraphKept
    PROVE  /\ Graph'
           /\ Seeds' = Seeds /\ preStack' = preStack /\ Reached' = Reached
           /\ \A m \in Modules :
                /\ Onward(m)' = Onward(m) /\ DeadEnd(m)' = DeadEnd(m)
                /\ Accepting(m)' = Accepting(m) /\ selfAccepting'[m] = selfAccepting[m]
                /\ importers'[m] = importers[m]
                /\ \A i \in Modules : AcceptsDep(i, m)' = AcceptsDep(i, m)
                /\ ChainUp(m)' = ChainUp(m) /\ ChainImporters(m)' = ChainImporters(m)
                /\ ImportsPlus(m)' = ImportsPlus(m)
  <1> USE DEF GraphKept, graphVars
  <1>1. Graph' /\ Seeds' = Seeds /\ preStack' = preStack
      BY DEF Graph, GraphTypeOK, Bindings, Seeds, preStack
  <1>2. Reached' = Reached
      BY <1>1 DEF Reached, FlowsFrom, Seeds, preStack, ClimbClosed, ClimbStep, AcceptsDep, AllImportsAccepted
  <1>3. \A m \in Modules :
          /\ Onward(m)' = Onward(m) /\ DeadEnd(m)' = DeadEnd(m)
          /\ Accepting(m)' = Accepting(m) /\ selfAccepting'[m] = selfAccepting[m]
          /\ importers'[m] = importers[m]
          /\ \A i \in Modules : AcceptsDep(i, m)' = AcceptsDep(i, m)
      BY DEF Onward, DeadEnd, Accepting, AcceptsDep, AllImportsAccepted
  <1>4. \A m \in Modules :
          /\ ChainUp(m)' = ChainUp(m) /\ ChainImporters(m)' = ChainImporters(m)
          /\ ImportsPlus(m)' = ImportsPlus(m)
      BY DEF ChainUp, ChainImporters, ImportsPlus
  <1> QED
      BY <1>1, <1>2, <1>3, <1>4

-----------------------------------------------------------------------------
(* The closures.                                                           *)

\* The update flows through its seeds and on from what it flows through.
LEMMA ReachedClosed ==
    ASSUME Graph
    PROVE  /\ Seeds \ preStack \subseteq Reached
           /\ \A m \in Reached : \A i \in Onward(m) \ preStack :
                ~selfAccepting[m] => i \in Reached
  <1>1. Seeds \subseteq Modules
      BY DEF Graph, GraphTypeOK, Seeds
  <1>2. Seeds \ preStack \subseteq Reached
      BY <1>1 DEF Reached, FlowsFrom
  <1>3. ASSUME NEW m \in Reached, NEW i \in Onward(m) \ preStack, ~selfAccepting[m]
        PROVE  i \in Reached
    <2>1. m \in Modules /\ i \in Modules
        BY <1>3 DEF Reached, FlowsFrom, Onward, Graph, GraphTypeOK
    <2>2. ClimbStep(m, i)
        BY <1>3 DEF Onward, ClimbStep
    <2>3. ASSUME NEW C \in SUBSET Modules,
                 Seeds \ preStack \subseteq C, ClimbClosed(preStack, C)
          PROVE  i \in C
      <3>1. m \in C
          BY <1>3, <2>3 DEF Reached, FlowsFrom
      <3> QED
          BY <3>1, <2>1, <2>2, <2>3, <1>3 DEF ClimbClosed
    <2> QED
        BY <2>1, <2>3 DEF Reached, FlowsFrom
  <1> QED
      BY <1>2, <1>3

\* It flows through nothing else than what a closed set has.
LEMMA ReachedLeast ==
    ASSUME Graph, NEW C \in SUBSET Modules,
           Seeds \ preStack \subseteq C,
           \A m \in C : selfAccepting[m] \/ Onward(m) \ preStack \subseteq C
    PROVE  Reached \subseteq C
  <1>1. ClimbClosed(preStack, C)
      BY DEF ClimbClosed, ClimbStep, Onward
  <1> QED
      BY <1>1 DEF Reached, FlowsFrom

\* What an update flows through is stamped by it.
LEMMA ReachedDirty ==
    ASSUME Graph, ~fromImporters
    PROVE  Reached \subseteq DirtyClosure(changed)
  <1> SUFFICES ASSUME NEW m \in Reached, NEW C \in SUBSET Modules,
                      changed \in C, DirtyClosed(changed, C)
               PROVE  m \in C
      BY DEF DirtyClosure, Reached, FlowsFrom
  <1>1. ClimbClosed(preStack, C)
      BY DEF ClimbClosed, ClimbStep, DirtyClosed, DirtyStep, Graph
  <1>2. Seeds \ preStack \subseteq C
      BY DEF Seeds
  <1> QED
      BY <1>1, <1>2 DEF Reached, FlowsFrom

\* A module imports what its imports import.
LEMMA ImportsOnward ==
    ASSUME Graph, NEW m \in Modules, NEW d \in imports[m]
    PROVE  d \in ImportsPlus(m) /\ ImportsPlus(d) \subseteq ImportsPlus(m)
  <1>1. d \in Modules
      BY DEF Graph, GraphTypeOK
  <1>2. d \in ImportsPlus(m)
      BY <1>1 DEF ImportsPlus
  <1>3. ASSUME NEW x \in ImportsPlus(d) PROVE x \in ImportsPlus(m)
    <2>1. x \in Modules
        BY <1>3 DEF ImportsPlus
    <2>2. ASSUME NEW C \in SUBSET Modules,
                 imports[m] \subseteq C, \A c \in C : imports[c] \subseteq C
          PROVE  x \in C
      <3>1. imports[d] \subseteq C
          BY <2>2
      <3> QED
          BY <3>1, <2>2, <1>3 DEF ImportsPlus
    <2> QED
        BY <2>1, <2>2 DEF ImportsPlus
  <1> QED
      BY <1>2, <1>3

\* Importing is transitive.
LEMMA ImportsTransitive ==
    ASSUME Graph, NEW m \in Modules, NEW d \in ImportsPlus(m)
    PROVE  ImportsPlus(d) \subseteq ImportsPlus(m)
  <1> SUFFICES ASSUME NEW x \in ImportsPlus(d), NEW C \in SUBSET Modules,
                      imports[m] \subseteq C, \A c \in C : imports[c] \subseteq C
               PROVE  x \in C
      BY DEF ImportsPlus
  <1>1. d \in C
      BY DEF ImportsPlus
  <1>2. imports[d] \subseteq C
      BY <1>1
  <1> QED
      BY <1>2 DEF ImportsPlus

\* What the search upwards from a boundary visits imports the boundary.
LEMMA ChainImportsBoundary ==
    ASSUME Graph, NEW b \in Modules, NEW m \in ChainUp(b), NEW i \in ChainImporters(m)
    PROVE  i \in Modules /\ b \in ImportsPlus(i)
  <1> DEFINE C == {x \in Modules : x = b \/ b \in ImportsPlus(x)}
  <1>1. \A c \in C : \A j \in importers[c] : j \in Modules /\ b \in ImportsPlus(j)
    <2> SUFFICES ASSUME NEW c \in C, NEW j \in importers[c]
                 PROVE  j \in Modules /\ b \in ImportsPlus(j)
        OBVIOUS
    <2>1. j \in Modules /\ c \in imports[j]
        BY DEF Graph, GraphTypeOK
    <2>2. c \in ImportsPlus(j) /\ ImportsPlus(c) \subseteq ImportsPlus(j)
        BY <2>1, ImportsOnward
    <2> QED
        BY <2>1, <2>2
  <1>2. \A c \in C : ChainImporters(c) \subseteq C
      BY <1>1 DEF ChainImporters
  <1>3. C \in SUBSET Modules /\ b \in C
      OBVIOUS
  <1>4. m \in C
      BY <1>2, <1>3 DEF ChainUp
  <1> QED
      BY <1>1, <1>4 DEF ChainImporters

-----------------------------------------------------------------------------
(* The walk.                                                               *)

Visited == (gray \ preStack) \cup black

WalkTypes ==
    /\ seeds \in SUBSET Modules /\ gray \in SUBSET Modules /\ black \in SUBSET Modules
    /\ path \in Seq(Modules)
    /\ todo \in [Modules -> SUBSET Modules]
    /\ targets \in SUBSET Target
    /\ result \in {"walking", "ok", "reload"}

\* path lists the gray modules this walk entered, each once.
Stack ==
    /\ preStack \subseteq gray
    /\ gray \cap black = {}
    /\ \A k \in 1 .. Len(path) : path[k] \in gray \ preStack
    /\ \A m \in gray \ preStack : \E k \in 1 .. Len(path) : path[k] = m
    /\ \A j, k \in 1 .. Len(path) : path[j] = path[k] => j = k

\* The walk goes where the update flows.
Sound ==
    /\ seeds \subseteq Seeds
    /\ Visited \subseteq Reached
    /\ \A m \in gray \ preStack : todo[m] \subseteq Onward(m) /\ ~selfAccepting[m]
    /\ \A m \in Visited : ~DeadEnd(m)
    /\ result = "reload" => Seeds = {} \/ \E m \in Reached : DeadEnd(m)

\* What it has not seen is on its stack.
Complete ==
    result # "reload" =>
      /\ Seeds \subseteq seeds \cup gray \cup black
      /\ \A m \in gray \ preStack : Onward(m) \subseteq todo[m] \cup gray \cup black
      /\ \A m \in black : selfAccepting[m] \/ Onward(m) \subseteq gray \cup black
      /\ result = "ok" => seeds = {} /\ path = <<>>

\* The boundaries found are those of the modules visited.
IsBoundary(b, m) ==
    \/ b = m /\ Accepting(m)
    \/ ~selfAccepting[m] /\ b \in importers[m] /\ AcceptsDep(b, m)

Found ==
    \A b, m \in Modules :
      (\E t \in targets : t.boundary = b /\ t.accepted = m) <=> m \in Visited /\ IsBoundary(b, m)

\* An update of the changed module itself starts from it; every gray module
\* imports the ones below it.
Chained ==
    /\ IF fromImporters
       THEN /\ seeds \subseteq importers[changed]
            /\ \A k \in 1 .. Len(path) : changed \in ImportsPlus(path[k])
       ELSE /\ seeds \subseteq {changed}
            /\ path # <<>> => path[1] = changed
    /\ \A j, k \in 1 .. Len(path) : j < k => path[j] \in ImportsPlus(path[k])

WalkInv == Graph /\ WalkTypes /\ Stack /\ Sound /\ Complete /\ Found /\ Chained /\ CircularFlag

\* The module that a step enters.
Entered(m) ==
    /\ result = "walking"
    /\ Enter(m)
    /\ GraphKept
    /\ \/ /\ path = <<>> /\ m \in seeds
          /\ seeds' = seeds \ {m}
          /\ todo' = TodoAfter(m)
       \/ /\ path # <<>> /\ m \in todo[Top]
          /\ seeds' = seeds
          /\ todo' = [TodoAfter(m) EXCEPT ![Top] = @ \ {m}]

\* A step enters a module, blackens the top of the stack or ends the walk.
LEMMA StepKinds ==
    ASSUME WalkInv, Next
    PROVE  (\E m \in Modules : Entered(m)) \/ (Blacken /\ GraphKept) \/ (Finish /\ GraphKept)
  <1>1. ASSUME NEW s \in seeds, EnterSeed(s) PROVE \E m \in Modules : Entered(m)
      BY <1>1 DEF WalkInv, WalkTypes, EnterSeed, Entered, GraphKept
  <1>2. CASE EnterImporter
    <2>1. PICK i \in todo[Top] : Enter(i) /\ todo' = [TodoAfter(i) EXCEPT ![Top] = @ \ {i}]
        BY <1>2 DEF EnterImporter
    <2>2. path # <<>> /\ result = "walking" /\ GraphKept /\ seeds' = seeds
        BY <1>2 DEF EnterImporter, GraphKept
    <2>3. Top \in Modules
        BY <2>2 DEF WalkInv, WalkTypes, Top
    <2>4. i \in Modules
        BY <2>1, <2>3 DEF WalkInv, WalkTypes
    <2> QED
        BY <2>1, <2>2, <2>4 DEF Entered
  <1>3. CASE Blacken
      BY <1>3 DEF Blacken, GraphKept
  <1>4. CASE Finish
      BY <1>4 DEF Finish, GraphKept
  <1> QED
      BY <1>1, <1>2, <1>3, <1>4 DEF Next

\* The top of the stack, and what the walk enters from there.
LEMMA TopFacts ==
    ASSUME WalkInv, path # <<>>
    PROVE  /\ Len(path) \in Nat \ {0} /\ Top = path[Len(path)]
           /\ Top \in gray \ preStack /\ Top \in Modules
  BY DEF WalkInv, WalkTypes, Stack, Top

\* What is entered is where the update flows to, and imports the stack.
LEMMA EnteredFacts ==
    ASSUME WalkInv, NEW m \in Modules, Entered(m)
    PROVE  /\ m \in preStack \/ m \in Reached
           /\ path # <<>> => m \in Onward(Top) /\ m \in importers[Top]
           /\ path = <<>> => m \in seeds
  <1>1. CASE path = <<>>
      BY <1>1, ReachedClosed DEF Entered, WalkInv, Sound
  <1>2. CASE path # <<>>
    <2>1. Top \in gray \ preStack /\ Top \in Modules
        BY <1>2, TopFacts
    <2>2. m \in todo[Top] /\ m \in Onward(Top)
        BY <1>2, <2>1 DEF Entered, WalkInv, Sound
    <2>3. Top \in Reached /\ ~selfAccepting[Top]
        BY <2>1 DEF WalkInv, Sound, Visited
    <2> QED
        BY <1>2, <2>2, <2>3, ReachedClosed DEF WalkInv, Onward
  <1> QED
      BY <1>1, <1>2

\* A step that enters m takes m off its list and puts m's importers on one.
LEMMA TodoFacts ==
    ASSUME WalkInv, NEW m \in Modules, Entered(m)
    PROVE  /\ todo' \in [Modules -> SUBSET Modules]
           /\ \A x \in gray \ preStack : todo'[x] \subseteq todo[x] /\ todo[x] \subseteq todo'[x] \cup {m}
           /\ m \in gray' \ gray => todo'[m] = Onward(m)
           /\ seeds' \subseteq seeds /\ seeds \subseteq seeds' \cup {m}
  <1>1. Onward(m) \in SUBSET Modules
      BY DEF WalkInv, Graph, GraphTypeOK, Onward
  <1>2. todo \in [Modules -> SUBSET Modules]
      BY DEF WalkInv, WalkTypes
  <1>3. /\ TodoAfter(m) \in [Modules -> SUBSET Modules]
        /\ \A x \in Modules : x # m \/ m \in gray => TodoAfter(m)[x] = todo[x]
        /\ m \in gray' \ gray => TodoAfter(m)[m] = Onward(m)
      BY <1>1, <1>2 DEF TodoAfter
  <1>4. gray \ preStack \subseteq Modules
      BY DEF WalkInv, WalkTypes
  <1>5. seeds' \subseteq seeds /\ seeds \subseteq seeds' \cup {m}
      BY DEF Entered
  <1>6. CASE path = <<>>
    <2>1. todo' = TodoAfter(m)
        BY <1>6 DEF Entered
    <2> QED
        BY <2>1, <1>2, <1>3, <1>4, <1>5
  <1>7. CASE path # <<>>
    <2>1. Top \in gray /\ Top \in Modules
        BY <1>7, TopFacts
    <2>2. todo' = [TodoAfter(m) EXCEPT ![Top] = TodoAfter(m)[Top] \ {m}]
        BY <1>7 DEF Entered
    <2> HIDE DEF Top
    <2>3. todo' \in [Modules -> SUBSET Modules]
        BY <2>1, <2>2, <1>3
    <2>4. \A x \in Modules : x # Top => todo'[x] = TodoAfter(m)[x]
        BY <2>1, <2>2, <1>3
    <2>5. todo'[Top] = TodoAfter(m)[Top] \ {m}
        BY <2>1, <2>2, <1>3
    <2> QED
        BY <2>1, <2>3, <2>4, <2>5, <1>3, <1>4, <1>5
  <1> QED
      BY <1>6, <1>7

\* The module entered imports every gray one.
LEMMA EnteredImportsGray ==
    ASSUME WalkInv, NEW m \in Modules, Entered(m), NEW g \in gray
    PROVE  g \in ImportsPlus(m)
  <1>1. CASE path = <<>>
    <2>1. g \in preStack /\ fromImporters /\ g = changed
        BY <1>1 DEF WalkInv, Stack, preStack
    <2>2. changed \in imports[m]
        BY <1>1, <2>1, EnteredFacts DEF WalkInv, Chained, Graph
    <2> QED
        BY <2>1, <2>2, ImportsOnward DEF WalkInv
  <1>2. CASE path # <<>>
    <2>1. Top \in Modules /\ Len(path) \in Nat \ {0} /\ Top = path[Len(path)]
        BY <1>2, TopFacts
    <2>2. Top \in imports[m]
        BY <1>2, <2>1, EnteredFacts DEF WalkInv, Graph
    <2>3. Top \in ImportsPlus(m) /\ ImportsPlus(Top) \subseteq ImportsPlus(m)
        BY <2>2, ImportsOnward DEF WalkInv
    <2>4. CASE g \in preStack
      <3>1. fromImporters /\ g = changed
          BY <2>4 DEF preStack
      <3>2. changed \in ImportsPlus(Top)
          BY <2>1, <3>1 DEF WalkInv, Chained
      <3> QED
          BY <2>3, <3>1, <3>2
    <2>5. CASE g \notin preStack
      <3>1. PICK k \in 1 .. Len(path) : path[k] = g
          BY <2>5 DEF WalkInv, Stack
      <3>2. g = Top \/ g \in ImportsPlus(Top)
          BY <2>1, <3>1 DEF WalkInv, Chained
      <3> QED
          BY <2>3, <3>2
    <2> QED
        BY <2>4, <2>5
  <1> QED
      BY <1>1, <1>2

\* The flag of a boundary found from m is right.
LEMMA FlagRight ==
    ASSUME WalkInv, NEW m \in Modules, Entered(m), m \notin gray,
           NEW b \in Modules, NEW chain,
           (b = m /\ chain = gray) \/ (b \in importers[m] /\ chain = gray \cup {m})
    PROVE  /\ (\E n \in ChainUp(b) : changed \in ChainImporters(n)) => WithinCircular(b, chain)
           /\ WithinCircular(b, chain) => b \in ImportsPlus(b)
  <1>1. changed = b \/ changed \in chain
    <2>1. CASE fromImporters
        BY <2>1 DEF WalkInv, Stack, preStack
    <2>2. CASE ~fromImporters /\ path # <<>>
        BY <2>2, TopFacts DEF WalkInv, Chained, Stack
    <2>3. CASE ~fromImporters /\ path = <<>>
        BY <2>3, EnteredFacts DEF WalkInv, Chained
    <2> QED
        BY <2>1, <2>2, <2>3
  <1>2. (\E n \in ChainUp(b) : changed \in ChainImporters(n)) => WithinCircular(b, chain)
      BY <1>1 DEF WithinCircular
  <1>3. ASSUME WithinCircular(b, chain) PROVE b \in ImportsPlus(b)
    <2>1. PICK n \in ChainUp(b) : \E i \in ChainImporters(n) : i = b \/ i \in chain
        BY <1>3 DEF WithinCircular
    <2>2. PICK i \in ChainImporters(n) : i = b \/ i \in chain
        BY <2>1
    <2>3. i \in Modules /\ b \in ImportsPlus(i)
        BY ChainImportsBoundary DEF WalkInv
    <2>4. CASE b = m /\ chain = gray
      <3>1. i = b \/ i \in ImportsPlus(b)
          BY <2>2, <2>4, EnteredImportsGray
      <3> QED
          BY <2>3, <3>1, ImportsTransitive DEF WalkInv
    <2>5. CASE b \in importers[m] /\ chain = gray \cup {m}
      <3>1. m \in imports[b]
          BY <2>5 DEF WalkInv, Graph
      <3>2. m \in ImportsPlus(b) /\ ImportsPlus(m) \subseteq ImportsPlus(b)
          BY <3>1, ImportsOnward DEF WalkInv
      <3>3. i = b \/ i \in ImportsPlus(b)
          BY <2>2, <2>5, <3>2, EnteredImportsGray
      <3> QED
          BY <2>3, <3>3, ImportsTransitive DEF WalkInv
    <2> QED
        BY <2>4, <2>5
  <1> QED
      BY <1>2, <1>3

-----------------------------------------------------------------------------
(* Every step keeps the invariant.                                         *)

\* A module seen before, or an entry nothing accepts for: the stack stays.
LEMMA SkipKeeps ==
    ASSUME WalkInv, NEW m \in Modules, Entered(m), Skip(m) \/ ReachEntry(m)
    PROVE  WalkInv'
  <1>1. Graph /\ GraphKept
      BY DEF WalkInv, Entered
  <1>2. UNCHANGED <<gray, black, path, targets>>
      BY DEF Skip, ReachEntry
  <1>3. /\ result = "walking"
        /\ \/ result' = "walking" /\ m \in gray \cup black
           \/ result' = "reload" /\ m \notin gray \cup black /\ DeadEnd(m)
    <2>1. result = "walking" /\ nodes = Modules
        BY DEF Entered, WalkInv, Graph
    <2>2. CASE Skip(m)
        BY <2>1, <2>2 DEF Skip
    <2>3. CASE ReachEntry(m)
      <3>1. DeadEnd(m)
          BY <2>1, <2>3 DEF ReachEntry
      <3> QED
          BY <2>1, <2>3, <3>1 DEF ReachEntry
    <2> QED
        BY <2>2, <2>3
  <1>4. Visited' = Visited
      BY <1>1, <1>2, KeptGraph DEF Visited
  <1>5. WalkTypes'
      BY <1>2, <1>3, TodoFacts DEF WalkInv, WalkTypes
  <1>6. Stack'
      BY <1>1, <1>2, KeptGraph DEF WalkInv, Stack
  <1>7. Sound'
    <2>1. seeds' \subseteq Seeds'
        BY <1>1, KeptGraph, TodoFacts DEF WalkInv, Sound
    <2>2. Visited' \subseteq Reached' /\ Visited \subseteq Modules
        BY <1>1, <1>4, KeptGraph DEF WalkInv, WalkTypes, Sound, Visited
    <2>3. \A x \in gray' \ preStack' : todo'[x] \subseteq Onward(x)' /\ ~selfAccepting'[x]
        BY <1>1, <1>2, KeptGraph, TodoFacts DEF WalkInv, WalkTypes, Sound
    <2>4. \A x \in Visited' : ~DeadEnd(x)'
        BY <1>1, <1>4, <2>2, KeptGraph DEF WalkInv, Sound
    <2>5. result' = "reload" => Seeds' = {} \/ \E x \in Reached' : DeadEnd(x)'
      <3> SUFFICES ASSUME result' = "reload" PROVE \E x \in Reached : DeadEnd(x)
        <4>1. Reached \subseteq Modules
            BY DEF Reached, FlowsFrom
        <4> QED
            BY <1>1, <4>1, KeptGraph
      <3>1. m \in Reached
          BY <1>3, EnteredFacts DEF WalkInv, Stack
      <3> QED
          BY <1>3, <3>1
    <2> QED
        BY <2>1, <2>2, <2>3, <2>4, <2>5 DEF Sound
  <1>8. Complete'
    <2> SUFFICES ASSUME result' # "reload" PROVE Complete'
        BY DEF Complete
    <2>1. m \in gray \cup black /\ result' = "walking"
        BY <1>3
    <2>2. Seeds' \subseteq seeds' \cup gray' \cup black'
        BY <1>1, <1>2, <1>3, <2>1, KeptGraph, TodoFacts DEF WalkInv, Complete
    <2>3. \A x \in gray' \ preStack' : Onward(x)' \subseteq todo'[x] \cup gray' \cup black'
        BY <1>1, <1>2, <1>3, <2>1, KeptGraph, TodoFacts DEF WalkInv, WalkTypes, Complete
    <2>4. \A x \in black' : selfAccepting'[x] \/ Onward(x)' \subseteq gray' \cup black'
        BY <1>1, <1>2, <1>3, KeptGraph DEF WalkInv, WalkTypes, Complete
    <2> QED
        BY <2>1, <2>2, <2>3, <2>4 DEF Complete
  <1>9. Found'
      BY <1>1, <1>2, <1>4, KeptGraph DEF WalkInv, Found, IsBoundary
  <1>10. Chained'
    <2>1. fromImporters' = fromImporters /\ changed' = changed /\ changed \in Modules
        BY <1>1 DEF GraphKept, Graph
    <2>2. \A k \in 1 .. Len(path) : path[k] \in Modules
        BY DEF WalkInv, WalkTypes
    <2> QED
        BY <1>1, <1>2, <2>1, <2>2, KeptGraph, TodoFacts DEF WalkInv, Chained
  <1>11. CircularFlag'
    <2>1. changed' = changed
        BY <1>1 DEF GraphKept
    <2>2. \A t \in targets : t.boundary \in Modules
        BY DEF WalkInv, WalkTypes, Target
    <2>3. \A t \in targets : ChainUp(t.boundary)' = ChainUp(t.boundary) /\ ChainUp(t.boundary) \subseteq Modules
        BY <1>1, <2>2, KeptGraph DEF ChainUp
    <2> QED
        BY <1>1, <1>2, <2>1, <2>2, <2>3, KeptGraph DEF WalkInv, CircularFlag
  <1> QED
      BY <1>1, <1>5, <1>6, <1>7, <1>8, <1>9, <1>10, <1>11, KeptGraph DEF WalkInv

\* A module entered for the first time: what is visited, found and flagged.
LEMMA FirstVisit ==
    ASSUME WalkInv, NEW m \in Modules, Entered(m), m \notin gray \cup black,
           ~DeadEnd(m), Visited' = Visited \cup {m}, result' = "walking",
           NEW Added \in SUBSET Target, targets' = targets \cup Added,
           \A t \in Added : t.accepted = m /\ IsBoundary(t.boundary, m),
           \A b \in Modules : IsBoundary(b, m) => \E t \in Added : t.boundary = b,
           \A t \in Added :
             \/ t = TargetOf(m, m, gray)
             \/ \E b \in importers[m] : t = TargetOf(b, m, gray \cup {m})
    PROVE  /\ Graph' /\ Found' /\ CircularFlag'
           /\ seeds' \subseteq Seeds'
           /\ Visited' \subseteq Reached'
           /\ \A x \in Visited' : ~DeadEnd(x)'
  <1>1. Graph /\ GraphKept
      BY DEF WalkInv, Entered
  <1>2. Visited \subseteq Modules
      BY DEF WalkInv, WalkTypes, Visited
  <1>3. m \in Reached
      BY EnteredFacts DEF WalkInv, Stack
  <1>4. m \notin Visited
      BY DEF Visited
  <1>5. targets \in SUBSET Target
      BY DEF WalkInv, WalkTypes
  <1>6. Found'
    <2> SUFFICES ASSUME NEW b \in Modules, NEW x \in Modules
                 PROVE  (\E t \in targets' : t.boundary = b /\ t.accepted = x)
                          <=> x \in Visited' /\ IsBoundary(b, x)'
        BY DEF Found
    <2>1. IsBoundary(b, x)' <=> IsBoundary(b, x)
        BY <1>1, KeptGraph DEF IsBoundary
    <2>2. (\E t \in targets : t.boundary = b /\ t.accepted = x) <=> x \in Visited /\ IsBoundary(b, x)
        BY DEF WalkInv, Found
    <2>3. (\E t \in Added : t.boundary = b /\ t.accepted = x) <=> x = m /\ IsBoundary(b, x)
      <3>1. ASSUME NEW t \in Added, t.boundary = b, t.accepted = x
            PROVE  x = m /\ IsBoundary(b, x)
          BY <3>1
      <3>2. ASSUME x = m, IsBoundary(b, x)
            PROVE  \E t \in Added : t.boundary = b /\ t.accepted = x
        <4>1. PICK t \in Added : t.boundary = b
            BY <3>2
        <4> QED
            BY <3>2, <4>1
      <3> QED
          BY <3>1, <3>2
    <2> QED
        BY <2>1, <2>2, <2>3
  <1>7. CircularFlag'
    <2> SUFFICES ASSUME NEW t \in targets'
                 PROVE  /\ (\E n \in ChainUp(t.boundary)' : changed' \in ChainImporters(n)') => t.circular
                        /\ t.circular => t.boundary \in ImportsPlus(t.boundary)'
        BY DEF CircularFlag
    <2>1. t.boundary \in Modules /\ changed' = changed
        BY <1>1, <1>5 DEF Target, GraphKept
    <2>2. /\ ChainUp(t.boundary)' = ChainUp(t.boundary) /\ ChainUp(t.boundary) \subseteq Modules
          /\ ImportsPlus(t.boundary)' = ImportsPlus(t.boundary)
        BY <1>1, <2>1, KeptGraph DEF ChainUp
    <2>3. \A n \in Modules : ChainImporters(n)' = ChainImporters(n)
        BY <1>1, KeptGraph
    <2> SUFFICES /\ (\E n \in ChainUp(t.boundary) : changed \in ChainImporters(n)) => t.circular
                 /\ t.circular => t.boundary \in ImportsPlus(t.boundary)
        BY <2>1, <2>2, <2>3
    <2>4. CASE t \in targets
        BY <2>4 DEF WalkInv, CircularFlag
    <2>5. CASE t = TargetOf(m, m, gray)
      <3>1. t.boundary = m /\ t.circular = WithinCircular(m, gray)
          BY <2>5 DEF TargetOf
      <3> QED
          BY <3>1, FlagRight
    <2>6. ASSUME NEW b \in importers[m], t = TargetOf(b, m, gray \cup {m})
          PROVE  /\ (\E n \in ChainUp(t.boundary) : changed \in ChainImporters(n)) => t.circular
                 /\ t.circular => t.boundary \in ImportsPlus(t.boundary)
      <3>1. t.boundary = b /\ t.circular = WithinCircular(b, gray \cup {m})
          BY <2>6 DEF TargetOf
      <3> QED
          BY <2>1, <3>1, FlagRight
    <2> QED
        BY <2>4, <2>5, <2>6
  <1> QED
      BY <1>1, <1>2, <1>3, <1>6, <1>7, KeptGraph, TodoFacts DEF WalkInv, Sound

\* A module that accepts itself is black at once.
LEMMA AcceptKeeps ==
    ASSUME WalkInv, NEW m \in Modules, Entered(m), AcceptSelf(m)
    PROVE  WalkInv'
  <1>1. Graph /\ GraphKept /\ result = "walking" /\ result' = "walking"
      BY DEF WalkInv, Entered, AcceptSelf
  <1>2. /\ m \notin gray \cup black /\ gray' = gray /\ path' = path
        /\ black' = black \cup {m} /\ selfAccepting[m]
        /\ targets' = targets \cup {TargetOf(m, m, gray)}
      BY DEF AcceptSelf
  <1>3. Visited' = Visited \cup {m}
      BY <1>1, <1>2, KeptGraph DEF Visited
  <1>4. TargetOf(m, m, gray) \in Target
      BY DEF TargetOf, Target, WithinCircular
  <1>5. TargetOf(m, m, gray).accepted = m /\ TargetOf(m, m, gray).boundary = m
      BY DEF TargetOf
  <1>6. \A b \in Modules : IsBoundary(b, m) <=> b = m
      BY <1>2 DEF IsBoundary, Accepting
  <1>7. ~DeadEnd(m)
      BY <1>2 DEF DeadEnd
  <1> DEFINE Added == {TargetOf(m, m, gray)}
  <1>8. /\ Added \in SUBSET Target /\ targets' = targets \cup Added
        /\ \A t \in Added : t.accepted = m /\ IsBoundary(t.boundary, m)
        /\ \A b \in Modules : IsBoundary(b, m) => \E t \in Added : t.boundary = b
        /\ \A t \in Added :
             \/ t = TargetOf(m, m, gray)
             \/ \E b \in importers[m] : t = TargetOf(b, m, gray \cup {m})
      BY <1>2, <1>4, <1>5, <1>6
  <1> HIDE DEF Added
  <1>9. /\ Graph' /\ Found' /\ CircularFlag'
        /\ seeds' \subseteq Seeds'
        /\ Visited' \subseteq Reached'
        /\ \A x \in Visited' : ~DeadEnd(x)'
      BY <1>1, <1>2, <1>3, <1>7, <1>8, FirstVisit
  <1>10. WalkTypes'
      BY <1>1, <1>2, <1>4, TodoFacts DEF WalkInv, WalkTypes
  <1>11. Stack'
      BY <1>1, <1>2, KeptGraph DEF WalkInv, Stack
  <1>12. Sound'
    <2>1. \A x \in gray' \ preStack' : todo'[x] \subseteq Onward(x)' /\ ~selfAccepting'[x]
        BY <1>1, <1>2, KeptGraph, TodoFacts DEF WalkInv, WalkTypes, Sound
    <2> QED
        BY <1>1, <1>9, <2>1 DEF Sound
  <1>13. Complete'
    <2>1. Seeds' \subseteq seeds' \cup gray' \cup black'
        BY <1>1, <1>2, KeptGraph, TodoFacts DEF WalkInv, Complete
    <2>2. \A x \in gray' \ preStack' : Onward(x)' \subseteq todo'[x] \cup gray' \cup black'
        BY <1>1, <1>2, KeptGraph, TodoFacts DEF WalkInv, WalkTypes, Complete
    <2>3. \A x \in black' : selfAccepting'[x] \/ Onward(x)' \subseteq gray' \cup black'
      <3>1. \A x \in black' : x \in Modules /\ (selfAccepting[x] \/ Onward(x) \subseteq gray \cup black)
          BY <1>1, <1>2 DEF WalkInv, WalkTypes, Complete
      <3> QED
          BY <1>1, <1>2, <3>1, KeptGraph
    <2> QED
        BY <1>1, <2>1, <2>2, <2>3 DEF Complete
  <1>14. Chained'
    <2>1. fromImporters' = fromImporters /\ changed' = changed /\ changed \in Modules
        BY <1>1 DEF GraphKept, Graph
    <2>2. \A k \in 1 .. Len(path) : path[k] \in Modules
        BY DEF WalkInv, WalkTypes
    <2>3. path' = path /\ seeds' \subseteq seeds
        BY <1>2, TodoFacts
    <2>4. \A k \in 1 .. Len(path) : ImportsPlus(path[k])' = ImportsPlus(path[k])
        BY <1>1, <2>2, <2>3, KeptGraph
    <2>5. importers'[changed'] = importers[changed]
        BY <1>1, <2>1, KeptGraph
    <2>6. Chained
        BY DEF WalkInv
    <2> QED
        BY <2>1, <2>3, <2>4, <2>5, <2>6 DEF Chained
  <1> QED
      BY <1>9, <1>10, <1>11, <1>12, <1>13, <1>14 DEF WalkInv

\* A module that does not accept itself becomes the top of the stack.
LEMMA DescendKeeps ==
    ASSUME WalkInv, NEW m \in Modules, Entered(m), Descend(m)
    PROVE  WalkInv'
  <1>1. Graph /\ GraphKept /\ result = "walking" /\ result' = "walking"
      BY DEF WalkInv, Entered, Descend
  <1> DEFINE Whole == {TargetOf(m, m, gray) : x \in {y \in {m} : acceptedExports[y] # NoExports}}
             Above == {TargetOf(i, m, gray \cup {m}) : i \in {j \in importers[m] : AcceptsDep(j, m)}}
             Added == Whole \cup Above
  <1>2. /\ m \notin gray \cup black /\ gray' = gray \cup {m} /\ path' = Append(path, m)
        /\ black' = black /\ ~selfAccepting[m] /\ ~DeadEnd(m)
        /\ targets' = targets \cup Added
      BY DEF Descend
  <1>3. importers[m] \subseteq Modules /\ preStack' = preStack /\ preStack \subseteq gray
      BY <1>1, KeptGraph DEF Graph, GraphTypeOK, WalkInv, Stack
  <1>4. Visited' = Visited \cup {m}
      BY <1>2, <1>3 DEF Visited
  <1>5. Added \in SUBSET Target
    <2>1. \A i \in Modules, chain \in SUBSET Modules : TargetOf(i, m, chain) \in Target
        BY DEF TargetOf, Target, WithinCircular
    <2> QED
        BY <1>3, <2>1 DEF WalkInv, WalkTypes
  <1>6. \A t \in Added :
          \/ t = TargetOf(m, m, gray)
          \/ \E b \in importers[m] : t = TargetOf(b, m, gray \cup {m})
      OBVIOUS
  <1>7. \A t \in Added : t.accepted = m /\ IsBoundary(t.boundary, m)
    <2>1. \A t \in Whole : t.accepted = m /\ t.boundary = m /\ acceptedExports[m] # NoExports
        BY DEF TargetOf
    <2>2. \A t \in Above : t.accepted = m /\ t.boundary \in importers[m] /\ AcceptsDep(t.boundary, m)
        BY DEF TargetOf
    <2> HIDE DEF Whole, Above
    <2> QED
        BY <1>2, <2>1, <2>2 DEF IsBoundary, Accepting
  <1>8. \A b \in Modules : IsBoundary(b, m) => \E t \in Added : t.boundary = b
    <2> SUFFICES ASSUME NEW b \in Modules, IsBoundary(b, m)
                 PROVE  \E t \in Added : t.boundary = b
        OBVIOUS
    <2>1. CASE b = m /\ Accepting(m)
      <3>1. TargetOf(m, m, gray) \in Added
          BY <1>2, <2>1 DEF Accepting
      <3> QED
          BY <2>1, <3>1 DEF TargetOf
    <2>2. CASE b \in importers[m] /\ AcceptsDep(b, m)
      <3>1. TargetOf(b, m, gray \cup {m}) \in Added
          BY <2>2
      <3> QED
          BY <3>1 DEF TargetOf
    <2> QED
        BY <2>1, <2>2 DEF IsBoundary
  <1> HIDE DEF Added
  <1>9. /\ Graph' /\ Found' /\ CircularFlag'
        /\ seeds' \subseteq Seeds'
        /\ Visited' \subseteq Reached'
        /\ \A x \in Visited' : ~DeadEnd(x)'
      BY <1>1, <1>2, <1>4, <1>5, <1>6, <1>7, <1>8, FirstVisit
  <1>10. path \in Seq(Modules) /\ Len(path) \in Nat /\ Len(path') = Len(path) + 1
         /\ path'[Len(path) + 1] = m /\ \A k \in 1 .. Len(path) : path'[k] = path[k]
      BY <1>2 DEF WalkInv, WalkTypes
  <1>11. WalkTypes'
    <2>1. path' \in Seq(Modules)
        BY <1>2, <1>10
    <2>2. targets' \in SUBSET Target
        BY <1>2, <1>5 DEF WalkInv, WalkTypes
    <2>3. todo' \in [Modules -> SUBSET Modules] /\ seeds' \subseteq seeds
        BY TodoFacts
    <2> QED
        BY <1>1, <1>2, <2>1, <2>2, <2>3 DEF WalkInv, WalkTypes
  <1>12. \A k \in 1 .. Len(path') : k \in 1 .. Len(path) \/ (k = Len(path) + 1 /\ path'[k] = m)
      BY <1>10
  <1>13. 1 .. Len(path) \subseteq 1 .. Len(path') /\ Len(path) + 1 \in 1 .. Len(path')
      BY <1>10
  <1>14. Stack'
    <2>1. preStack' \subseteq gray' /\ gray' \cap black' = {}
        BY <1>2, <1>3 DEF WalkInv, Stack
    <2>2. \A k \in 1 .. Len(path') : path'[k] \in gray' \ preStack'
        BY <1>2, <1>3, <1>10, <1>12 DEF WalkInv, Stack
    <2>3. \A x \in gray' \ preStack' : \E k \in 1 .. Len(path') : path'[k] = x
        BY <1>2, <1>3, <1>10, <1>13 DEF WalkInv, Stack
    <2>4. \A j, k \in 1 .. Len(path') : path'[j] = path'[k] => j = k
      <3>1. \A k \in 1 .. Len(path) : path[k] # m
          BY <1>2 DEF WalkInv, Stack
      <3>2. \A j, k \in 1 .. Len(path) : path[j] = path[k] => j = k
          BY DEF WalkInv, Stack
      <3> QED
          BY <1>10, <1>12, <3>1, <3>2
    <2> QED
        BY <2>1, <2>2, <2>3, <2>4 DEF Stack
  <1>15. todo'[m] = Onward(m)
      BY <1>2, TodoFacts
  <1>16. \A x \in gray' \ preStack' : x \in Modules /\ (x = m \/ x \in gray \ preStack)
      BY <1>2, <1>3 DEF WalkInv, WalkTypes
  <1>17. Sound'
    <2>1. \A x \in gray' \ preStack' : todo'[x] \subseteq Onward(x)' /\ ~selfAccepting'[x]
      <3>1. \A x \in gray' \ preStack' : todo'[x] \subseteq Onward(x) /\ ~selfAccepting[x]
          BY <1>2, <1>15, <1>16, TodoFacts DEF WalkInv, Sound
      <3> QED
          BY <1>1, <1>16, <3>1, KeptGraph
    <2> QED
        BY <1>1, <1>9, <2>1 DEF Sound
  <1>18. Complete'
    <2>1. Seeds' \subseteq seeds' \cup gray' \cup black'
        BY <1>1, <1>2, KeptGraph, TodoFacts DEF WalkInv, Complete
    <2>2. \A x \in gray' \ preStack' : Onward(x)' \subseteq todo'[x] \cup gray' \cup black'
      <3>1. \A x \in gray \ preStack : Onward(x) \subseteq todo[x] \cup gray \cup black
          BY <1>1 DEF WalkInv, Complete
      <3>2. \A x \in gray \ preStack : todo[x] \subseteq todo'[x] \cup {m}
          BY TodoFacts
      <3>3. \A x \in gray' \ preStack' : Onward(x) \subseteq todo'[x] \cup gray' \cup black'
          BY <1>2, <1>15, <1>16, <3>1, <3>2
      <3> QED
          BY <1>1, <1>16, <3>3, KeptGraph
    <2>3. \A x \in black' : selfAccepting'[x] \/ Onward(x)' \subseteq gray' \cup black'
      <3>1. \A x \in black' : x \in Modules /\ (selfAccepting[x] \/ Onward(x) \subseteq gray \cup black)
          BY <1>1, <1>2 DEF WalkInv, WalkTypes, Complete
      <3> QED
          BY <1>1, <1>2, <3>1, KeptGraph
    <2> QED
        BY <1>1, <2>1, <2>2, <2>3 DEF Complete
  <1>19. Chained'
    <2>1. fromImporters' = fromImporters /\ changed' = changed /\ changed \in Modules
        BY <1>1 DEF GraphKept, Graph
    <2>2. \A k \in 1 .. Len(path') : ImportsPlus(path[k])' = ImportsPlus(path'[k])
      <3>1. \A k \in 1 .. Len(path') : path'[k] \in Modules
          BY <1>11 DEF WalkTypes
      <3> QED
          BY <1>1, <3>1, KeptGraph
    <2>3. \A g \in gray : g \in ImportsPlus(m)
        BY EnteredImportsGray
    <2>4. \A j, k \in 1 .. Len(path') : j < k => path'[j] \in ImportsPlus(path'[k])
      <3> SUFFICES ASSUME NEW j \in 1 .. Len(path'), NEW k \in 1 .. Len(path'), j < k
                   PROVE  path'[j] \in ImportsPlus(path'[k])
          OBVIOUS
      <3>1. j \in 1 .. Len(path)
          BY <1>10
      <3>2. path'[j] = path[j] /\ path[j] \in gray
          BY <1>10, <3>1 DEF WalkInv, Stack
      <3>3. CASE k \in 1 .. Len(path)
          BY <1>10, <3>1, <3>2, <3>3 DEF WalkInv, Chained
      <3>4. CASE path'[k] = m
          BY <2>3, <3>2, <3>4
      <3> QED
          BY <1>12, <3>3, <3>4
    <2>5. CASE fromImporters
      <3>1. changed \in ImportsPlus(m)
          BY <1>3, <2>3, <2>5 DEF preStack
      <3>2. \A k \in 1 .. Len(path) : changed \in ImportsPlus(path[k])
          BY <2>5 DEF WalkInv, Chained
      <3>3. \A k \in 1 .. Len(path') : changed \in ImportsPlus(path'[k])
          BY <1>10, <1>12, <3>1, <3>2
      <3>4. seeds' \subseteq importers'[changed]
          BY <1>1, <2>1, <2>5, KeptGraph, TodoFacts DEF WalkInv, Chained
      <3> QED
          BY <2>1, <2>2, <2>4, <2>5, <3>3, <3>4 DEF Chained
    <2>6. CASE ~fromImporters
      <3>1. seeds' \subseteq {changed}
          BY <2>6, TodoFacts DEF WalkInv, Chained
      <3>2. path'[1] = changed
        <4>1. CASE path = <<>>
            BY <1>10, <2>6, <4>1, EnteredFacts DEF WalkInv, Chained
        <4>2. CASE path # <<>>
            BY <1>10, <2>6, <4>2 DEF WalkInv, Chained
        <4> QED
            BY <4>1, <4>2
      <3> QED
          BY <2>1, <2>2, <2>4, <2>6, <3>1, <3>2 DEF Chained
    <2> QED
        BY <2>1, <2>5, <2>6 DEF Graph
  <1> QED
      BY <1>9, <1>11, <1>14, <1>17, <1>18, <1>19 DEF WalkInv

\* A gray module whose importers are all entered becomes black.
LEMMA BlackenKeeps ==
    ASSUME WalkInv, Blacken, GraphKept
    PROVE  WalkInv'
  <1>1. Graph /\ GraphKept /\ result = "walking" /\ result' = "walking"
      BY DEF WalkInv, Blacken
  <1>2. /\ path # <<>> /\ todo[Top] = {} /\ gray' = gray \ {Top} /\ black' = black \cup {Top}
        /\ path' = SubSeq(path, 1, Len(path) - 1)
        /\ UNCHANGED <<seeds, todo, targets>>
      BY DEF Blacken
  <1>3. /\ Len(path) \in Nat \ {0} /\ Top = path[Len(path)]
        /\ Top \in gray \ preStack /\ Top \in Modules
      BY <1>2, TopFacts
  <1>4. /\ path' \in Seq(Modules) /\ Len(path') = Len(path) - 1
        /\ \A k \in 1 .. Len(path') : k \in 1 .. Len(path) /\ k < Len(path) /\ path'[k] = path[k]
    <2>1. path \in Seq(Modules) /\ Len(path) - 1 \in Nat /\ Len(path) - 1 <= Len(path)
        BY <1>3 DEF WalkInv, WalkTypes
    <2>2. \A k \in 1 .. Len(path) - 1 : path[k] \in Modules
        BY <2>1
    <2>3. /\ SubSeq(path, 1, Len(path) - 1) \in Seq(Modules)
          /\ Len(SubSeq(path, 1, Len(path) - 1)) = Len(path) - 1
          /\ \A k \in 1 .. Len(path) - 1 : SubSeq(path, 1, Len(path) - 1)[k] = path[k]
      <3> DEFINE n == Len(path) - 1
      <3>1. n \in Nat
          BY <2>1
      <3>2. \A k \in 1 .. n : path[k] \in Modules
          BY <2>2
      <3> HIDE DEF n
      <3>3. 1 \in Int /\ n \in Int /\ n - 1 + 1 = n
          BY <3>1
      <3>4. (IF 1 <= n THEN n - 1 + 1 ELSE 0) = n
          BY <3>1
      <3>5. /\ SubSeq(path, 1, n) \in Seq(Modules)
            /\ Len(SubSeq(path, 1, n)) = IF 1 <= n THEN n - 1 + 1 ELSE 0
            /\ \A k \in 1 .. n - 1 + 1 : SubSeq(path, 1, n)[k] = path[1 + k - 1]
          BY <3>2, <3>3, SubSeqProperties
      <3>6. \A k \in 1 .. n : SubSeq(path, 1, n)[k] = path[k]
        <4>1. \A k \in 1 .. n : 1 + k - 1 = k
            BY <3>1
        <4> QED
            BY <3>3, <3>5, <4>1
      <3> QED
          BY <3>5, <3>6, <3>4 DEF n
    <2> QED
        BY <1>2, <1>3, <2>3
  <1>5. Visited' = Visited /\ preStack' = preStack
      BY <1>1, <1>2, <1>3, KeptGraph DEF Visited
  <1> HIDE DEF Top
  <1>6. WalkTypes'
      BY <1>1, <1>2, <1>3, <1>4 DEF WalkInv, WalkTypes
  <1>7. Stack'
    <2>1. preStack' \subseteq gray' /\ gray' \cap black' = {}
        BY <1>2, <1>3, <1>5 DEF WalkInv, Stack
    <2>2. \A k \in 1 .. Len(path') : path'[k] \in gray' \ preStack'
      <3>1. \A k \in 1 .. Len(path') : path[k] # Top
          BY <1>3, <1>4 DEF WalkInv, Stack
      <3> QED
          BY <1>2, <1>4, <1>5, <3>1 DEF WalkInv, Stack
    <2>3. \A x \in gray' \ preStack' : \E k \in 1 .. Len(path') : path'[k] = x
      <3> SUFFICES ASSUME NEW x \in gray \ preStack, x # Top
                   PROVE  \E k \in 1 .. Len(path') : path'[k] = x
          BY <1>2, <1>5
      <3>1. PICK k \in 1 .. Len(path) : path[k] = x
          BY DEF WalkInv, Stack
      <3>2. k \in 1 .. Len(path')
          BY <1>3, <1>4, <3>1
      <3> QED
          BY <1>4, <3>1, <3>2
    <2>4. \A j, k \in 1 .. Len(path') : path'[j] = path'[k] => j = k
        BY <1>4 DEF WalkInv, Stack
    <2> QED
        BY <2>1, <2>2, <2>3, <2>4 DEF Stack
  <1>8. Sound'
    <2>1. seeds' \subseteq Seeds'
        BY <1>1, <1>2, KeptGraph DEF WalkInv, Sound
    <2>2. Visited' \subseteq Reached' /\ Visited \subseteq Modules
        BY <1>1, <1>5, KeptGraph DEF WalkInv, WalkTypes, Sound, Visited
    <2>3. \A x \in gray' \ preStack' : todo'[x] \subseteq Onward(x)' /\ ~selfAccepting'[x]
      <3>1. gray' \ preStack' \subseteq gray \ preStack /\ todo' = todo
          BY <1>2, <1>5
      <3>2. \A x \in gray \ preStack :
              x \in Modules /\ todo[x] \subseteq Onward(x) /\ ~selfAccepting[x]
          BY DEF WalkInv, WalkTypes, Sound
      <3> QED
          BY <1>1, <3>1, <3>2, KeptGraph
    <2>4. \A x \in Visited' : ~DeadEnd(x)'
        BY <1>1, <1>5, <2>2, KeptGraph DEF WalkInv, Sound
    <2> QED
        BY <1>1, <2>1, <2>2, <2>3, <2>4 DEF Sound
  <1>9. Complete'
    <2>1. gray' \cup black' = gray \cup black
        BY <1>2, <1>3
    <2>2. Seeds' \subseteq seeds' \cup gray' \cup black'
        BY <1>1, <1>2, <2>1, KeptGraph DEF WalkInv, Complete
    <2>3. \A x \in gray' \ preStack' : Onward(x)' \subseteq todo'[x] \cup gray' \cup black'
      <3>1. \A x \in gray \ preStack : x \in Modules /\ Onward(x) \subseteq todo[x] \cup gray \cup black
          BY <1>1 DEF WalkInv, WalkTypes, Complete
      <3> QED
          BY <1>1, <1>2, <1>5, <2>1, <3>1, KeptGraph
    <2>4. \A x \in black' : selfAccepting'[x] \/ Onward(x)' \subseteq gray' \cup black'
      <3>1. \A x \in black' : x \in Modules /\ (selfAccepting[x] \/ Onward(x) \subseteq gray \cup black)
          BY <1>1, <1>2, <1>3 DEF WalkInv, WalkTypes, Complete
      <3> QED
          BY <1>1, <2>1, <3>1, KeptGraph
    <2> QED
        BY <1>1, <2>2, <2>3, <2>4 DEF Complete
  <1>10. Found'
      BY <1>1, <1>2, <1>5, KeptGraph DEF WalkInv, Found, IsBoundary
  <1>11. Chained'
    <2>1. fromImporters' = fromImporters /\ changed' = changed /\ changed \in Modules /\ seeds' = seeds
        BY <1>1, <1>2 DEF GraphKept, Graph
    <2>2. \A k \in 1 .. Len(path') : ImportsPlus(path[k])' = ImportsPlus(path[k])
      <3>1. \A k \in 1 .. Len(path') : path[k] \in Modules
          BY <1>4 DEF WalkInv, WalkTypes
      <3> QED
          BY <1>1, <1>4, <3>1, KeptGraph
    <2>3. \A j, k \in 1 .. Len(path') : j < k => path'[j] \in ImportsPlus(path[k])'
        BY <1>4, <2>2 DEF WalkInv, Chained
    <2>4. CASE fromImporters
      <3>1. \A k \in 1 .. Len(path') : changed \in ImportsPlus(path[k])'
          BY <1>4, <2>2, <2>4 DEF WalkInv, Chained
      <3>2. seeds' \subseteq importers'[changed]
          BY <1>1, <2>1, <2>4, KeptGraph DEF WalkInv, Chained
      <3> QED
          BY <2>1, <2>3, <2>4, <3>1, <3>2 DEF Chained
    <2>5. CASE ~fromImporters
      <3>1. path' # <<>> => path'[1] = changed
        <4> SUFFICES ASSUME path' # <<>> PROVE path'[1] = changed
            OBVIOUS
        <4>1. 1 \in 1 .. Len(path')
            BY <1>3, <1>4
        <4> QED
            BY <1>2, <1>4, <2>5, <4>1 DEF WalkInv, Chained
      <3> QED
          BY <2>1, <2>3, <2>5, <3>1 DEF WalkInv, Chained
    <2> QED
        BY <2>4, <2>5
  <1>12. CircularFlag'
    <2>1. changed' = changed
        BY <1>1 DEF GraphKept
    <2>2. \A t \in targets : t.boundary \in Modules
        BY DEF WalkInv, WalkTypes, Target
    <2>3. \A t \in targets : ChainUp(t.boundary)' = ChainUp(t.boundary) /\ ChainUp(t.boundary) \subseteq Modules
        BY <1>1, <1>2, <2>2, KeptGraph DEF ChainUp
    <2> QED
        BY <1>1, <1>2, <2>1, <2>2, <2>3, KeptGraph DEF WalkInv, CircularFlag
  <1> QED
      BY <1>1, <1>6, <1>7, <1>8, <1>9, <1>10, <1>11, <1>12, KeptGraph DEF WalkInv

\* The walk ends with its seeds entered and its stack empty; a stuttering step
\* changes nothing.
LEMMA FinishKeeps ==
    ASSUME WalkInv, Finish \/ UNCHANGED vars
    PROVE  WalkInv'
  <1>1. /\ UNCHANGED <<graphVars, changed, fromImporters>>
        /\ UNCHANGED <<seeds, gray, black, path, todo, targets>>
        /\ \/ result' = result
           \/ result = "walking" /\ result' = "ok" /\ seeds = {} /\ path = <<>>
      BY DEF Finish, vars, walkVars
  <1>2. Graph' /\ Seeds' = Seeds /\ preStack' = preStack /\ Reached' = Reached
      BY <1>1, KeptGraph DEF WalkInv, GraphKept
  <1>3. WalkTypes'
      BY <1>1 DEF WalkInv, WalkTypes
  <1>4. Stack' /\ Visited' = Visited
      BY <1>1, <1>2 DEF WalkInv, Stack, Visited
  <1>5. Sound' /\ Complete' /\ Found' /\ Chained' /\ CircularFlag'
    <2>1. GraphKept /\ Graph
        BY <1>1 DEF GraphKept, WalkInv
    <2>2. gray \subseteq Modules /\ black \subseteq Modules /\ Visited \subseteq Modules
        BY DEF WalkInv, WalkTypes, Visited
    <2>3. Sound'
      <3>1. \A m \in gray \ preStack : todo'[m] \subseteq Onward(m)' /\ ~selfAccepting'[m]
          BY <1>1, <2>1, <2>2, KeptGraph DEF WalkInv, Sound
      <3>2. \A m \in Visited : ~DeadEnd(m)'
          BY <2>1, <2>2, KeptGraph DEF WalkInv, Sound
      <3>3. \A m \in Reached : m \in Modules /\ DeadEnd(m)' = DeadEnd(m)
          BY <2>1, KeptGraph DEF Reached, FlowsFrom
      <3>4. result' = "reload" => Seeds = {} \/ \E m \in Reached : DeadEnd(m)'
          BY <1>1, <3>3 DEF WalkInv, Sound
      <3>5. seeds \subseteq Seeds /\ Visited \subseteq Reached
          BY DEF WalkInv, Sound
      <3> QED
          BY <1>1, <1>2, <1>4, <3>1, <3>2, <3>4, <3>5 DEF Sound
    <2>4. Complete'
        BY <1>1, <1>2, <2>1, <2>2, KeptGraph DEF WalkInv, Complete
    <2>5. Found'
        BY <1>1, <1>4, <2>1, KeptGraph DEF WalkInv, Found, IsBoundary
    <2>6. Chained'
      <3>1. changed \in Modules /\ \A k \in 1 .. Len(path) : path[k] \in Modules
          BY DEF WalkInv, WalkTypes, Graph
      <3> QED
          BY <1>1, <2>1, <3>1, KeptGraph DEF WalkInv, Chained
    <2>7. CircularFlag'
      <3>1. \A t \in targets : t.boundary \in Modules
          BY DEF WalkInv, WalkTypes, Target
      <3>2. \A t \in targets : ChainUp(t.boundary)' = ChainUp(t.boundary) /\ ChainUp(t.boundary) \subseteq Modules
          BY <2>1, <3>1, <1>1, KeptGraph DEF ChainUp
      <3> QED
          BY <1>1, <2>1, <3>1, <3>2, KeptGraph DEF WalkInv, CircularFlag
    <2> QED
        BY <2>3, <2>4, <2>5, <2>6, <2>7
  <1> QED
      BY <1>2, <1>3, <1>4, <1>5 DEF WalkInv

\* A walk starts from the seeds with an empty stack.
LEMMA InitWalk == Init => WalkInv
  <1> SUFFICES ASSUME Init PROVE WalkInv
      OBVIOUS
  <1>1. Graph
      BY GraphInit
  <1>2. /\ seeds = Seeds /\ gray = preStack /\ black = {} /\ path = <<>> /\ targets = {}
        /\ todo = [m \in Modules |-> {}] /\ result \in {"walking", "reload"}
        /\ result = "reload" => seeds = {}
      BY DEF Init, Seeds
  <1>3. Seeds \subseteq Modules /\ preStack \subseteq Modules
      BY <1>1 DEF Graph, GraphTypeOK, Seeds, preStack
  <1>4. Visited = {}
      BY <1>2 DEF Visited
  <1>5. Len(path) = 0
      BY <1>2
  <1>6. WalkTypes
      BY <1>2, <1>3 DEF WalkTypes
  <1>7. Stack
      BY <1>2, <1>5 DEF Stack
  <1>8. Sound /\ Complete
      BY <1>2, <1>3, <1>4 DEF Sound, Complete
  <1>9. Found /\ CircularFlag
      BY <1>2, <1>4 DEF Found, CircularFlag
  <1>10. Chained
      BY <1>2, <1>5 DEF Chained, Seeds
  <1> QED
      BY <1>1, <1>6, <1>7, <1>8, <1>9, <1>10 DEF WalkInv

\* The inductive invariant.
LEMMA WalkInvariant == Spec => []WalkInv
  <1>1. WalkInv /\ [Next]_vars => WalkInv'
    <2> SUFFICES ASSUME WalkInv, [Next]_vars PROVE WalkInv'
        OBVIOUS
    <2>1. ASSUME NEW m \in Modules, Entered(m) PROVE WalkInv'
        BY <2>1, SkipKeeps, AcceptKeeps, DescendKeeps DEF Entered, Enter
    <2>2. CASE Blacken /\ GraphKept
        BY <2>2, BlackenKeeps
    <2>3. CASE Finish \/ UNCHANGED vars
        BY <2>3, FinishKeeps
    <2> QED
        BY <2>1, <2>2, <2>3, StepKinds
  <1> QED
      BY <1>1, InitWalk, PTL DEF Spec

-----------------------------------------------------------------------------
(* The theorems.                                                           *)

\* Every walk keeps its colors, its stack and its lists within the graph.
THEOREM TypeCorrect == Spec => []TypeOK
  <1>1. WalkInv => TypeOK
      BY DEF WalkInv, Graph, WalkTypes, TypeOK
  <1> QED
      BY <1>1, WalkInvariant, PTL

\* collect_boundaries finds the boundaries an update flows to, no more and no
\* fewer, in every graph: with cycles, self-imports and modules that accept
\* some of their exports.
THEOREM WalkIsExact == Spec => []WalkExact
  <1>1. WalkInv => WalkExact
    <2> SUFFICES ASSUME WalkInv PROVE WalkExact
        OBVIOUS
    <2>1. result = "reload" => Seeds = {} \/ \E m \in Reached : DeadEnd(m)
        BY DEF WalkInv, Sound
    <2>2. ASSUME result = "ok"
          PROVE  /\ \A m \in Reached : ~DeadEnd(m)
                 /\ {<<t.boundary, t.accepted>> : t \in targets} = Boundaries
      <3>1. seeds = {} /\ path = <<>> /\ Len(path) = 0
          BY <2>2 DEF WalkInv, Complete
      <3>2. gray = preStack /\ Visited = black /\ black \in SUBSET Modules
        <4>1. gray \ preStack = {}
          <5>1. 1 .. Len(path) = {}
              BY <3>1
          <5> QED
              BY <5>1 DEF WalkInv, Stack
        <4> QED
            BY <4>1 DEF WalkInv, WalkTypes, Stack, Visited
      <3>3. /\ Seeds \ preStack \subseteq black
            /\ \A m \in black : selfAccepting[m] \/ Onward(m) \ preStack \subseteq black
          BY <2>2, <3>1, <3>2 DEF WalkInv, Complete
      <3>4. Reached = black
          BY <3>2, <3>3, ReachedLeast DEF WalkInv, Sound
      <3>5. \A m \in Reached : ~DeadEnd(m)
          BY <3>2, <3>4 DEF WalkInv, Sound
      <3>6. \A b, m \in Modules :
              (\E t \in targets : t.boundary = b /\ t.accepted = m) <=> m \in Reached /\ IsBoundary(b, m)
          BY <3>2, <3>4 DEF WalkInv, Found
      <3>7. \A t \in targets : t.boundary \in Modules /\ t.accepted \in Modules
          BY DEF WalkInv, WalkTypes, Target
      <3>8. Boundaries = {e \in Modules \X Modules : e[2] \in Reached /\ IsBoundary(e[1], e[2])}
          BY <3>2, <3>4 DEF Boundaries, IsBoundary
      <3>9. {<<t.boundary, t.accepted>> : t \in targets}
              = {e \in Modules \X Modules : e[2] \in Reached /\ IsBoundary(e[1], e[2])}
        <4> DEFINE Pairs == {<<t.boundary, t.accepted>> : t \in targets}
                   Flow == {e \in Modules \X Modules : e[2] \in Reached /\ IsBoundary(e[1], e[2])}
        <4>1. ASSUME NEW e \in Pairs PROVE e \in Flow
          <5>1. PICK t \in targets : e = <<t.boundary, t.accepted>>
              OBVIOUS
          <5>2. t.boundary \in Modules /\ t.accepted \in Modules
              BY <3>7
          <5>3. t.accepted \in Reached /\ IsBoundary(t.boundary, t.accepted)
              BY <3>6, <5>2
          <5> QED
              BY <5>1, <5>2, <5>3
        <4>2. ASSUME NEW e \in Flow PROVE e \in Pairs
          <5>1. PICK b \in Modules, m \in Modules : e = <<b, m>>
              OBVIOUS
          <5>2. m \in Reached /\ IsBoundary(b, m)
              BY <5>1
          <5>3. PICK t \in targets : t.boundary = b /\ t.accepted = m
              BY <3>6, <5>2
          <5> QED
              BY <5>1, <5>3
        <4> QED
            BY <4>1, <4>2
      <3> QED
          BY <3>5, <3>8, <3>9
    <2> QED
        BY <2>1, <2>2 DEF WalkExact
  <1> QED
      BY <1>1, WalkInvariant, PTL

\* is_within_circular_imports: no boundary on a cycle with the changed module
\* goes unflagged, and none is flagged that is on no import cycle.
THEOREM FlagsCorrect == Spec => []CircularFlag
  <1>1. WalkInv => CircularFlag
      BY DEF WalkInv
  <1> QED
      BY <1>1, WalkInvariant, PTL

\* What the targets of an update accept is what dirty_closure stamps.
THEOREM TargetsAreStamped == Spec => []TargetsStamped
  <1>1. WalkInv => TargetsStamped
    <2> SUFFICES ASSUME WalkInv, ~fromImporters, NEW t \in targets
                 PROVE  t.accepted \in DirtyClosure(changed)
        BY DEF TargetsStamped
    <2>1. t.boundary \in Modules /\ t.accepted \in Modules
        BY DEF WalkInv, WalkTypes, Target
    <2>2. t.accepted \in Visited
        BY <2>1 DEF WalkInv, Found
    <2> QED
        BY <2>2, ReachedDirty DEF WalkInv, Sound
  <1> QED
      BY <1>1, WalkInvariant, PTL

\* What an invalidation flows through is stamped or past an accepting importer.
LEMMA ReachedPastAccepting ==
    ASSUME Graph, fromImporters
    PROVE  Reached \subseteq DirtyClosure(changed) \cup FlowsFrom(AcceptingImporters)
  <1> DEFINE Dirty == DirtyClosure(changed)
             Past == FlowsFrom(AcceptingImporters)
  <1>1. Dirty \subseteq Modules /\ Past \subseteq Modules /\ changed \in Modules
      BY DEF DirtyClosure, FlowsFrom, Graph
  <1>2. \A m \in Dirty, i \in Modules : DirtyStep(changed, m, i) => i \in Dirty
    <2> SUFFICES ASSUME NEW m \in Dirty, NEW i \in Modules, DirtyStep(changed, m, i),
                        NEW C \in SUBSET Modules, changed \in C, DirtyClosed(changed, C)
                 PROVE  i \in C
        BY DEF DirtyClosure
    <2>1. m \in C
        BY DEF DirtyClosure
    <2> QED
        BY <2>1 DEF DirtyClosed
  <1>3. ClimbClosed(preStack, Past)
    <2> SUFFICES ASSUME NEW m \in Past, NEW i \in Modules \ preStack, ClimbStep(m, i),
                        NEW C \in SUBSET Modules,
                        AcceptingImporters \ preStack \subseteq C, ClimbClosed(preStack, C)
                 PROVE  i \in C
        BY DEF ClimbClosed, FlowsFrom
    <2>1. m \in C
        BY DEF FlowsFrom
    <2> QED
        BY <2>1 DEF ClimbClosed
  <1>4. ClimbClosed(preStack, Dirty \cup Past)
    <2>1. \A m \in Dirty, i \in Modules : ClimbStep(m, i) => i \in Dirty
        BY <1>1, <1>2 DEF ClimbStep, DirtyStep, Graph
    <2> QED
        BY <1>3, <2>1 DEF ClimbClosed
  <1>5. Seeds \ preStack \subseteq Dirty \cup Past
    <2> SUFFICES ASSUME NEW i \in Seeds \ preStack
                 PROVE  i \in Dirty \cup Past
        OBVIOUS
    <2>1. i \in importers[changed] /\ i \in Modules
        BY <1>1 DEF Seeds, Graph, GraphTypeOK
    <2>2. CASE AcceptsDep(i, changed)
      <3>1. i \in AcceptingImporters \ preStack
          BY <2>1, <2>2 DEF AcceptingImporters
      <3> QED
          BY <2>1, <3>1 DEF FlowsFrom
    <2>3. CASE ~AcceptsDep(i, changed)
      <3>1. changed \in Dirty
          BY <1>1 DEF DirtyClosure
      <3>2. DirtyStep(changed, changed, i)
          BY <1>1, <2>1, <2>3 DEF DirtyStep, Graph
      <3> QED
          BY <1>2, <2>1, <3>1, <3>2
    <2> QED
        BY <2>2, <2>3
  <1>6. Dirty \cup Past \in SUBSET Modules
      BY <1>1
  <1> QED
      BY <1>4, <1>5, <1>6 DEF Reached, FlowsFrom

\* An invalidation's targets that the update leaves unstamped all lie past an
\* importer that accepts the invalidated module, in every graph: where no
\* importer does, everything the client re-imports is stamped.
THEOREM UnstampedOnlyPastAccepting == Spec => []UnstampedPastAccepting
  <1>1. WalkInv => UnstampedPastAccepting
    <2> SUFFICES ASSUME WalkInv, fromImporters, NEW t \in targets
                 PROVE  t.accepted \in DirtyClosure(changed) \cup FlowsFrom(AcceptingImporters)
        BY DEF UnstampedPastAccepting
    <2>1. t.boundary \in Modules /\ t.accepted \in Modules
        BY DEF WalkInv, WalkTypes, Target
    <2>2. t.accepted \in Reached
        BY <2>1 DEF WalkInv, Found, Sound
    <2> QED
        BY <2>2, ReachedPastAccepting DEF WalkInv
  <1> QED
      BY <1>1, WalkInvariant, PTL

White == Modules \ (gray \cup black)

\* Every step that does not end the walk colors a white module, or blackens a
\* gray one, or takes something off the lists and puts nothing on: with
\* finitely many modules there are finitely many such steps.
EveryStepShrinks ==
    [][result' = "walking" =>
         \/ White' \subseteq White /\ White' # White
         \/ White' = White /\ gray' \subseteq gray /\ gray' # gray
         \/ /\ White' = White /\ gray' = gray
            /\ seeds' \subseteq seeds /\ \A m \in Modules : todo'[m] \subseteq todo[m]
            /\ seeds' # seeds \/ \E m \in Modules : todo'[m] # todo[m]]_vars

\* No cycle of imports keeps climb going around: whatever the graph, every
\* step of the walk is progress towards its end.
THEOREM WalkShrinks == Spec => EveryStepShrinks
  <1>1. ASSUME WalkInv, NEW m \in Modules, Entered(m), result' = "walking", Skip(m)
        PROVE  /\ White' = White /\ gray' = gray
               /\ seeds' \subseteq seeds /\ \A n \in Modules : todo'[n] \subseteq todo[n]
               /\ seeds' # seeds \/ \E n \in Modules : todo'[n] # todo[n]
    <2>1. UNCHANGED <<gray, black>> /\ White' = White
        BY <1>1 DEF Skip, White
    <2>2. TodoAfter(m) = todo
        BY <2>1 DEF TodoAfter
    <2>3. CASE path = <<>>
        BY <1>1, <2>1, <2>2, <2>3 DEF Entered
    <2>4. CASE path # <<>>
      <3>1. seeds' = seeds /\ m \in todo[Top] /\ todo' = [todo EXCEPT ![Top] = todo[Top] \ {m}]
          BY <1>1, <2>2, <2>4 DEF Entered
      <3>2. Top \in Modules /\ todo \in [Modules -> SUBSET Modules]
          BY <1>1, <2>4, TopFacts DEF WalkInv, WalkTypes
      <3> HIDE DEF Top
      <3>3. todo'[Top] # todo[Top] /\ \A n \in Modules : todo'[n] \subseteq todo[n]
          BY <3>1, <3>2
      <3> QED
          BY <2>1, <3>1, <3>2, <3>3
    <2> QED
        BY <2>3, <2>4
  <1>2. ASSUME NEW m \in Modules, AcceptSelf(m) \/ Descend(m)
        PROVE  White' \subseteq White /\ White' # White
    <2>1. m \in White /\ gray' \cup black' = (gray \cup black) \cup {m}
        BY <1>2 DEF AcceptSelf, Descend, White
    <2> QED
        BY <2>1 DEF White
  <1>3. ASSUME WalkInv, Blacken
        PROVE  White' = White /\ gray' \subseteq gray /\ gray' # gray
    <2>1. Top \in gray
        BY <1>3, TopFacts DEF Blacken
    <2>2. gray' = gray \ {Top} /\ black' = black \cup {Top}
        BY <1>3 DEF Blacken
    <2> HIDE DEF Top
    <2> QED
        BY <2>1, <2>2 DEF White
  <1>4. WalkInv /\ [Next]_vars =>
          [result' = "walking" =>
             \/ White' \subseteq White /\ White' # White
             \/ White' = White /\ gray' \subseteq gray /\ gray' # gray
             \/ /\ White' = White /\ gray' = gray
                /\ seeds' \subseteq seeds /\ \A m \in Modules : todo'[m] \subseteq todo[m]
                /\ seeds' # seeds \/ \E m \in Modules : todo'[m] # todo[m]]_vars
    <2> SUFFICES ASSUME WalkInv, Next, result' = "walking"
                 PROVE  \/ White' \subseteq White /\ White' # White
                        \/ White' = White /\ gray' \subseteq gray /\ gray' # gray
                        \/ /\ White' = White /\ gray' = gray
                           /\ seeds' \subseteq seeds /\ \A m \in Modules : todo'[m] \subseteq todo[m]
                           /\ seeds' # seeds \/ \E m \in Modules : todo'[m] # todo[m]
        OBVIOUS
    <2>1. CASE \E m \in Modules : Entered(m)
        BY <1>1, <1>2, <2>1 DEF Entered, Enter, ReachEntry
    <2>2. CASE Blacken
        BY <1>3, <2>2
    <2>3. ~Finish
        BY DEF Finish
    <2> QED
        BY <2>1, <2>2, <2>3, StepKinds
  <1> QED
      BY <1>4, WalkInvariant, PTL DEF Spec, EveryStepShrinks
=============================================================================
