------------------------ MODULE CompileCacheProofs ------------------------
(***************************************************************************)
(* What CompileCache promises for every number of requests, edits and      *)
(* restarts.  A request's key is that of the source it loaded, which is no *)
(* older than the file it found (Keyed); with that OwnFresh is inductive.  *)
(* Every module that may be handed out, in flight, in memory or on disk,   *)
(* embeds the file as it was at the last stamp its key knows of, or later, *)
(* because a stamp of the file moves the sheet's (Stamped).  That is so of *)
(* the on-disk cache until the server is started again, and after that     *)
(* where nothing there embeds a file (Untainted).                          *)
(***************************************************************************)
EXTENDS CompileCache, TLAPS

USE CacheAssumption

-----------------------------------------------------------------------------
(* Types.                                                                  *)

\* The fields of keys and modules.
LEMMA RecordTypes ==
    /\ \A k \in Key : k.own \in 0 .. MaxOwn /\ k.imp \in Nat /\ k.inv \in Nat
    /\ \A m \in Module : m.key \in Key /\ m.dep \in (0 .. MaxDep) \cup {None}
    /\ \A k \in Key, d \in (0 .. MaxDep) \cup {None} : [key |-> k, dep |-> d] \in Module
    /\ \A o \in 0 .. MaxOwn, i, n \in Nat : [own |-> o, imp |-> i, inv |-> n] \in Key
  BY DEF Key, Module

HasKey == {"stamped", "keyed", "missed", "locked", "compiled"}

\* A request that has a key has one, and so for what it compiled.
Filled ==
    \A r \in Requests :
      /\ at[r] \in HasKey => key[r] \in Key
      /\ at[r] = "compiled" => out[r] \in Module

RequestTypes ==
    /\ at \in [Requests -> Stages]
    /\ file \in [Requests -> 0 .. MaxOwn] /\ source \in [Requests -> 0 .. MaxOwn]
    /\ key \in [Requests -> Key \cup {None}] /\ out \in [Requests -> Module \cup {None}]
    /\ floor \in [Requests -> 0 .. MaxDep]

\* A request that ends forgets what it had.
LEMMA EndsTypes ==
    ASSUME TypeOK, Filled, NEW r \in Requests, Ends(r)
    PROVE  (RequestTypes /\ Filled)'
  BY DEF Ends, Goto, Stages, HasKey, RequestTypes, Filled, TypeOK

\* What is served is a module.
LEMMA ServeTypes ==
    ASSUME TypeOK, Filled, NEW r \in Requests, NEW m \in Module, Serve(r, m)
    PROVE  /\ (RequestTypes /\ Filled)'
           /\ registered' \in BOOLEAN
           /\ response' \in [file : 0 .. MaxOwn, floor : 0 .. MaxDep, module : Module]
  BY EndsTypes DEF Serve, TypeOK

\* Every step keeps the types.
LEMMA TypeNext ==
    ASSUME TypeOK, Filled, [Next]_vars
    PROVE  (TypeOK /\ Filled)'
  <1> USE DEF diskVars, graphVars, watchVars, cacheVars, reqVars
  <1>1. CASE EditOwn
      BY <1>1 DEF EditOwn, Stages, HasKey, Filled, TypeOK
  <1>2. CASE EditDep
      BY <1>2 DEF EditDep, Stages, HasKey, Filled, TypeOK
  <1>3. CASE DropKey
      BY <1>3 DEF DropKey, WatcherDone, Stages, HasKey, Filled, TypeOK
  <1>4. CASE StampUpdate
      BY <1>4 DEF StampUpdate, Stages, HasKey, Filled, TypeOK
  <1>5. CASE Evict
      BY <1>5 DEF Evict, Stages, HasKey, Filled, TypeOK
  <1>6. CASE Restart
    <2>1. (RequestTypes /\ Filled)'
        BY <1>6 DEF Restart, Stages, HasKey, RequestTypes, Filled
    <2>2. stampedDep' \in 0 .. dep' /\ boots' \in 0 .. MaxBoots
        BY <1>6 DEF Restart, TypeOK
    <2> QED
        BY <1>6, <2>1, <2>2 DEF Restart, WatcherDone, RequestTypes, TypeOK
  <1>7. ASSUME NEW f \in {"own", "dep"}, Invalidate(f)
        PROVE  (TypeOK /\ Filled)'
      BY <1>7 DEF Invalidate, Stages, HasKey, Filled, TypeOK
  <1>8. ASSUME NEW r \in Requests, Stat(r) \/ Step(r)
        PROVE  (TypeOK /\ Filled)'
    <2>1. CASE Stat(r)
        BY <2>1 DEF Stat, Goto, Stages, HasKey, Filled, TypeOK
    <2>2. CASE WarmHit(r)
      <3>1. CASE WarmHitFor(r)
        <4>1. memory \in Module
            BY <3>1 DEF WarmHitFor, TypeOK
        <4>2. Serve(r, memory)
            BY <2>2, <3>1 DEF WarmHit
        <4> QED
            BY <2>2, <4>1, <4>2, ServeTypes DEF WarmHit, RequestTypes, TypeOK
      <3>2. CASE ~WarmHitFor(r)
          BY <2>2, <3>2 DEF WarmHit, Goto, Stages, HasKey, Filled, TypeOK
      <3> QED
          BY <3>1, <3>2
    <2>3. CASE LoadSource(r)
        BY <2>3 DEF LoadSource, Goto, Stages, HasKey, Filled, TypeOK
    <2>4. CASE ReadStamps(r)
      <3>1. KeyOf(r) \in Key
          BY RecordTypes DEF KeyOf, TypeOK
      <3> QED
          BY <2>4, <3>1 DEF ReadStamps, Goto, Stages, HasKey, Filled, TypeOK
    <2>5. CASE RecordKey(r)
      <3>1. FastKey(r) \in [file : 0 .. MaxOwn, key : Key]
          BY <2>5 DEF RecordKey, FastKey, HasKey, Filled, TypeOK
      <3> QED
          BY <2>5, <3>1 DEF RecordKey, Goto, Stages, HasKey, Filled, TypeOK
    <2>6. CASE MemoryHit(r)
      <3>1. CASE InMemory(r)
        <4>1. memory \in Module
            BY <3>1 DEF InMemory, TypeOK
        <4>2. Serve(r, memory)
            BY <2>6, <3>1 DEF MemoryHit
        <4> QED
            BY <2>6, <4>1, <4>2, ServeTypes DEF MemoryHit, RequestTypes, TypeOK
      <3>2. CASE ~InMemory(r)
          BY <2>6, <3>2 DEF MemoryHit, Goto, Stages, HasKey, Filled, TypeOK
      <3> QED
          BY <3>1, <3>2
    <2>7. CASE Acquire(r)
        BY <2>7 DEF Acquire, Goto, Stages, HasKey, Filled, TypeOK
    <2>8. CASE LockedMemoryHit(r)
      <3>1. memory \in Module
          BY <2>8 DEF LockedMemoryHit, InMemory, TypeOK
      <3> QED
          BY <2>8, <3>1, ServeTypes DEF LockedMemoryHit, RequestTypes, TypeOK
    <2>9. CASE PersistentHit(r)
      <3>1. PICK m \in disk : memory' = m /\ Serve(r, m)
          BY <2>9 DEF PersistentHit
      <3>2. m \in Module
          BY DEF TypeOK
      <3> QED
          BY <2>9, <3>1, <3>2, ServeTypes DEF PersistentHit, RequestTypes, TypeOK
    <2>10. CASE Compile(r)
      <3>1. key[r] \in Key
          BY <2>10 DEF Compile, HasKey, Filled
      <3>2. [key |-> key[r], dep |-> IF source[r] \in Inlining \cup Importing
                                    THEN dep ELSE None] \in Module
          BY <3>1, RecordTypes DEF TypeOK
      <3> QED
          BY <2>10, <3>1, <3>2 DEF Compile, Goto, Stages, HasKey, Filled, TypeOK
    <2>11. CASE CompileFails(r) \/ LoadFails(r)
        BY <2>11, EndsTypes DEF CompileFails, LoadFails, RequestTypes, TypeOK
    <2>12. CASE Store(r)
      <3>1. out[r] \in Module
          BY <2>12 DEF Store, Filled
      <3>2. Serve(r, out[r])
          BY <2>12 DEF Store
      <3>3. disk' \in SUBSET Module
          BY <2>12, <3>1 DEF Store, TypeOK
      <3> QED
          BY <2>12, <3>1, <3>2, <3>3, ServeTypes DEF Store, RequestTypes, TypeOK
    <2> QED
        BY <1>8, <2>1, <2>2, <2>3, <2>4, <2>5, <2>6, <2>7, <2>8, <2>9, <2>10,
            <2>11, <2>12 DEF Step
  <1>9. CASE UNCHANGED vars
      BY <1>9 DEF vars, Stages, HasKey, Filled, TypeOK
  <1> QED
      BY <1>1, <1>2, <1>3, <1>4, <1>5, <1>6, <1>7, <1>8, <1>9 DEF Next

\* The first state is well typed.
LEMMA TypeInit == Init => TypeOK /\ Filled
  <1> SUFFICES ASSUME Init PROVE TypeOK /\ Filled
      OBVIOUS
  <1>1. RequestTypes /\ Filled
      BY DEF Init, Stages, HasKey, RequestTypes, Filled
  <1>2. /\ own \in 0 .. MaxOwn /\ dep \in 0 .. MaxDep /\ inv \in Nat /\ imp \in Nat
        /\ stampedDep \in 0 .. dep /\ boots \in 0 .. MaxBoots
      BY DEF Init
  <1>3. /\ mtimeKey = None /\ memory = None /\ lock = None /\ response = None
        /\ disk = {} /\ changed = {} /\ registered = FALSE
        /\ watcher = "idle" /\ taken = "own"
      BY DEF Init
  <1> QED
      BY <1>1, <1>2, <1>3 DEF RequestTypes, TypeOK

\* Every variable keeps its type.
THEOREM TypeCorrect == Spec => []TypeOK
  BY TypeInit, TypeNext, PTL DEF Spec

-----------------------------------------------------------------------------
(* The sheet itself.                                                       *)

\* A key is of the source the request loaded, after it found the file; and so
\* is one that was recorded for the fast path.
Keyed ==
    /\ \A r \in Requests :
         /\ at[r] # "idle" => file[r] <= own
         /\ at[r] \in {"loaded"} \cup HasKey => file[r] <= source[r]
         /\ at[r] \in HasKey => key[r].own = source[r]
         /\ at[r] = "compiled" => out[r].key = key[r]
    /\ mtimeKey # None => mtimeKey.file <= mtimeKey.key.own
    /\ OwnFresh

\* No step makes a key of an older source than its file stamp.
LEMMA KeyedNext ==
    ASSUME TypeOK, Filled, Keyed, [Next]_vars
    PROVE  Keyed'
  <1> USE DEF diskVars, graphVars, watchVars, cacheVars, reqVars
  <1>1. CASE EditOwn
      BY <1>1 DEF EditOwn, HasKey, Filled, OwnFresh, Keyed, TypeOK
  <1>2. CASE EditDep
      BY <1>2 DEF EditDep, HasKey, Filled, OwnFresh, Keyed, TypeOK
  <1>3. CASE DropKey
      BY <1>3 DEF DropKey, WatcherDone, HasKey, Filled, OwnFresh, Keyed,
          TypeOK
  <1>4. CASE StampUpdate
      BY <1>4 DEF StampUpdate, HasKey, Filled, OwnFresh, Keyed, TypeOK
  <1>5. CASE Evict
      BY <1>5 DEF Evict, HasKey, Filled, OwnFresh, Keyed, TypeOK
  <1>6. CASE Restart
      BY <1>6 DEF Restart, WatcherDone, HasKey, Filled, OwnFresh, Keyed,
          TypeOK
  <1>7. ASSUME NEW f \in {"own", "dep"}, Invalidate(f)
        PROVE  Keyed'
      BY <1>7 DEF Invalidate, HasKey, Filled, OwnFresh, Keyed, TypeOK
  <1>8. ASSUME NEW r \in Requests, Stat(r) \/ Step(r)
        PROVE  Keyed'
    <2>1. CASE Stat(r)
        BY <2>1 DEF Stat, Goto, HasKey, Filled, OwnFresh, Keyed, TypeOK
    <2>2. CASE WarmHit(r)
        BY <2>2 DEF WarmHit, Goto, Serve, Ends, WarmHitFor, HasKey, Filled,
            OwnFresh, Keyed, TypeOK
    <2>3. CASE LoadSource(r)
        BY <2>3 DEF LoadSource, Goto, HasKey, Filled, OwnFresh, Keyed, TypeOK
    <2>4. CASE ReadStamps(r)
        BY <2>4 DEF ReadStamps, Goto, KeyOf, HasKey, Filled, OwnFresh, Keyed,
            TypeOK
    <2>5. CASE RecordKey(r)
        BY <2>5 DEF RecordKey, Goto, FastKey, HasKey, Filled, OwnFresh, Keyed,
            TypeOK
    <2>6. CASE MemoryHit(r)
        BY <2>6 DEF MemoryHit, Goto, Serve, Ends, InMemory, HasKey, Filled,
            OwnFresh, Keyed, TypeOK
    <2>7. CASE Acquire(r)
        BY <2>7 DEF Acquire, Goto, HasKey, Filled, OwnFresh, Keyed, TypeOK
    <2>8. CASE LockedMemoryHit(r)
        BY <2>8 DEF LockedMemoryHit, Goto, Serve, Ends, InMemory, HasKey,
            Filled, OwnFresh, Keyed, TypeOK
    <2>9. CASE PersistentHit(r)
        BY <2>9 DEF PersistentHit, Goto, Serve, Ends, HasKey, Filled,
            OwnFresh, Keyed, TypeOK
    <2>10. CASE Compile(r)
        BY <2>10 DEF Compile, Goto, HasKey, Filled, OwnFresh, Keyed, TypeOK
    <2>11. CASE CompileFails(r) \/ LoadFails(r)
        BY <2>11 DEF CompileFails, LoadFails, Goto, Ends, HasKey, Filled, OwnFresh,
            Keyed, TypeOK
    <2>12. CASE Store(r)
        BY <2>12 DEF Store, Goto, Serve, Ends, Persists, HasKey, Filled,
            OwnFresh, Keyed, TypeOK
    <2> QED
        BY <1>8, <2>1, <2>2, <2>3, <2>4, <2>5, <2>6, <2>7, <2>8, <2>9, <2>10,
            <2>11, <2>12 DEF Step
  <1>9. CASE UNCHANGED vars
      BY <1>9 DEF vars, HasKey, Filled, OwnFresh, Keyed, TypeOK
  <1> QED
      BY <1>1, <1>2, <1>3, <1>4, <1>5, <1>6, <1>7, <1>8, <1>9 DEF Next

\* A request never gets an older version of the sheet than the one it found on
\* disk, however many compile it and edit it at the same time.
THEOREM NeverOlder == Spec => []OwnFresh
  <1>1. Init => Keyed
      BY DEF Init, HasKey, OwnFresh, Keyed
  <1>2. Keyed => OwnFresh
      BY DEF Keyed
  <1> QED
      BY <1>1, <1>2, KeyedNext, TypeInit, TypeNext, PTL DEF Spec

-----------------------------------------------------------------------------
(* The file it embeds.                                                     *)

\* The modules that a request may be answered with, now or later.
Circulating ==
    disk \cup ({memory} \ {None}) \cup {out[r] : r \in {q \in Requests : at[q] = "compiled"}}

\* m embeds the file as it was at the last stamp its key knows of, or later:
\* for a key with the current stamp and for every key that a request holds.
Current(m) ==
    m.dep # None =>
      /\ m.key.inv <= inv
      /\ m.key.inv = inv => m.dep >= stampedDep
      /\ \A r \in Requests :
           at[r] \in HasKey /\ key[r].inv = m.key.inv => m.dep >= floor[r]

\* No on-disk entry of an earlier process embeds a file.
Untainted == boots = 0 \/ Importing \subseteq Inlining

\* Every stamp of the file moves inv, so that a key with the current one is of
\* a compile that reads the file after the stamp.
Stamped ==
    /\ \A r \in Requests : at[r] \in HasKey => key[r].inv <= inv
    /\ \A r \in Requests : floor[r] <= stampedDep
    /\ \A m \in Circulating : m.dep # None => m.key.own \in Inlining \cup Importing
    /\ \A m \in disk : m.key.own \notin Inlining
    /\ Untainted => \A m \in Circulating : Current(m)

\* Where the key that the fast path goes by is not of the current stamp.
StaleFastKey == mtimeKey # None /\ mtimeKey.key.inv # inv

\* A request is answered with an older file than the change the watcher was
\* through with only by the fast path, with a key recorded by a request that
\* the stamp overtook, or, in a server that was started again, from an on-disk
\* entry of a sheet that imports the file.
StaleOnlyByFastKey ==
    [][Untainted /\ ~((\E r \in Requests : WarmHit(r)) /\ StaleFastKey) => ServedFresh']_vars

\* Another request is left as it is.
Spared(r) ==
    \A q \in Requests \ {r} :
        at'[q] = at[q] /\ key'[q] = key[q] /\ out'[q] = out[q] /\ floor'[q] = floor[q]

\* What a request that moves on, or ends, does to itself.
LEMMA RequestMoves ==
    ASSUME TypeOK, NEW r \in Requests
    PROVE  /\ Ends(r) => Spared(r) /\ at'[r] = "idle" /\ floor'[r] = 0
           /\ \A s \in Stages : Goto(r, s) /\ UNCHANGED <<key, out, floor>> =>
                Spared(r) /\ at'[r] = s /\ floor'[r] = floor[r] /\ key'[r] = key[r]
  BY DEF Ends, Goto, Spared, TypeOK

\* The modules in memory, on disk and just compiled are modules.
LEMMA CirculatingTypes ==
    ASSUME TypeOK, Filled
    PROVE  /\ Circulating \subseteq Module
           /\ \A m \in Circulating : m.key.inv \in Nat /\ (m.dep # None => m.dep \in Nat)
           /\ memory # None => memory \in Circulating
           /\ \A r \in Requests : at[r] = "compiled" => out[r] \in Circulating
           /\ disk \subseteq Circulating
  <1>1. Circulating \subseteq Module
      BY DEF Circulating, Filled, TypeOK
  <1>2. \A m \in Circulating : m.key.inv \in Nat /\ (m.dep # None => m.dep \in Nat)
      BY <1>1, RecordTypes
  <1> QED
      BY <1>1, <1>2 DEF Circulating

\* A step that brings no module and no key into the world keeps them current.
LEMMA StampedKept ==
    ASSUME TypeOK, Stamped, UNCHANGED <<inv, stampedDep, boots>>,
           disk' \subseteq Circulating, memory' \in Circulating \cup {None},
           \A m \in disk' \ disk : m.key.own \notin Inlining,
           \A q \in Requests :
             /\ at'[q] = "compiled" => at[q] = "compiled" /\ out'[q] = out[q]
             /\ at'[q] \in HasKey => at[q] \in HasKey /\ key'[q] = key[q] /\ floor'[q] = floor[q]
             /\ floor'[q] \in {floor[q], 0, stampedDep}
    PROVE  Stamped'
  <1>1. Circulating' \subseteq Circulating
    <2>1. \A q \in Requests : at'[q] = "compiled" => out'[q] \in Circulating
        BY DEF Circulating
    <2> QED
        BY <2>1 DEF Circulating
  <1>2. stampedDep \in Nat
      BY DEF TypeOK
  <1>3. \A r \in Requests : floor'[r] <= stampedDep'
      BY <1>2 DEF Stamped
  <1>4. \A m \in Circulating' : m.dep # None => m.key.own \in Inlining \cup Importing
      BY <1>1 DEF Stamped
  <1>5. \A m \in disk' : m.key.own \notin Inlining
      BY DEF Stamped
  <1>6. \A r \in Requests : at'[r] \in HasKey => key'[r].inv <= inv'
      BY DEF Stamped
  <1>7. Untainted' => \A m \in Circulating' : Current(m)'
    <2> SUFFICES ASSUME Untainted', NEW m \in Circulating'
                 PROVE  Current(m)'
        OBVIOUS
    <2>1. Current(m)
        BY <1>1 DEF Untainted, Stamped
    <2> QED
        BY <2>1 DEF Current
  <1> QED
      BY <1>3, <1>4, <1>5, <1>6, <1>7 DEF Stamped

\* No step gives a module a key of later stamps than the file it embeds.
LEMMA StampedNext ==
    ASSUME TypeOK, Filled, Keyed, Stamped, [Next]_vars
    PROVE  Stamped'
  <1> USE DEF diskVars, graphVars, watchVars, cacheVars, reqVars
  <1>1. /\ inv \in Nat /\ stampedDep \in Nat /\ dep \in Nat /\ stampedDep <= dep /\ boots \in Nat
        /\ \A r \in Requests : floor[r] \in Nat
      BY DEF TypeOK
  <1>2. \A r \in Requests : at[r] \in HasKey => key[r] \in Key /\ key[r].inv \in Nat
      BY RecordTypes DEF Filled
  <1>3. CASE EditOwn \/ EditDep \/ DropKey \/ StampUpdate \/ Evict \/ UNCHANGED vars
    <2>1. UNCHANGED <<inv, stampedDep, boots, disk, at, key, out, floor>> /\ memory' \in {memory, None}
        BY <1>3 DEF EditOwn, EditDep, DropKey, StampUpdate, Evict, vars
    <2> QED
        BY <2>1, CirculatingTypes, StampedKept
  <1>4. CASE Restart
    <2>1. /\ disk' = disk /\ memory' = None /\ stampedDep' = dep /\ boots' = boots + 1
          /\ \A r \in Requests : at'[r] = "idle" /\ floor'[r] = 0
        BY <1>4 DEF Restart
    <2>2. Circulating' \subseteq disk
        BY <2>1 DEF Circulating
    <2>3. \A m \in disk : m.dep # None => ~(Importing \subseteq Inlining)
        BY CirculatingTypes DEF Stamped
    <2>4. Untainted' => Importing \subseteq Inlining
        BY <1>1, <2>1 DEF Untainted
    <2>5. Untainted' => \A m \in Circulating' : Current(m)'
        BY <2>2, <2>3, <2>4 DEF Current
    <2> QED
        BY <1>1, <2>1, <2>2, <2>5, CirculatingTypes DEF Stamped, HasKey
  <1>5. ASSUME NEW f \in {"own", "dep"}, Invalidate(f) PROVE Stamped'
    <2>1. UNCHANGED <<memory, disk, boots, at, key, out, floor>>
        BY <1>5 DEF Invalidate
    <2>2. CASE ~registered
        BY <1>5, <2>1, <2>2, CirculatingTypes, StampedKept DEF Invalidate
    <2>3. CASE registered
      <3>1. inv' = inv + 1 /\ stampedDep' \in {dep, stampedDep}
          BY <1>5, <2>3 DEF Invalidate
      <3>2. Circulating' = Circulating
          BY <2>1 DEF Circulating
      <3>3. \A r \in Requests : floor[r] <= stampedDep'
          BY <1>1, <3>1 DEF Stamped
      <3>4. \A r \in Requests : at[r] \in HasKey => key[r].inv <= inv'
          BY <1>1, <1>2, <3>1 DEF Stamped
      <3>5. Untainted' => \A m \in Circulating' : Current(m)'
        <4> SUFFICES ASSUME Untainted', NEW m \in Circulating', m.dep # None
                     PROVE  Current(m)'
            BY DEF Current
        <4>1. Current(m) /\ m.key.inv \in Nat
            BY <2>1, <3>2, CirculatingTypes DEF Stamped, Untainted
        <4>2. m.key.inv <= inv
            BY <4>1 DEF Current
        <4>3. m.key.inv <= inv' /\ m.key.inv # inv'
            BY <1>1, <3>1, <4>1, <4>2
        <4> QED
            BY <2>1, <4>1, <4>3 DEF Current
      <3> QED
          BY <2>1, <3>2, <3>3, <3>4, <3>5 DEF Stamped
    <2> QED
        BY <2>2, <2>3
  <1>6. ASSUME NEW r \in Requests, Spared(r), at'[r] \notin HasKey,
               floor'[r] \in {floor[r], 0, stampedDep},
               UNCHANGED <<inv, stampedDep, boots, disk>>, memory' \in Circulating \cup {None}
        PROVE  Stamped'
      BY <1>6, CirculatingTypes, StampedKept DEF Spared, HasKey
  <1>7. ASSUME NEW r \in Requests, Spared(r), at'[r] \in HasKey \ {"compiled"}, at[r] \in HasKey,
               key'[r] = key[r], floor'[r] = floor[r],
               UNCHANGED <<inv, stampedDep, boots, disk, memory>>
        PROVE  Stamped'
      BY <1>7, CirculatingTypes, StampedKept DEF Spared
  <1>8. ASSUME NEW r \in Requests, Stat(r) PROVE Stamped'
    <2>1. Spared(r) /\ at'[r] = "stat" /\ floor'[r] \in {0, stampedDep}
        BY <1>8 DEF Stat, Goto, Spared, TypeOK
    <2>2. UNCHANGED <<inv, stampedDep, boots, disk, memory>>
        BY <1>8 DEF Stat
    <2> QED
        BY <1>6, <2>1, <2>2, CirculatingTypes DEF HasKey
  <1>9. ASSUME NEW r \in Requests, WarmHit(r) PROVE Stamped'
    <2>1. Spared(r) /\ at'[r] \in {"idle", "cold"} /\ floor'[r] \in {floor[r], 0}
        BY <1>9, RequestMoves DEF WarmHit, Serve, Stages
    <2>2. UNCHANGED <<inv, stampedDep, boots, disk, memory>>
        BY <1>9 DEF WarmHit
    <2> QED
        BY <1>6, <2>1, <2>2, CirculatingTypes DEF HasKey
  <1>10. ASSUME NEW r \in Requests, LoadSource(r) PROVE Stamped'
    <2>1. Spared(r) /\ at'[r] = "loaded" /\ floor'[r] = floor[r]
        BY <1>10, RequestMoves DEF LoadSource, Stages
    <2>2. UNCHANGED <<inv, stampedDep, boots, disk, memory>>
        BY <1>10 DEF LoadSource
    <2> QED
        BY <1>6, <2>1, <2>2, CirculatingTypes DEF HasKey
  <1>11. ASSUME NEW r \in Requests, ReadStamps(r) PROVE Stamped'
    <2>1. /\ Spared(r) /\ at'[r] = "stamped" /\ floor'[r] = floor[r]
          /\ key'[r] = KeyOf(r)
        BY <1>11 DEF ReadStamps, Goto, Spared, TypeOK
    <2>2. UNCHANGED <<inv, stampedDep, boots, disk, memory>> /\ key'[r].inv = inv
        BY <1>11, <2>1 DEF ReadStamps, KeyOf
    <2>3. Circulating' \subseteq Circulating
      <3>1. \A q \in Requests : at'[q] = "compiled" => at[q] = "compiled" /\ out'[q] = out[q]
          BY <2>1 DEF Spared
      <3> QED
          BY <2>2, <3>1 DEF Circulating
    <2>4. \A q \in Requests : q # r => at'[q] = at[q] /\ key'[q] = key[q] /\ floor'[q] = floor[q]
        BY <2>1 DEF Spared
    <2>5. /\ \A q \in Requests : at'[q] \in HasKey => key'[q].inv <= inv
          /\ \A q \in Requests : floor'[q] <= stampedDep
        BY <1>1, <2>1, <2>2, <2>4 DEF Stamped
    <2>6. Untainted' => \A m \in Circulating' : Current(m)'
      <3> SUFFICES ASSUME Untainted', NEW m \in Circulating', m.dep # None
                   PROVE  Current(m)'
          BY DEF Current
      <3>1. Current(m) /\ m.key.inv \in Nat /\ m.dep \in Nat
          BY <2>2, <2>3, CirculatingTypes DEF Untainted, Stamped
      <3>2. m.key.inv = inv => m.dep >= floor[r]
          BY <1>1, <3>1 DEF Current, Stamped
      <3> QED
          BY <2>1, <2>2, <2>4, <3>1, <3>2 DEF Current
    <2> QED
        BY <2>2, <2>3, <2>5, <2>6 DEF Stamped
  <1>12. ASSUME NEW r \in Requests, RecordKey(r) \/ Acquire(r) PROVE Stamped'
    <2>1. /\ Spared(r) /\ at'[r] \in {"keyed", "locked"} /\ at[r] \in {"stamped", "missed"}
          /\ floor'[r] = floor[r] /\ key'[r] = key[r]
        BY <1>12, RequestMoves DEF RecordKey, Acquire, Stages
    <2>2. UNCHANGED <<inv, stampedDep, boots, disk, memory>>
        BY <1>12 DEF RecordKey, Acquire
    <2> QED
        BY <1>7, <2>1, <2>2 DEF HasKey
  <1>13. ASSUME NEW r \in Requests, MemoryHit(r) PROVE Stamped'
    <2>1. UNCHANGED <<inv, stampedDep, boots, disk, memory>>
        BY <1>13 DEF MemoryHit
    <2>2. CASE InMemory(r)
      <3>1. Spared(r) /\ at'[r] = "idle" /\ floor'[r] = 0
          BY <1>13, <2>2, RequestMoves DEF MemoryHit, Serve
      <3> QED
          BY <1>6, <2>1, <3>1, CirculatingTypes DEF HasKey
    <2>3. CASE ~InMemory(r)
      <3>1. /\ Spared(r) /\ at'[r] = "missed" /\ at[r] = "keyed"
            /\ floor'[r] = floor[r] /\ key'[r] = key[r]
          BY <1>13, <2>3, RequestMoves DEF MemoryHit, Stages
      <3> QED
          BY <1>7, <2>1, <3>1 DEF HasKey
    <2> QED
        BY <2>2, <2>3
  <1>14. ASSUME NEW r \in Requests, LockedMemoryHit(r) \/ PersistentHit(r) \/ CompileFails(r)
                                   \/ LoadFails(r)
         PROVE  Stamped'
    <2>1. Ends(r) /\ UNCHANGED <<inv, stampedDep, boots, disk>>
        BY <1>14 DEF LockedMemoryHit, PersistentHit, CompileFails, LoadFails, Serve
    <2>2. memory' = memory \/ memory' \in disk
        BY <1>14 DEF LockedMemoryHit, PersistentHit, CompileFails, LoadFails
    <2> QED
        BY <1>6, <2>1, <2>2, RequestMoves, CirculatingTypes DEF HasKey
  <1>15. ASSUME NEW r \in Requests, Compile(r) PROVE Stamped'
    <2> DEFINE m0 == [key |-> key[r],
                      dep |-> IF source[r] \in Inlining \cup Importing THEN dep ELSE None]
    <2>1. /\ Spared(r) /\ at[r] = "locked" /\ at'[r] = "compiled" /\ floor'[r] = floor[r]
          /\ key'[r] = key[r] /\ out'[r] = m0
        BY <1>15 DEF Compile, Goto, Spared, TypeOK
    <2>2. UNCHANGED <<inv, stampedDep, boots, disk, memory>>
        BY <1>15 DEF Compile
    <2>3. Circulating' \subseteq Circulating \cup {m0}
      <3>1. \A q \in Requests : at'[q] = "compiled" =>
              out'[q] = m0 \/ (at[q] = "compiled" /\ out'[q] = out[q])
          BY <2>1 DEF Spared
      <3> QED
          BY <2>2, <3>1 DEF Circulating
    <2>4. \A q \in Requests : /\ at'[q] \in HasKey => at[q] \in HasKey
                              /\ key'[q] = key[q] /\ floor'[q] = floor[q]
        BY <2>1 DEF Spared, HasKey
    <2>5. m0.key = key[r] /\ m0.dep \in {dep, None}
        OBVIOUS
    <2>6. m0.dep # None => m0.dep = dep /\ m0.key.own \in Inlining \cup Importing
        BY <2>1 DEF Keyed, HasKey
    <2>7. m0.dep # None =>
            /\ m0.key.inv <= inv
            /\ m0.dep >= stampedDep
            /\ \A q \in Requests : m0.dep >= floor[q]
        BY <1>1, <2>1, <2>5, <2>6 DEF Stamped, HasKey
    <2> HIDE DEF m0
    <2>8. Untainted' => \A m \in Circulating' : Current(m)'
      <3> SUFFICES ASSUME Untainted', NEW m \in Circulating', m.dep # None
                   PROVE  Current(m)'
          BY DEF Current
      <3>1. CASE m \in Circulating
        <4>1. Current(m)
            BY <2>2, <3>1 DEF Untainted, Stamped
        <4> QED
            BY <2>2, <2>4, <4>1 DEF Current
      <3>2. CASE m = m0
          BY <2>2, <2>4, <2>7, <3>2 DEF Current
      <3> QED
          BY <2>3, <3>1, <3>2
    <2> QED
        BY <2>2, <2>3, <2>4, <2>6, <2>8 DEF Stamped
  <1>16. ASSUME NEW r \in Requests, Store(r) PROVE Stamped'
    <2>1. /\ at[r] = "compiled" /\ Ends(r) /\ memory' = out[r]
          /\ UNCHANGED <<inv, stampedDep, boots>>
        BY <1>16 DEF Store, Serve
    <2>2. disk' \subseteq disk \cup {out[r]} /\ \A m \in disk' \ disk : m.key.own \notin Inlining
        BY <1>16 DEF Store, Persists
    <2>3. Spared(r) /\ at'[r] = "idle" /\ floor'[r] = 0
        BY <2>1, RequestMoves
    <2> QED
        BY <2>1, <2>2, <2>3, CirculatingTypes, StampedKept DEF Spared, HasKey
  <1> QED
      BY <1>3, <1>4, <1>5, <1>8, <1>9, <1>10, <1>11, <1>12, <1>13, <1>14, <1>15, <1>16
      DEF Next, Step

\* The inductive invariant.
LEMMA CacheInvariant == Spec => [](TypeOK /\ Filled /\ Keyed /\ Stamped)
  <1>1. Init => Keyed
      BY DEF Init, HasKey, OwnFresh, Keyed
  <1>2. Init => Stamped
    <2> SUFFICES ASSUME Init PROVE Stamped
        OBVIOUS
    <2>1. \A r \in Requests : at[r] = "idle" /\ floor[r] = 0
        BY DEF Init
    <2>2. disk = {} /\ memory = None /\ stampedDep = 0
        BY DEF Init
    <2>3. Circulating = {}
        BY <2>1, <2>2 DEF Circulating
    <2> QED
        BY <2>1, <2>2, <2>3 DEF Stamped, HasKey
  <1> QED
      BY <1>1, <1>2, TypeInit, TypeNext, KeyedNext, StampedNext, PTL DEF Spec

\* A module in memory with the current stamps is fresh as long as no on-disk
\* entry of an earlier process embeds a file.
LEMMA StampedFresh ==
    ASSUME TypeOK, Filled, Stamped, Untainted
    PROVE  KeyedFresh
  BY CirculatingTypes DEF Stamped, Current, KeyedFresh

\* The stamps do their work in the key, for every number of requests, of edits
\* and of restarts, where a sheet embeds a file by a data: url only.
THEOREM StampsWork == Importing \subseteq Inlining => (Spec => []KeyedFresh)
  <1> SUFFICES ASSUME Importing \subseteq Inlining PROVE Spec => []KeyedFresh
      OBVIOUS
  <1>1. TypeOK /\ Filled /\ Stamped => KeyedFresh
      BY StampedFresh DEF Untainted
  <1> QED
      BY <1>1, CacheInvariant, PTL

\* They do for @import and @use as well, until the server is started again.
THEOREM StampsWorkTillRestart == Spec => [](boots = 0 => KeyedFresh)
  <1>1. TypeOK /\ Filled /\ Stamped => (boots = 0 => KeyedFresh)
      BY StampedFresh DEF Untainted
  <1> QED
      BY <1>1, CacheInvariant, PTL

\* Every answer that embeds an older file than the last change the watcher was
\* through with when the request arrived is the fast path's, by a key that a
\* stamp overtook, or comes from the on-disk cache of an earlier process: the
\* memory cache, the compile lock and a compile in flight never give one.
THEOREM StaleAnswersByFastKey == Spec => StaleOnlyByFastKey
  <1> USE DEF diskVars, graphVars, watchVars, cacheVars, reqVars
  <1>1. ASSUME TypeOK, Filled, Stamped, Untainted, NEW r \in Requests,
               NEW m \in Circulating, Serve(r, m),
               \/ at[r] \in HasKey /\ m.key.inv = key[r].inv
               \/ m.key.inv = inv
        PROVE  ServedFresh'
    <2>1. response' = [file |-> file[r], floor |-> floor[r], module |-> m]
        BY <1>1 DEF Serve
    <2>2. Current(m) /\ floor[r] <= stampedDep
        BY <1>1 DEF Stamped
    <2>3. floor[r] \in Nat /\ stampedDep \in Nat /\ (m.dep # None => m.dep \in Nat)
        BY <1>1, CirculatingTypes DEF TypeOK
    <2>4. m.dep # None => m.dep >= floor[r]
        BY <1>1, <2>2, <2>3 DEF Current
    <2> QED
        BY <2>1, <2>4 DEF ServedFresh
  <1>2. ASSUME response' = None PROVE ServedFresh'
      BY <1>2 DEF ServedFresh
  <1>3. TypeOK /\ Filled /\ Keyed /\ Stamped /\ [Next]_vars =>
          [Untainted /\ ~((\E r \in Requests : WarmHit(r)) /\ StaleFastKey) => ServedFresh']_vars
    <2> SUFFICES ASSUME TypeOK, Filled, Keyed, Stamped, Next, Untainted,
                        ~((\E r \in Requests : WarmHit(r)) /\ StaleFastKey)
                 PROVE  ServedFresh'
        OBVIOUS
    <2>1. CASE EditOwn \/ EditDep \/ DropKey \/ StampUpdate \/ Evict \/ Restart
        BY <1>2, <2>1 DEF EditOwn, EditDep, DropKey, StampUpdate, Evict, Restart
    <2>2. ASSUME NEW f \in {"own", "dep"}, Invalidate(f) PROVE ServedFresh'
        BY <1>2, <2>2 DEF Invalidate
    <2>3. ASSUME NEW r \in Requests,
                 \/ Stat(r) \/ LoadSource(r) \/ ReadStamps(r) \/ RecordKey(r) \/ Acquire(r)
                 \/ Compile(r) \/ CompileFails(r) \/ LoadFails(r)
          PROVE  ServedFresh'
        BY <1>2, <2>3
        DEF Stat, LoadSource, ReadStamps, RecordKey, Acquire, Compile, CompileFails,
            LoadFails
    <2>4. ASSUME NEW r \in Requests, WarmHit(r) PROVE ServedFresh'
      <3>1. CASE WarmHitFor(r)
        <4>1. memory.key.inv = inv /\ memory \in Circulating
            BY <2>4, <3>1, CirculatingTypes DEF WarmHitFor, StaleFastKey
        <4> QED
            BY <1>1, <2>4, <3>1, <4>1 DEF WarmHit
      <3>2. CASE ~WarmHitFor(r)
          BY <1>2, <2>4, <3>2 DEF WarmHit
      <3> QED
          BY <3>1, <3>2
    <2>5. ASSUME NEW r \in Requests, MemoryHit(r) \/ LockedMemoryHit(r) PROVE ServedFresh'
      <3>1. CASE InMemory(r)
        <4>1. memory \in Circulating /\ memory.key.inv = key[r].inv
            BY <3>1, CirculatingTypes DEF InMemory
        <4>2. Serve(r, memory) /\ at[r] \in HasKey
            BY <2>5, <3>1 DEF MemoryHit, LockedMemoryHit, HasKey
        <4> QED
            BY <1>1, <4>1, <4>2
      <3>2. CASE ~InMemory(r)
          BY <1>2, <2>5, <3>2 DEF MemoryHit, LockedMemoryHit
      <3> QED
          BY <3>1, <3>2
    <2>6. ASSUME NEW r \in Requests, PersistentHit(r) PROVE ServedFresh'
      <3>1. PICK m \in disk : m.key = key[r] /\ Serve(r, m)
          BY <2>6 DEF PersistentHit
      <3>2. at[r] \in HasKey /\ m \in Circulating
          BY <2>6, CirculatingTypes DEF PersistentHit, HasKey
      <3> QED
          BY <1>1, <3>1, <3>2
    <2>7. ASSUME NEW r \in Requests, Store(r) PROVE ServedFresh'
      <3>1. Serve(r, out[r]) /\ at[r] = "compiled"
          BY <2>7 DEF Store
      <3>2. out[r] \in Circulating /\ out[r].key = key[r] /\ at[r] \in HasKey
          BY <3>1, CirculatingTypes DEF Keyed, HasKey
      <3> QED
          BY <1>1, <3>1, <3>2
    <2> QED
        BY <2>1, <2>2, <2>3, <2>4, <2>5, <2>6, <2>7 DEF Next, Step
  <1> QED
      BY <1>3, CacheInvariant, PTL DEF Spec, StaleOnlyByFastKey
===========================================================================
