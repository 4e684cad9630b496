---------------------------- MODULE CompileCache ----------------------------
(***************************************************************************)
(* How the dev server answers requests for one stylesheet that pulls in    *)
(* another file (oj_server/src/module_pipeline.rs, ensure_module_as): the  *)
(* warm path by file stamp, the content key with the graph's stamps, the   *)
(* memory and the on-disk cache, the compile lock.  Beside the requests    *)
(* the watcher stamps the graph and drops fast-path keys (watch.rs,        *)
(* invalidate_changed; hmr.rs, decide_file), and the server may restart.   *)
(*                                                                         *)
(* A file's content is its version; no two versions share mtime and size.  *)
(***************************************************************************)
EXTENDS Naturals

CONSTANTS
    Requests,
    Hmr,          \* a change is also decided (server.hmr, no gate holding)
    Inlining,     \* versions of the sheet that inline the file as a data: url
    Importing,    \* versions that embed it by @import or @use
    MaxOwn, MaxDep, MaxBoots,   \* bounds on edits of the two and on restarts
    None

ASSUME CacheAssumption ==
    /\ Hmr \in BOOLEAN /\ None \notin Requests
    /\ MaxOwn \in Nat /\ MaxDep \in Nat /\ MaxBoots \in Nat
    /\ Inlining \subseteq Nat /\ Importing \subseteq Nat

VARIABLES
    own, dep,     \* the versions of the sheet and of the file on disk
    changed,      \* of the two, those with a change the watcher has not seen
    registered,   \* the sheet and its import are in the graph
    inv,          \* the sheet's last_invalidation_timestamp
    imp,          \* the file's last_hmr_timestamp: imports_timestamp
    watcher,      \* how far the watcher is with the change it took
    taken,        \* the file of that change
    mtimeKey,     \* mtime_keys of the sheet
    memory,       \* MemoryCache of the sheet
    disk,         \* the persistent cache
    lock,         \* compile_locks of the sheet
    at,           \* where each request is
    file,         \* the version it found on disk when it arrived
    source,       \* the version it loaded
    key,          \* its compile key
    out,          \* what it compiled
    floor,        \* the version of the file that it must be no older than
    response,     \* what the step answers a request with, or None
    stampedDep,   \* the file's version at its last stamp, or at boot
    boots         \* how often the server was started again

cacheVars == <<mtimeKey, memory, disk>>
graphVars == <<registered, inv, imp>>
diskVars == <<own, dep, changed>>
watchVars == <<watcher, taken>>
reqVars == <<at, file, source, key, out, floor>>
vars == <<diskVars, graphVars, watchVars, cacheVars, lock, reqVars, response,
          stampedDep, boots>>

Key == [own : 0 .. MaxOwn, imp : Nat, inv : Nat]
Module == [key : Key, dep : (0 .. MaxDep) \cup {None}]
Stages == {"idle", "stat", "cold", "loaded", "stamped", "keyed", "missed",
           "locked", "compiled"}

TypeOK ==
    /\ own \in 0 .. MaxOwn
    /\ dep \in 0 .. MaxDep
    /\ changed \in SUBSET {"own", "dep"}
    /\ registered \in BOOLEAN
    /\ inv \in Nat
    /\ imp \in Nat
    /\ watcher \in {"idle", "stamped", "dropped", "updated"} /\ taken \in {"own", "dep"}
    /\ mtimeKey \in [file : 0 .. MaxOwn, key : Key] \cup {None}
    /\ memory \in Module \cup {None}
    /\ disk \in SUBSET Module
    /\ lock \in Requests \cup {None}
    /\ at \in [Requests -> Stages]
    /\ file \in [Requests -> 0 .. MaxOwn] /\ source \in [Requests -> 0 .. MaxOwn]
    /\ key \in [Requests -> Key \cup {None}] /\ out \in [Requests -> Module \cup {None}]
    /\ floor \in [Requests -> 0 .. MaxDep]
    /\ response \in [file : 0 .. MaxOwn, floor : 0 .. MaxDep, module : Module]
                       \cup {None}
    /\ stampedDep \in 0 .. dep
    /\ boots \in 0 .. MaxBoots

Init ==
    /\ own = 0
    /\ dep = 0
    /\ changed = {}
    /\ registered = FALSE
    /\ inv = 0
    /\ imp = 0
    /\ watcher = "idle" /\ taken = "own"
    /\ mtimeKey = None
    /\ memory = None
    /\ disk = {}
    /\ lock = None
    /\ at = [r \in Requests |-> "idle"]
    /\ file = [r \in Requests |-> 0] /\ source = [r \in Requests |-> 0]
    /\ key = [r \in Requests |-> None] /\ out = [r \in Requests |-> None]
    /\ floor = [r \in Requests |-> 0]
    /\ response = None
    /\ stampedDep = 0
    /\ boots = 0

-----------------------------------------------------------------------------
(* The files and the watcher.                                              *)

EditOwn ==
    /\ own < MaxOwn
    /\ own' = own + 1
    /\ changed' = changed \cup {"own"}
    /\ response' = None
    /\ UNCHANGED <<dep, graphVars, watchVars, cacheVars, lock, reqVars, stampedDep, boots>>

EditDep ==
    /\ dep < MaxDep
    /\ dep' = dep + 1
    /\ changed' = changed \cup {"dep"}
    /\ response' = None
    /\ UNCHANGED <<own, graphVars, watchVars, cacheVars, lock, reqVars, stampedDep, boots>>

\* invalidate_changed, under the graph's lock: a change of either file
\* hard-invalidates the sheet, once the graph knows them.
Invalidate(f) ==
    /\ watcher = "idle" /\ f \in changed
    /\ changed' = changed \ {f}
    /\ IF registered
       THEN /\ inv' = inv + 1
            /\ watcher' = "stamped" /\ taken' = f
            /\ stampedDep' = IF f = "dep" THEN dep ELSE stampedDep
       ELSE UNCHANGED <<inv, watchVars, stampedDep>>
    /\ response' = None
    /\ UNCHANGED <<own, dep, registered, imp, cacheVars, lock, reqVars, boots>>

WatcherDone == watcher' = "idle" /\ taken' = "own"

\* The fast-path keys go under a lock of their own, after the stamp.
DropKey ==
    /\ watcher \in {"stamped", "updated"}
    /\ mtimeKey' = None
    /\ IF watcher = "stamped" /\ Hmr
       THEN watcher' = "dropped" /\ UNCHANGED taken
       ELSE WatcherDone
    /\ response' = None
    /\ UNCHANGED <<diskVars, graphVars, memory, disk, lock, reqVars, stampedDep, boots>>

\* decide_file stamps the chain of the update; two updates may fall in one
\* millisecond.
StampUpdate ==
    /\ watcher = "dropped"
    /\ IF taken = "dep" THEN imp' \in {imp + 1} \cup ({imp} \ {0}) ELSE UNCHANGED imp
    /\ watcher' = "updated"
    /\ response' = None
    /\ UNCHANGED <<taken, diskVars, registered, inv, cacheVars, lock, reqVars, stampedDep, boots>>

\* The memory cache goes over its budget for another module.
Evict ==
    /\ memory # None
    /\ memory' = None
    /\ response' = None
    /\ UNCHANGED <<diskVars, graphVars, watchVars, mtimeKey, disk, lock, reqVars,
                   stampedDep, boots>>

\* The process ends and starts again: only the on-disk cache is left.
Restart ==
    /\ boots < MaxBoots
    /\ boots' = boots + 1
    /\ changed' = {}
    /\ registered' = FALSE
    /\ inv' = 0
    /\ imp' = 0
    /\ WatcherDone
    /\ mtimeKey' = None
    /\ memory' = None
    /\ lock' = None
    /\ at' = [r \in Requests |-> "idle"]
    /\ file' = [r \in Requests |-> 0] /\ source' = [r \in Requests |-> 0]
    /\ key' = [r \in Requests |-> None] /\ out' = [r \in Requests |-> None]
    /\ floor' = [r \in Requests |-> 0]
    /\ response' = None
    /\ stampedDep' = dep
    /\ UNCHANGED <<own, dep, disk>>

-----------------------------------------------------------------------------
(* A request, up to its key.                                               *)

Goto(r, stage) == at' = [at EXCEPT ![r] = stage]

\* file_stamp.  Once the watcher is through with the changes, the sheet must be
\* no older than the last stamp.
Stat(r) ==
    /\ at[r] = "idle"
    /\ Goto(r, "stat")
    /\ file' = [file EXCEPT ![r] = own]
    /\ floor' = [floor EXCEPT ![r] =
                   IF watcher = "idle" /\ changed = {} THEN stampedDep ELSE 0]
    /\ response' = None
    /\ UNCHANGED <<diskVars, graphVars, watchVars, cacheVars, lock, source, key, out,
                   stampedDep, boots>>

Ends(r) ==
    /\ Goto(r, "idle")
    /\ file' = [file EXCEPT ![r] = 0] /\ source' = [source EXCEPT ![r] = 0]
    /\ key' = [key EXCEPT ![r] = None] /\ out' = [out EXCEPT ![r] = None]
    /\ floor' = [floor EXCEPT ![r] = 0]

\* register_in_graph, on every path that hands the module out.
Serve(r, module) ==
    /\ registered' = TRUE
    /\ response' = [file |-> file[r], floor |-> floor[r], module |-> module]
    /\ Ends(r)

WarmHitFor(r) ==
    /\ mtimeKey # None /\ mtimeKey.file = file[r]
    /\ memory # None /\ memory.key = mtimeKey.key

WarmHit(r) ==
    /\ at[r] = "stat"
    /\ IF WarmHitFor(r)
       THEN Serve(r, memory)
       ELSE /\ Goto(r, "cold")
            /\ response' = None
            /\ UNCHANGED <<registered, file, source, key, out, floor>>
    /\ UNCHANGED <<diskVars, inv, imp, watchVars, cacheVars, lock, stampedDep, boots>>

LoadSource(r) ==
    /\ at[r] = "cold"
    /\ Goto(r, "loaded")
    /\ source' = [source EXCEPT ![r] = own]
    /\ response' = None
    /\ UNCHANGED <<diskVars, graphVars, watchVars, cacheVars, lock, file, key, out, floor,
                   stampedDep, boots>>

\* The plugins' load hook or the read of the file fails.
LoadFails(r) ==
    /\ at[r] = "cold"
    /\ Ends(r)
    /\ response' = None
    /\ UNCHANGED <<diskVars, graphVars, watchVars, cacheVars, lock, stampedDep, boots>>

\* compile_key: the stamps are read under the graph's lock ...
KeyOf(r) == [own |-> source[r], imp |-> imp, inv |-> inv]

ReadStamps(r) ==
    /\ at[r] = "loaded"
    /\ Goto(r, "stamped")
    /\ key' = [key EXCEPT ![r] = KeyOf(r)]
    /\ response' = None
    /\ UNCHANGED <<diskVars, graphVars, watchVars, cacheVars, lock, file, source, out, floor,
                   stampedDep, boots>>

\* Faulty form: records the key against no file stamp.
UnstampedKey(r) == [file |-> None, key |-> key[r]]

\* Faulty form: stats the file again for the key.
RestattedKey(r) == [file |-> own, key |-> key[r]]

FastKey(r) == [file |-> file[r], key |-> key[r]]

\* ... and the key is recorded against the file's stamp under another lock.
RecordKey(r) ==
    /\ at[r] = "stamped"
    /\ mtimeKey' = FastKey(r)
    /\ Goto(r, "keyed")
    /\ response' = None
    /\ UNCHANGED <<diskVars, graphVars, watchVars, memory, disk, lock, file, source, key, out,
                   floor, stampedDep, boots>>

-----------------------------------------------------------------------------
(* The caches and the compile.                                             *)

InMemory(r) == memory # None /\ memory.key = key[r]

MemoryHit(r) ==
    /\ at[r] = "keyed"
    /\ IF InMemory(r) THEN Serve(r, memory)
       ELSE /\ Goto(r, "missed")
            /\ response' = None
            /\ UNCHANGED <<registered, file, source, key, out, floor>>
    /\ UNCHANGED <<diskVars, inv, imp, watchVars, cacheVars, lock, stampedDep, boots>>

Acquire(r) ==
    /\ at[r] = "missed" /\ lock = None
    /\ lock' = r
    /\ Goto(r, "locked")
    /\ response' = None
    /\ UNCHANGED <<diskVars, graphVars, watchVars, cacheVars, file, source, key, out, floor,
                   stampedDep, boots>>

LockedMemoryHit(r) ==
    /\ at[r] = "locked" /\ InMemory(r)
    /\ Serve(r, memory)
    /\ lock' = None
    /\ UNCHANGED <<diskVars, inv, imp, watchVars, cacheVars, stampedDep, boots>>

PersistentHit(r) ==
    /\ at[r] = "locked" /\ ~InMemory(r)
    /\ \E module \in disk :
         /\ module.key = key[r]
         /\ memory' = module
         /\ Serve(r, module)
    /\ lock' = None
    /\ UNCHANGED <<diskVars, inv, imp, watchVars, mtimeKey, disk, stampedDep, boots>>

\* The compile reads the file, if the sheet embeds it.  It runs for a key that
\* is on disk as well: an entry that imports a plugin's virtual module is
\* transformed again (needs_retransform).
Compile(r) ==
    /\ at[r] = "locked" /\ ~InMemory(r)
    /\ Goto(r, "compiled")
    /\ out' = [out EXCEPT ![r] =
                 [key |-> key[r],
                  dep |-> IF source[r] \in Inlining \cup Importing THEN dep ELSE None]]
    /\ response' = None
    /\ UNCHANGED <<diskVars, graphVars, watchVars, cacheVars, lock, file, source, key, floor,
                   stampedDep, boots>>

CompileFails(r) ==
    /\ at[r] = "locked" /\ ~InMemory(r)
    /\ lock' = None
    /\ Ends(r)
    /\ response' = None
    /\ UNCHANGED <<diskVars, graphVars, watchVars, cacheVars, stampedDep, boots>>

\* Faulty form: persists what embeds a file.
PersistsAny(module) == TRUE

\* Code with a data: url stays in memory.
Persists(module) == module.key.own \notin Inlining

\* store_module: the on-disk cache has one entry per key, and the queue to it
\* may drop or lose this one.
Store(r) ==
    /\ at[r] = "compiled"
    /\ \/ disk' = disk
       \/ /\ Persists(out[r])
          /\ disk' = {m \in disk : m.key # key[r]} \cup {out[r]}
    /\ memory' = out[r]
    /\ Serve(r, out[r])
    /\ lock' = None
    /\ UNCHANGED <<diskVars, inv, imp, watchVars, mtimeKey, stampedDep, boots>>

Step(r) ==
    \/ WarmHit(r) \/ LoadSource(r) \/ LoadFails(r) \/ ReadStamps(r) \/ RecordKey(r)
    \/ MemoryHit(r) \/ Acquire(r) \/ LockedMemoryHit(r) \/ PersistentHit(r)
    \/ Compile(r) \/ CompileFails(r) \/ Store(r)

Next ==
    \/ EditOwn \/ EditDep
    \/ \E f \in {"own", "dep"} : Invalidate(f)
    \/ DropKey \/ StampUpdate \/ Evict \/ Restart
    \/ \E r \in Requests : Stat(r) \/ Step(r)

Spec == Init /\ [][Next]_vars

-----------------------------------------------------------------------------
(* Properties.                                                             *)

\* The stamps do their work in the key: a module in memory whose key carries
\* the sheet's current stamps embeds the file no older than it was when the
\* last of them was made, in-flight compiles, evictions and restarts included.
KeyedFresh ==
    memory # None /\ memory.key.inv = inv /\ memory.key.imp = imp /\ memory.dep # None
        => memory.dep >= stampedDep

\* A request is never served an older version of the sheet itself than the
\* one on disk when it arrived, by the fast path or by a concurrent compile.
OwnFresh == response # None => response.module.key.own >= response.file

\* last_invalidation_timestamp is "Part of the compile cache key, so the next
\* request re-transforms it, and a compile already in flight cannot be served
\* for it": once the watcher is through with a change, a new request gets the
\* embedded file no older than that change.
ServedFresh ==
    response # None /\ response.module.dep # None
        => response.module.dep >= response.floor
=============================================================================
