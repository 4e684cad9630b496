-------------------------- MODULE OptimizerProofs --------------------------
(***************************************************************************)
(* What Optimizer promises for every set of dependencies, of scan results  *)
(* and of registrations.  WakeOwed follows from Covered, which says who    *)
(* looks after a pending dependency at each point of the task, and so does *)
(* that no request is stranded.  CommitKeepsUrls needs to know that what a *)
(* rerun is about to commit has its files (Filed).                         *)
(***************************************************************************)
EXTENDS Optimizer, TLAPS

USE OptimizerAssumption

-----------------------------------------------------------------------------
(* Types.                                                                  *)

\* The versions that are made are versions, and those of URLs are there.
LEMMA VersionTypes ==
    /\ Absent \in Versions
    /\ <<"warm", {}>> \in Versions
    /\ <<"warm", {}>> # Absent
    /\ \A deps \in SUBSET Deps :
         /\ BrowserHash(deps) \in Versions /\ <<"committed", deps>> \in Versions
         /\ BrowserHash(deps) # Absent /\ <<"committed", deps>> # Absent
  BY DEF Versions, Absent, BrowserHash

\* A map without entries is a map.
LEMMA NoDepsType == NoDeps \in [Deps -> Versions]
  BY VersionTypes DEF NoDeps

\* Every step keeps the types.
LEMMA TypeNext ==
    ASSUME TypeOK, [Next]_vars
    PROVE  TypeOK'
  <1> USE DEF liveVars, taskVars, callVars, routeVars
  <1>1. ASSUME NEW c \in Calls, Check(c) \/ CallStep(c)
        PROVE  TypeOK'
    <2>1. CASE Check(c)
        BY <2>1, VersionTypes DEF Check, TypeOK
    <2>2. CASE Look(c) \/ Known(c)
        BY <2>2, VersionTypes DEF Look, Known, Returns, TypeOK
    <2>3. CASE Discover(c)
      <3>1. minted' \in [Calls -> Versions] /\ minted'[c] \in Versions
        <4>1. BrowserHash(Provisional \cup {Import[c]}) \in Versions
            BY VersionTypes DEF Provisional
        <4> QED
            BY <2>3, <4>1 DEF Discover, TypeOK
      <3>2. discovered' \in [Deps -> Versions]
          BY <2>3, <3>1 DEF Discover, TypeOK
      <3> QED
          BY <2>3, <3>1, <3>2 DEF Discover, TypeOK
    <2>4. CASE Pend(c)
        BY <2>4, VersionTypes DEF Pend, TypeOK
    <2>5. CASE PublishEntry(c)
        BY <2>5, VersionTypes DEF PublishEntry, SendMap, TypeOK
    <2>6. CASE Wake(c)
        BY <2>6, VersionTypes DEF Wake, Returns, TypeOK
    <2> QED
        BY <1>1, <2>1, <2>2, <2>3, <2>4, <2>5, <2>6 DEF CallStep
  <1>2. ASSUME NEW d \in Deps, Request(d)
        PROVE  TypeOK'
      BY <1>2, VersionTypes DEF Request, TypeOK
  <1>3. CASE AwaitDep
      BY <1>3, VersionTypes DEF AwaitDep, TypeOK
  <1>4. ASSUME TaskStep
        PROVE  TypeOK'
    <2>1. CASE PublishPlan
        BY <2>1, VersionTypes DEF PublishPlan, SendMap, TypeOK
    <2>2. CASE FirstBundle
        BY <2>2, VersionTypes DEF FirstBundle, TypeOK
    <2>3. CASE ScannerMissed
        BY <2>3, VersionTypes DEF ScannerMissed, Provisional, TypeOK
    <2>4. CASE Release
      <3>1. PICK taken \in SUBSET batch :
              /\ dead => taken = {}
              /\ reload' \in BOOLEAN /\ (taken # batch => reload')
              /\ built' = [d \in Deps |->
                           IF d \in taken
                           THEN IF reload' THEN <<"committed", taken>> ELSE PlannedVersion(d)
                           ELSE IF d \in pending' THEN discovered[d] ELSE Absent]
              /\ disk' = taken
          BY <2>4 DEF Release
      <3>2. taken \in SUBSET Deps /\ <<"committed", taken>> \in Versions
          BY VersionTypes DEF TypeOK
      <3>3. \A d \in Deps : PlannedVersion(d) \in Versions /\ discovered[d] \in Versions
          BY VersionTypes DEF PlannedVersion, TypeOK
      <3>4. built' \in [Deps -> Versions]
          BY <3>1, <3>2, <3>3, VersionTypes
      <3> QED
          BY <2>4, <3>1, <3>2, <3>4 DEF Release, TypeOK
    <2>5. CASE PublishInitial
        BY <2>5, NoDepsType DEF PublishInitial, SendMap, EndsOrAnnounces, TaskEnds,
            Forgets, TypeOK
    <2>6. CASE SnapDiscovered
        BY <2>6, VersionTypes DEF SnapDiscovered, Provisional, TypeOK
    <2>7. CASE SnapPending
        BY <2>7, NoDepsType DEF SnapPending, TaskEnds, Forgets, TypeOK
    <2>8. CASE Bundle
        BY <2>8, VersionTypes DEF Bundle, FailPending, TypeOK
    <2>9. CASE BundleFails
        BY <2>9, VersionTypes DEF BundleFails, FailPending, TypeOK
    <2>10. CASE Unmap
        BY <2>10, VersionTypes DEF Unmap, SendMap, Failing, TypeOK
    <2>11. CASE Tell
        BY <2>11, NoDepsType DEF Tell, TaskEnds, Forgets, TypeOK
    <2>12. CASE Compare
      <3>1. CASE NeedsReload /\ late # {}
          BY <2>12, <3>1, NoDepsType DEF Compare, TaskEnds, Forgets, TypeOK
      <3>2. CASE ~(NeedsReload /\ late # {})
        <4>1. NeedsReload \in BOOLEAN
            BY DEF NeedsReload, TypeOK
        <4>2. \A d \in Deps : KeptVersion(d) \in Versions
            BY VersionTypes DEF KeptVersion, TypeOK
        <4>3. built' \in [Deps -> Versions]
            BY <2>12, <3>2, <4>2, VersionTypes DEF Compare
        <4> QED
            BY <2>12, <3>2, <4>1, <4>3 DEF Compare, TypeOK
      <3> QED
          BY <3>1, <3>2
    <2>13. CASE Commit
        BY <2>13, VersionTypes DEF Commit, TypeOK
    <2>14. CASE Send
      <3>1. MergePending \in [Deps -> Versions]
          BY VersionTypes DEF MergePending, TypeOK
      <3> QED
          BY <2>14, <3>1, NoDepsType DEF Send, SendMap, EndsOrAnnounces, TaskEnds,
              Forgets, TypeOK
    <2>15. CASE Announce
        BY <2>15, NoDepsType DEF Announce, TaskEnds, Forgets, TypeOK
    <2> QED
        BY <1>4, <2>1, <2>2, <2>3, <2>4, <2>5, <2>6, <2>7, <2>8, <2>9, <2>10,
            <2>11, <2>12, <2>13, <2>14, <2>15 DEF TaskStep
  <1>5. CASE UNCHANGED vars
      BY <1>5, VersionTypes DEF vars, TypeOK
  <1> QED
      BY <1>1, <1>2, <1>3, <1>4, <1>5 DEF Next

\* A warm session and a cold one start well typed.
LEMMA TypeInit == Init => TypeOK
  <1> SUFFICES ASSUME Init PROVE TypeOK
      OBVIOUS
  <1> DEFINE Warm(deps) == [d \in Deps |-> IF d \in deps THEN <<"warm", {}>> ELSE Absent]
  <1>1. NoDeps \in [Deps -> Versions]
      BY VersionTypes DEF NoDeps
  <1>2. \A deps \in SUBSET Deps : Warm(deps) \in [Deps -> Versions]
      BY VersionTypes
  <1>3. /\ map \in [Deps -> Versions] /\ discovered \in [Deps -> Versions]
        /\ disk \in SUBSET Deps /\ ready \in BOOLEAN /\ at \in {"scan", "idle"}
    <2>1. CASE at = "scan"
        BY <2>1, <1>1 DEF Init
    <2>2. CASE at # "scan"
      <3>1. PICK earlier \in SUBSET (Deps \ Scanned) :
              /\ at = "idle" /\ ready = TRUE
              /\ disk = Scanned \cup earlier
              /\ map = Warm(disk) /\ discovered = Warm(earlier)
          BY <2>2 DEF Init
      <3>2. disk \in SUBSET Deps /\ earlier \in SUBSET Deps
          BY <3>1
      <3> HIDE DEF Warm
      <3> QED
          BY <3>1, <3>2, <1>2
    <2> QED
        BY <2>1, <2>2
  <1> HIDE DEF Warm
  <1> QED
      BY <1>1, <1>3, VersionTypes DEF Init, NoTask, TypeOK

\* Every variable keeps its type, whatever the compiles register and whatever
\* the bundles do (the structs of optimize.rs).
THEOREM TypeCorrect == Spec => []TypeOK
  BY TypeInit, TypeNext, PTL DEF Spec

-----------------------------------------------------------------------------
(* The wake-ups.                                                           *)

\* A dependency that is pending is one of the batch that the task works on, or
\* else a wake is queued or owed.
Owed(d) == \E c \in Calls : Import[c] = d /\ step[c] \in {"publish", "wake"}

InBatch(d) ==
    /\ d \in batch
    /\ \/ at \in {"first", "hold", "release", "bundle", "compare", "commit"}
       \/ at \in {"unmap", "tell"} /\ bundled

Covered == \A d \in pending : at = "count" \/ wake \/ Owed(d) \/ InBatch(d)

\* No step leaves a pending dependency to a task that sleeps.
LEMMA CoveredNext ==
    ASSUME TypeOK, Covered, [Next]_vars
    PROVE  Covered'
  <1> USE DEF liveVars, taskVars, callVars, routeVars
  <1>1. ASSUME NEW c \in Calls, Check(c) \/ CallStep(c)
        PROVE  Covered'
    <2>1. CASE Check(c)
        BY <2>1 DEF Check, Owed, InBatch, Covered, TypeOK
    <2>2. CASE Look(c) \/ Known(c)
        BY <2>2 DEF Look, Known, Returns, Owed, InBatch, Covered, TypeOK
    <2>3. CASE Discover(c)
        BY <2>3 DEF Discover, Owed, InBatch, Covered, TypeOK
    <2>4. CASE Pend(c)
        BY <2>4 DEF Pend, Owed, InBatch, Covered, TypeOK
    <2>5. CASE PublishEntry(c)
        BY <2>5 DEF PublishEntry, SendMap, Owed, InBatch, Covered, TypeOK
    <2>6. CASE Wake(c)
        BY <2>6 DEF Wake, Returns, Owed, InBatch, Covered, TypeOK
    <2> QED
        BY <1>1, <2>1, <2>2, <2>3, <2>4, <2>5, <2>6 DEF CallStep
  <1>2. ASSUME NEW d \in Deps, Request(d)
        PROVE  Covered'
      BY <1>2 DEF Request, Owed, InBatch, Covered, TypeOK
  <1>3. CASE AwaitDep
      BY <1>3 DEF AwaitDep, Owed, InBatch, Covered, TypeOK
  <1>4. ASSUME TaskStep
        PROVE  Covered'
    <2>1. CASE PublishPlan
        BY <2>1 DEF PublishPlan, SendMap, Owed, InBatch, Covered, TypeOK
    <2>2. CASE FirstBundle
        BY <2>2 DEF FirstBundle, Owed, InBatch, Covered, TypeOK
    <2>3. CASE ScannerMissed
        BY <2>3 DEF ScannerMissed, Owed, InBatch, Covered, TypeOK
    <2>4. CASE Release
        BY <2>4 DEF Release, Owed, InBatch, Covered, TypeOK
    <2>5. CASE PublishInitial
        BY <2>5 DEF PublishInitial, SendMap, EndsOrAnnounces, TaskEnds,
            Forgets, Owed, InBatch, Covered, TypeOK
    <2>6. CASE SnapDiscovered
        BY <2>6 DEF SnapDiscovered, Owed, InBatch, Covered, TypeOK
    <2>7. CASE SnapPending
        BY <2>7 DEF SnapPending, TaskEnds, Forgets, Owed, InBatch, Covered,
            TypeOK
    <2>8. CASE Bundle
        BY <2>8 DEF Bundle, FailPending, Owed, InBatch, Covered, TypeOK
    <2>9. CASE BundleFails
        BY <2>9 DEF BundleFails, FailPending, Owed, InBatch, Covered, TypeOK
    <2>10. CASE Unmap
        BY <2>10 DEF Unmap, SendMap, Owed, InBatch, Covered, TypeOK
    <2>11. CASE Tell
        BY <2>11 DEF Tell, TaskEnds, Forgets, Owed, InBatch, Covered, TypeOK
    <2>12. CASE Compare
        BY <2>12 DEF Compare, TaskEnds, Forgets, Owed, InBatch, Covered,
            TypeOK
    <2>13. CASE Commit
        BY <2>13 DEF Commit, Owed, InBatch, Covered, TypeOK
    <2>14. CASE Send
        BY <2>14 DEF Send, SendMap, EndsOrAnnounces, TaskEnds, Forgets, Owed,
            InBatch, Covered, TypeOK
    <2>15. CASE Announce
        BY <2>15 DEF Announce, TaskEnds, Forgets, Owed, InBatch, Covered,
            TypeOK
    <2> QED
        BY <1>4, <2>1, <2>2, <2>3, <2>4, <2>5, <2>6, <2>7, <2>8, <2>9, <2>10,
            <2>11, <2>12, <2>13, <2>14, <2>15 DEF TaskStep
  <1>5. CASE UNCHANGED vars
      BY <1>5 DEF vars, Owed, InBatch, Covered, TypeOK
  <1> QED
      BY <1>1, <1>2, <1>3, <1>4, <1>5 DEF Next

\* The optimizer never sleeps on a dependency a compile has registered: the
\* wake of register_missing, the queue and the batches leave no gap.
THEOREM NoLostWake == Spec => []WakeOwed
  <1>1. Init => TypeOK /\ Covered
      BY TypeInit DEF Init, Covered
  <1>2. TypeOK /\ Covered /\ [Next]_vars => (TypeOK /\ Covered)'
      BY TypeNext, CoveredNext
  <1>3. Covered => WakeOwed
      BY DEF Covered, Owed, InBatch, WakeOwed
  <1> QED
      BY <1>1, <1>2, <1>3, PTL DEF Spec

-----------------------------------------------------------------------------
(* The held requests.                                                      *)

\* The task has taken dependencies out of pending and not sent the map yet.
AboutToSend == at \in {"publish", "unmap", "send"}

\* A request that waits for the next map waits for a reason: its dependency is
\* still held, or the map without the hold is about to be sent.
HeldForReason == asked # NoDep /\ ~looks => Held(asked) \/ AboutToSend

\* A request at the dep route is never stranded.  A map has come since it
\* looked, or one is about to; or its dependency is held and the optimizer
\* will come to it: it is in the batch at work, or a wake is queued or owed.
NeverStranded ==
    asked # NoDep =>
        \/ looks \/ AboutToSend
        \/ /\ Held(asked)
           /\ at = "count" \/ wake \/ Owed(asked) \/ InBatch(asked)

\* A step that takes a dependency out of pending is on its way to a send, and
\* every send makes the request look again.
LEMMA HeldNext ==
    ASSUME TypeOK, HeldForReason, [Next]_vars
    PROVE  HeldForReason'
  <1> USE DEF liveVars, taskVars, callVars, routeVars
  <1>1. ASSUME SendMap(map') PROVE HeldForReason'
      BY <1>1 DEF SendMap, HeldForReason
  <1>2. CASE PublishPlan \/ PublishInitial \/ Unmap \/ Send
               \/ \E c \in Calls : PublishEntry(c)
      BY <1>1, <1>2 DEF PublishPlan, PublishInitial, Unmap, Send, PublishEntry, SendMap
  <1>3. CASE Release \/ Commit \/ BundleFails
    <2>1. AboutToSend'
        BY <1>3 DEF Release, Commit, BundleFails, AboutToSend
    <2> QED
        BY <2>1 DEF HeldForReason
  <1>4. CASE Bundle
    <2>1. CASE at' = "unmap"
        BY <2>1 DEF HeldForReason, AboutToSend
    <2>2. CASE at' # "unmap"
        BY <1>4, <2>2 DEF Bundle, HeldForReason, Held, AboutToSend
    <2> QED
        BY <2>1, <2>2
  <1>5. ASSUME NEW c \in Calls, Check(c) \/ Look(c) \/ Known(c) \/ Discover(c) \/ Pend(c)
                              \/ Wake(c)
        PROVE  HeldForReason'
    <2>1. UNCHANGED <<map, asked, looks, at>> /\ pending \subseteq pending'
        BY <1>5 DEF Check, Look, Known, Discover, Pend, Wake
    <2> QED
        BY <2>1 DEF HeldForReason, Held, AboutToSend
  <1>6. CASE FirstBundle \/ ScannerMissed \/ SnapDiscovered \/ SnapPending \/ Tell \/ Compare
               \/ Announce
    <2>1. UNCHANGED <<map, pending, asked, looks>> /\ ~AboutToSend
        BY <1>6 DEF FirstBundle, ScannerMissed, SnapDiscovered, SnapPending, Tell, Compare,
            Announce, AboutToSend
    <2> QED
        BY <2>1 DEF HeldForReason, Held
  <1>7. CASE AwaitDep \/ \E d \in Deps : Request(d)
      BY <1>7 DEF AwaitDep, Request, HeldForReason, Held
  <1>8. CASE UNCHANGED vars
      BY <1>8 DEF vars, HeldForReason, Held, AboutToSend
  <1> QED
      BY <1>2, <1>3, <1>4, <1>5, <1>6, <1>7, <1>8 DEF Next, CallStep, TaskStep

\* await_dep never waits for a map that nobody will send: between its look and
\* its wait no release of the optimizer goes unnoticed.
THEOREM RequestsNeverStranded == Spec => []NeverStranded
  <1>1. Init => TypeOK /\ Covered /\ HeldForReason
      BY TypeInit DEF Init, Covered, HeldForReason
  <1>2. TypeOK /\ Covered /\ HeldForReason /\ [Next]_vars => (TypeOK /\ Covered /\ HeldForReason)'
      BY TypeNext, CoveredNext, HeldNext
  <1>3. TypeOK /\ Covered /\ HeldForReason => NeverStranded
      BY DEF Covered, HeldForReason, Held, NeverStranded
  <1> QED
      BY <1>1, <1>2, <1>3, PTL DEF Spec

-----------------------------------------------------------------------------
(* What a rerun commits.                                                   *)

\* What the bundle took has its file, and so has every entry of the map that
\* was made from it.
Filed ==
    /\ got \subseteq disk
    /\ at \in {"commit", "send"} => \A d \in Deps : built[d] # Absent => d \in disk
    /\ got # {} => at \in {"unmap", "tell", "compare"}

\* No step of the task or of a compile takes a file away from what the bundle
\* took.
LEMMA FiledNext ==
    ASSUME TypeOK, Filed, [Next]_vars
    PROVE  Filed'
  <1> USE DEF liveVars, taskVars, callVars, routeVars
  <1>1. ASSUME NEW c \in Calls, Check(c) \/ CallStep(c)
        PROVE  Filed'
    <2>1. UNCHANGED <<disk, at, got, built>>
        BY <1>1 DEF CallStep, Check, Look, Known, Discover, Pend, PublishEntry, Wake
    <2> QED
        BY <2>1 DEF Filed
  <1>2. CASE AwaitDep \/ UNCHANGED vars \/ \E d \in Deps : Request(d)
    <2>1. UNCHANGED <<disk, at, got, built>>
        BY <1>2 DEF AwaitDep, Request, vars
    <2> QED
        BY <2>1 DEF Filed
  <1>3. CASE PublishPlan \/ FirstBundle \/ ScannerMissed \/ Release \/ SnapDiscovered
      BY <1>3 DEF PublishPlan, FirstBundle, ScannerMissed, Release, SnapDiscovered, Filed
  <1>4. CASE PublishInitial \/ SnapPending \/ Send \/ Announce
      BY <1>4 DEF PublishInitial, SnapPending, Send, Announce, EndsOrAnnounces, TaskEnds,
          Forgets, Filed
  <1>5. CASE Bundle \/ BundleFails
      BY <1>5 DEF Bundle, BundleFails, Filed
  <1>6. CASE Unmap \/ Tell \/ Commit
      BY <1>6 DEF Unmap, Tell, Commit, TaskEnds, Forgets, Filed
  <1>7. CASE Compare
    <2>1. CASE NeedsReload /\ late # {}
        BY <1>7, <2>1 DEF Compare, TaskEnds, Forgets, Filed
    <2>2. CASE ~(NeedsReload /\ late # {})
      <3>1. got' = {} /\ disk' = disk /\ at' = "commit"
          BY <1>7, <2>2 DEF Compare
      <3>2. \A d \in Deps : built'[d] # Absent => d \in got
          BY <1>7, <2>2 DEF Compare
      <3> QED
          BY <3>1, <3>2 DEF Filed
    <2> QED
        BY <2>1, <2>2
  <1> QED
      BY <1>1, <1>2, <1>3, <1>4, <1>5, <1>6, <1>7 DEF Next, TaskStep

\* For every set of dependencies and of compiles: the map a rerun sends takes
\* no working URL away (merge_pending, and the files of the bundle).
THEOREM CommitsKeepUrls == Spec => CommitKeepsUrls
  <1>1. Init => TypeOK /\ Filed
      BY TypeInit DEF Init, NoTask, Filed
  <1>2. TypeOK /\ Filed /\ [Next]_vars => (TypeOK /\ Filed)'
      BY TypeNext, FiledNext
  <1>3. ASSUME TypeOK, Filed, Send, NEW d \in Deps, Works(d)
        PROVE  Works(d)'
    <2>1. /\ map' = MergePending /\ at = "send"
          /\ UNCHANGED <<discovered, pending, disk>>
        BY <1>3 DEF Send, SendMap
    <2>2. map'[d] = IF built[d] = Absent /\ d \in pending THEN map[d] ELSE built[d]
        BY <2>1 DEF MergePending
    <2>3. built[d] # Absent => d \in disk
        BY <1>3, <2>1 DEF Filed
    <2>4. CASE d \in pending
        BY <1>3, <2>1, <2>2, <2>3, <2>4 DEF Works
    <2>5. CASE d \notin pending
        BY <1>3, <2>1, <2>2, <2>3, <2>5 DEF Works
    <2> QED
        BY <2>4, <2>5
  <1>4. TypeOK /\ Filed /\ [Next]_vars =>
          [Send => \A d \in Deps : Works(d) => Works(d)']_vars
      BY <1>3
  <1> QED
      BY <1>1, <1>2, <1>4, PTL DEF Spec, CommitKeepsUrls
============================================================================
