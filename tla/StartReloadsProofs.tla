------------------------ MODULE StartReloadsProofs -------------------------
(***************************************************************************)
(* What the page reloads of Start dev promise, for any files, batches and  *)
(* pages: a held reload can be released, a counted change is never         *)
(* forgotten, and no page's stamp claims a change it was rendered without. *)
(***************************************************************************)
EXTENDS StartReloads, HmrGateProofs

\* The counts, in order: what is published was counted, what is counted is
\* installed, and only a run between its install and its bump is uncounted.
Counts ==
    /\ installed \in Nat /\ latest \in Nat /\ published \in Nat
    /\ published <= latest
    /\ installed = IF worker = "built" THEN latest + 1 ELSE latest

\* What a page knows is no newer than the counts it was read from.
PageCounts ==
    /\ has \in [Pages -> Nat] /\ seen \in [Pages -> Nat]
    /\ content \in [Pages -> Nat]
    /\ \A p \in Pages : /\ has[p] <= latest
                        /\ seen[p] <= published
                        /\ content[p] <= installed

StartTypes ==
    /\ startUnseen \in SUBSET Paths
    /\ rebundle \in SUBSET Paths
    /\ worker \in {"idle", "building", "built", "counted", "unheld"}
    /\ page \in [Pages -> {"away", "stamped", "loaded", "connected"}]

\* The inductive invariant.
StartInv ==
    /\ GateInv /\ StartTypes /\ Counts /\ PageCounts
    /\ ReloadReleasable /\ NoMissedReload /\ StampHonest

\* A flush that released something is on its way to flushed().
SignalOwed == \E t \in tasks : t.stage = "signal" /\ (t.dispatch \/ t.paths # {})

-----------------------------------------------------------------------------

\* The invariant gives the types the model checker looks at.
LEMMA StartInvTypes == StartInv => TypeOK
<1>1. SUFFICES ASSUME StartInv PROVE TypeOK
  OBVIOUS
<1>2. latest \in 0 .. installed /\ published \in 0 .. latest
  BY <1>1 DEF StartInv, Counts
<1>3. has \in [Pages -> 0 .. latest] /\ seen \in [Pages -> 0 .. published]
      /\ content \in [Pages -> 0 .. installed]
  BY <1>1 DEF StartInv, Counts, PageCounts
<1>4. QED
  BY <1>1, <1>2, <1>3 DEF StartInv, GateInv, StartTypes, Counts, TypeOK

\* A fresh server has counted nothing.
LEMMA StartInitInv == Init => StartInv
<1>1. SUFFICES ASSUME Init PROVE StartInv
  OBVIOUS
<1>2. GateInv
  BY <1>1, GateInitInv DEF Init
<1>3. StartTypes /\ Counts /\ PageCounts
  BY <1>1 DEF Init, StartTypes, Counts, PageCounts
<1>4. ReloadReleasable /\ NoMissedReload /\ StampHonest
  BY <1>1 DEF Init, GateInit, ReloadReleasable, NoMissedReload, StampHonest
<1>5. QED
  BY <1>2, <1>3, <1>4 DEF StartInv

\* A step of the gate keeps a held reload releasable, and passes the duty to
\* tell the pages from the hold set to the flush and on to its signal.
LEMMA GateKeepsDuty ==
    ASSUME StartInv, GateStep
    PROVE  /\ ReloadReleasable'
           /\ heldReload \/ pending # {} \/ flushSignal \/ SignalOwed
                => heldReload' \/ pending' # {} \/ flushSignal' \/ SignalOwed'
<1> USE DEF SignalOwed
<1>0. ReloadReleasable /\ heldReload \in BOOLEAN /\ tasks \in SUBSET Task
  BY DEF StartInv, GateInv, GateTypeOK
<1>1. ASSUME NEW paths \in SUBSET unseen, HandleBatch(paths)
      PROVE  /\ heldReload' = heldReload /\ pending \subseteq pending'
             /\ tasks \subseteq tasks' /\ flushSignal' = flushSignal
  BY <1>0, <1>1 DEF HandleBatch, Hold, holdVars
<1>2. ASSUME Drain
      PROVE  /\ heldReload' = FALSE
             /\ heldReload \/ pending # {} \/ SignalOwed => SignalOwed'
             /\ flushSignal' = flushSignal
  <2> DEFINE flush == [stage |-> "signal", paths |-> pending, dispatch |-> heldReload]
  <2>1. tasks' = tasks \cup {flush} /\ heldReload' = FALSE
        /\ flushSignal' = flushSignal
    BY <1>2 DEF Drain
  <2>2. flush.stage = "signal" /\ flush.paths = pending /\ flush.dispatch = heldReload
    OBVIOUS
  <2> HIDE DEF flush
  <2>3. QED
    BY <2>1, <2>2
<1>3. ASSUME NEW t \in tasks, FlushSends(t)
      PROVE  /\ UNCHANGED holdVars
             /\ flushSignal \/ SignalOwed => flushSignal' \/ SignalOwed'
  <2>1. UNCHANGED holdVars /\ flushSignal' = (flushSignal \/ t.dispatch \/ t.paths # {})
        /\ tasks \ {t} \subseteq tasks'
    BY <1>3 DEF FlushSends, Signal, Replace
  <2>2. QED
    BY <2>1
<1>4. ASSUME NEW t \in tasks, BatchWatched(t) \/ Decide(t)
      PROVE  /\ UNCHANGED <<holdVars, flushSignal>>
             /\ SignalOwed => SignalOwed'
  <2>1. UNCHANGED <<holdVars, flushSignal>> /\ t.stage # "signal"
        /\ tasks \ {t} \subseteq tasks'
    BY <1>4 DEF BatchWatched, Decide, Replace
  <2>2. QED
    BY <2>1
<1>5. ASSUME NEW t \in timers, CapTimer(t)
      PROVE  UNCHANGED <<pending, heldReload, tasks, flushSignal>>
  BY <1>5 DEF CapTimer
<1>6. QED
  <2>1. CASE \E paths \in SUBSET unseen : HandleBatch(paths)
    BY <1>0, <1>1, <2>1 DEF ReloadReleasable
  <2>2. CASE EditorFlush \/ \E t \in due : CapFlush(t)
    <3>1. Drain
      BY <2>2 DEF EditorFlush, CapFlush
    <3>2. QED
      BY <1>2, <3>1 DEF ReloadReleasable
  <2>3. CASE \E t \in timers : CapTimer(t)
    BY <1>0, <1>5, <2>3 DEF ReloadReleasable
  <2>4. CASE \E t \in tasks : FlushSends(t) \/ BatchWatched(t) \/ Decide(t)
    BY <1>0, <1>3, <1>4, <2>4 DEF ReloadReleasable, holdVars
  <2>5. QED
    BY <2>1, <2>2, <2>3, <2>4 DEF GateStep

-----------------------------------------------------------------------------
(* Every step keeps the invariant.                                         *)

\* hold, flush, bump, flushed and the pages, in any order.
LEMMA StartNextInv == StartInv /\ [Next]_vars => StartInv'
<1>1. SUFFICES ASSUME StartInv, [Next]_vars PROVE StartInv'
  OBVIOUS
<1> USE DEF StartInv
<1>2. ASSUME NEW p \in Paths, DiskChange(p) PROVE StartInv'
  <2>1. GateInv'
    BY <1>1, <1>2, GateNextInv DEF DiskChange, GateNext
  <2>2. StartTypes' /\ Counts' /\ PageCounts' /\ StampHonest'
    BY <1>1, <1>2
    DEF DiskChange, epochVars, pageVars, StartTypes, Counts, PageCounts, StampHonest
  <2>3. ReloadReleasable' /\ NoMissedReload'
    BY <1>1, <1>2
    DEF DiskChange, Change, holdVars, epochVars, ReloadReleasable,
        NoMissedReload, EpochsLocked
  <2>4. QED
    BY <2>1, <2>2, <2>3
<1>3. CASE GateStep
  <2>1. GateInv'
    BY <1>1, <1>3, GateNextInv DEF GateStep, GateNext
  <2>2. StartTypes' /\ Counts' /\ PageCounts' /\ StampHonest'
    BY <1>1, <1>3
    DEF GateStep, startVars, epochVars, pageVars, StartTypes, Counts,
        PageCounts, StampHonest
  <2>3. ReloadReleasable'
    BY <1>1, <1>3, GateKeepsDuty
  <2>4. NoMissedReload'
    <3>1. UNCHANGED <<published, latest, worker>>
      BY <1>3 DEF GateStep, startVars, epochVars
    <3>2. QED
      BY <1>1, <1>3, <3>1, GateKeepsDuty DEF NoMissedReload, SignalOwed, EpochsLocked
  <2>5. QED
    BY <2>1, <2>2, <2>3, <2>4
<1>4. ASSUME NEW paths \in SUBSET startUnseen, StartBatch(paths) PROVE StartInv'
  <2>1. paths \in SUBSET Paths
    BY <1>1 DEF StartTypes
  <2>2. StartTypes' /\ Counts' /\ PageCounts' /\ StampHonest'
    BY <1>1, <1>4, <2>1
    DEF StartBatch, epochVars, pageVars, StartTypes, Counts, PageCounts, StampHonest
  <2>3. CASE Held(paths) = {}
    <3>1. UNCHANGED gateVars
      BY <1>4, <2>3 DEF StartBatch, gateVars
    <3>2. GateInv'
      BY <1>1, <3>1, GateNextInv
    <3>3. ReloadReleasable' /\ NoMissedReload'
      BY <1>1, <1>4, <3>1
      DEF StartBatch, gateVars, holdVars, epochVars, ReloadReleasable,
          NoMissedReload, EpochsLocked
    <3>4. QED
      BY <2>2, <3>2, <3>3
  <2>4. CASE Held(paths) # {}
    <3>1. Hold(paths, TRUE)
          /\ UNCHANGED <<mtime, deleted, owed, unseen, lastFlush, due, tasks, flushSignal>>
      BY <1>4, <2>4 DEF StartBatch, diskVars
    <3>2. /\ clock' \in Nat \ {0} /\ clock <= clock'
          /\ pending' \in SUBSET Paths
          /\ heldReload' \in BOOLEAN
          /\ timers' \in SUBSET (1 .. clock' - 1)
          /\ CapWatches'
      BY <1>1, <2>1, <3>1, HoldInv
    <3>3. /\ clock \in Nat /\ clock' \in Nat
          /\ mtime \in [Paths -> 0 .. clock - 1] /\ lastFlush \in 0 .. clock - 1
          /\ due \in SUBSET (1 .. clock - 1)
      BY <1>1, <3>2 DEF GateInv, GateTypeOK
    <3>4. 0 .. clock - 1 \subseteq 0 .. clock' - 1 /\ 1 .. clock - 1 \subseteq 1 .. clock' - 1
      BY <3>2, <3>3, RangesGrow
    <3>5. mtime' \in [Paths -> 0 .. clock' - 1]
      BY <3>1, <3>3, <3>4, Zenon
    <3>6. GateInv'
      BY <1>1, <3>1, <3>2, <3>3, <3>4, <3>5 DEF GateInv, GateTypeOK
    <3>7. pending' # {}
      BY <2>4, <3>1 DEF Hold
    <3>8. ReloadReleasable' /\ NoMissedReload'
      BY <3>7 DEF ReloadReleasable, NoMissedReload
    <3>9. QED
      BY <2>2, <3>6, <3>8
  <2>5. QED
    BY <2>3, <2>4
<1>5. CASE WorkerStep
  <2>1. UNCHANGED <<gateVars, startUnseen, pageVars>>
    BY <1>5
    DEF WorkerStep, TakeRun, Install, BumpCount, BumpReadsReload, BumpReadsPending
  <2>2. GateInv' /\ ReloadReleasable' /\ StampHonest'
    BY <1>1, <2>1, GateNextInv
    DEF gateVars, holdVars, pageVars, ReloadReleasable, StampHonest
  <2>3. StartTypes'
    BY <1>1, <1>5, <2>1
    DEF WorkerStep, TakeRun, Install, BumpCount, BumpReadsReload,
        BumpReadsPending, pageVars, StartTypes
  <2>4. Counts' /\ published <= published' /\ latest <= latest' /\ installed <= installed'
    BY <1>1, <1>5
    DEF WorkerStep, TakeRun, Install, BumpCount, BumpReadsReload,
        BumpReadsPending, Publish, epochVars, StartTypes, Counts
  <2>5. PageCounts'
    <3>1. \A x, y, z \in Nat : x <= y /\ y <= z => x <= z
      OBVIOUS
    <3>2. /\ installed \in Nat /\ latest \in Nat /\ published \in Nat
          /\ installed' \in Nat /\ latest' \in Nat /\ published' \in Nat
      BY <1>1, <2>4 DEF Counts
    <3>3. UNCHANGED <<has, seen, content>>
      BY <2>1 DEF pageVars
    <3>4. QED
      BY <1>1, <2>4, <3>1, <3>2, <3>3 DEF PageCounts
  <2>6. NoMissedReload'
    <3>1. UNCHANGED <<heldReload, pending, flushSignal, tasks>>
      BY <2>1 DEF gateVars, holdVars
    <3>2. QED
      BY <1>1, <1>5, <3>1
      DEF WorkerStep, TakeRun, Install, BumpCount, BumpReadsReload,
          BumpReadsPending, Publish, epochVars, Counts, NoMissedReload,
          EpochsLocked
  <2>7. QED
    BY <2>2, <2>3, <2>4, <2>5, <2>6
<1>6. CASE Flushed
  <2>1. GateInv'
    BY <1>1, <1>6
    DEF Flushed, diskVars, holdVars, GateInv, GateTypeOK, CapWatches
  <2>2. Counts' /\ published' = latest' /\ published <= published'
        /\ UNCHANGED <<latest, installed>>
    BY <1>1, <1>6 DEF Flushed, Publish, Counts
  <2>3. StartTypes' /\ PageCounts' /\ StampHonest'
    BY <1>1, <1>6, <2>2
    DEF Flushed, pageVars, StartTypes, Counts, PageCounts, StampHonest
  <2>4. ReloadReleasable' /\ NoMissedReload'
    BY <1>1, <1>6, <2>2
    DEF Flushed, holdVars, Counts, ReloadReleasable, NoMissedReload
  <2>5. QED
    BY <2>1, <2>2, <2>3, <2>4
<1>7. ASSUME NEW p \in Pages, PageStep(p) \/ Disconnect(p) PROVE StartInv'
  <2>1. UNCHANGED <<gateVars, startUnseen, rebundle, worker, epochVars>>
    BY <1>7
    DEF PageStep, StampDocument, RenderDocument, Connect, FellBehind, Disconnect
  <2>2. GateInv' /\ ReloadReleasable' /\ NoMissedReload' /\ Counts'
    BY <1>1, <2>1, GateNextInv
    DEF gateVars, holdVars, epochVars, ReloadReleasable, NoMissedReload,
        EpochsLocked, Counts
  <2>3. StartTypes'
    BY <1>1, <1>7, <2>1
    DEF PageStep, StampDocument, RenderDocument, Connect, FellBehind,
        Disconnect, StartTypes
  <2>4. PageCounts'
    BY <1>1, <1>7, <2>1
    DEF PageStep, StampDocument, RenderDocument, Connect, FellBehind,
        Disconnect, epochVars, Counts, PageCounts
  <2>5. StampHonest'
    BY <1>1, <1>7
    DEF PageStep, StampDocument, RenderDocument, Connect, FellBehind,
        Disconnect, StartTypes, Counts, PageCounts, StampHonest
  <2>6. QED
    BY <2>2, <2>3, <2>4, <2>5
<1>8. CASE UNCHANGED vars
  <2>1. UNCHANGED <<gateVars, startUnseen, rebundle, worker, installed, latest,
                    published, page, has, seen, content>>
    BY <1>8 DEF vars, startVars, epochVars, pageVars
  <2>2. GateInv'
    BY <1>1, <2>1, GateNextInv
  <2>3. QED
    BY <1>1, <2>1, <2>2
    DEF gateVars, holdVars, StartTypes, Counts, PageCounts, ReloadReleasable,
        NoMissedReload, EpochsLocked, StampHonest
<1>9. QED
  BY <1>1, <1>2, <1>3, <1>4, <1>5, <1>6, <1>7, <1>8 DEF Next

-----------------------------------------------------------------------------
(* Theorems.                                                               *)

\* The invariant holds of every state the Start server reaches.
THEOREM StartInvariant == Spec => []StartInv
  BY StartInitInv, StartNextInv, PTL DEF Spec

\* Every field keeps its type; no page and no count runs ahead of another.
THEOREM StartTypeCorrect == Spec => []TypeOK
  BY StartInvariant, StartInvTypes, PTL

\* The reload bit is never set with nothing pending beside it, with the Start
\* watcher holding too.
THEOREM ReloadsReleasable == Spec => []ReloadReleasable
<1>1. StartInv => ReloadReleasable
  BY DEF StartInv
<1>2. QED
  BY <1>1, StartInvariant, PTL

\* hold_reload keeps the gate's promise: whatever both watchers hold, a cap
\* timer will release.
THEOREM StartCapWatches == Spec => []CapWatches
<1>1. StartInv => CapWatches
  BY DEF StartInv, GateInv
<1>2. QED
  BY <1>1, StartInvariant, PTL

\* bump, hold and flush in any order: a counted change is published, held, or
\* about to be published.
THEOREM NeverMissesReload == Spec => []NoMissedReload
<1>1. StartInv => NoMissedReload
  BY DEF StartInv
<1>2. QED
  BY <1>1, StartInvariant, PTL

\* A page's stamp never claims a change its document was rendered without.
THEOREM StampsHonest == Spec => []StampHonest
<1>1. StartInv => StampHonest
  BY DEF StartInv
<1>2. QED
  BY <1>1, StartInvariant, PTL

-----------------------------------------------------------------------------
(* The gate beside the Start server.                                       *)

\* A step of the composition is one of the gate, or the Start server's own: its
\* watcher holds more, or its receiver takes the flush signal, and neither
\* touches what the dev watcher and the gate's tasks have in sight.
LEMMA GateOrStart ==
    ASSUME [Next]_vars
    PROVE  \/ [GateNext]_gateVars
           \/ /\ pending \subseteq pending'
              /\ UNCHANGED <<mtime, deleted, owed, unseen, lastFlush, tasks>>
<1>1. ASSUME NEW p \in Paths, DiskChange(p) PROVE GateNext
  BY <1>1 DEF DiskChange, GateNext
<1>2. CASE GateStep
  BY <1>2 DEF GateStep, GateNext
<1>3. ASSUME NEW paths \in SUBSET startUnseen, StartBatch(paths)
      PROVE  /\ pending \subseteq pending'
             /\ UNCHANGED <<mtime, deleted, owed, unseen, lastFlush, tasks>>
  BY <1>3 DEF StartBatch, Hold, holdVars, diskVars
<1>4. CASE WorkerStep
  BY <1>4
  DEF WorkerStep, TakeRun, Install, BumpCount, BumpReadsReload, BumpReadsPending
<1>5. CASE Flushed
  BY <1>5 DEF Flushed, holdVars, diskVars
<1>6. ASSUME NEW p \in Pages, PageStep(p) \/ Disconnect(p) PROVE UNCHANGED gateVars
  BY <1>6 DEF PageStep, StampDocument, RenderDocument, Connect, FellBehind, Disconnect
<1>7. CASE UNCHANGED vars
  BY <1>7 DEF vars
<1>8. QED
  BY <1>1, <1>2, <1>3, <1>4, <1>5, <1>6, <1>7 DEF Next

\* With the Start watcher holding beside it, the dev watcher still loses no
\* change of a one-file batch: a path that the Start server's hold put into the
\* hold set, and a flush took out of it again, is dispatched when its own batch
\* comes.
THEOREM StartNeverLoses ==
    ASSUME BatchSize <= 1
    PROVE  Spec => []NothingLost
<1>1. Init => SingleInv
  BY GateInitInv, FS_EmptySet DEF Init, GateInit, SingleInv, NothingLost
<1>2. SingleInv /\ StartInv' /\ [Next]_vars => SingleInv'
  <2>1. SUFFICES ASSUME SingleInv, StartInv', [Next]_vars PROVE SingleInv'
    OBVIOUS
  <2>2. CASE [GateNext]_gateVars
    BY <2>1, <2>2, SingleNextInv
  <2>3. CASE /\ pending \subseteq pending'
             /\ UNCHANGED <<mtime, deleted, owed, unseen, lastFlush, tasks>>
    BY <2>1, <2>3 DEF SingleInv, NothingLost, Underway, StartInv
  <2>4. QED
    BY <2>1, <2>2, <2>3, GateOrStart
<1>3. SingleInv => NothingLost
  BY DEF SingleInv
<1>4. QED
  BY <1>1, <1>2, <1>3, StartInvariant, PTL DEF Spec

\* Batches of any size beside the Start server lose no deletion and no write
\* since the last flush.
THEOREM StartLossesLeftOut == Spec => []LostOnlyLeftOut
<1>1. Init => LostOnlyLeftOut
  BY DEF Init, GateInit, LostOnlyLeftOut, Lost
<1>2. StartInv /\ StartInv' /\ LostOnlyLeftOut /\ [Next]_vars => LostOnlyLeftOut'
  <2>1. SUFFICES ASSUME StartInv, StartInv', LostOnlyLeftOut, [Next]_vars
                 PROVE  LostOnlyLeftOut'
    OBVIOUS
  <2>2. GateInv /\ GateInv'
    BY <2>1 DEF StartInv
  <2>3. CASE [GateNext]_gateVars
    BY <2>1, <2>2, <2>3, LeftOutNext
  <2>4. CASE /\ pending \subseteq pending'
             /\ UNCHANGED <<mtime, deleted, owed, unseen, lastFlush, tasks>>
    <3>1. Lost' \subseteq Lost
      BY <2>4 DEF Lost, InSight, Underway
    <3>2. QED
      BY <2>1, <2>4, <3>1 DEF LostOnlyLeftOut, LeftOut
  <2>5. QED
    BY <2>1, <2>3, <2>4, GateOrStart
<1>3. QED
  BY <1>1, <1>2, StartInvariant, PTL DEF Spec

-----------------------------------------------------------------------------
(* Sockets.                                                                *)

\* The socket of a page that is behind has not looked at the published count
\* yet, so that fell_behind still wakes up: no publish falls between the look
\* on connect and the first wait.
SocketsAwake ==
    \A p \in Pages : page[p] = "connected" /\ Behind(p) => seen[p] # published

\* A page that missed a published change is told of it.
THEOREM SocketsStayAwake == Spec => []SocketsAwake
<1>1. Init => SocketsAwake
  BY DEF Init, SocketsAwake
<1>2. StartInv /\ StartInv' /\ SocketsAwake /\ [Next]_vars => SocketsAwake'
  <2>1. SUFFICES ASSUME StartInv, StartInv', SocketsAwake, [Next]_vars
                 PROVE  SocketsAwake'
    OBVIOUS
  <2>2. /\ published \in Nat /\ published' \in Nat
        /\ page \in [Pages -> {"away", "stamped", "loaded", "connected"}]
        /\ has \in [Pages -> Nat] /\ seen \in [Pages -> Nat]
        /\ \A p \in Pages : seen[p] <= published
    BY <2>1 DEF StartInv, StartTypes, Counts, PageCounts
  <2>3. ASSUME NEW q \in Pages, PageStep(q) \/ Disconnect(q) PROVE SocketsAwake'
    <3>1. published' = published
      BY <2>3
      DEF PageStep, StampDocument, RenderDocument, Connect, FellBehind, Disconnect, epochVars
    <3>2. CASE StampDocument(q) \/ RenderDocument(q) \/ Disconnect(q)
      BY <2>1, <2>2, <3>1, <3>2
      DEF StampDocument, RenderDocument, Disconnect, SocketsAwake, Behind
    <3>3. CASE Connect(q) \/ FellBehind(q)
      BY <2>1, <2>2, <3>1, <3>3 DEF Connect, FellBehind, SocketsAwake, Behind
    <3>4. QED
      BY <2>3, <3>2, <3>3 DEF PageStep
  <2>4. CASE ~ \E q \in Pages : PageStep(q) \/ Disconnect(q)
    <3>1. UNCHANGED <<page, has, seen>>
      BY <2>1, <2>4
      DEF Next, DiskChange, GateStep, StartBatch, WorkerStep, TakeRun, Install, BumpCount,
          BumpReadsReload, BumpReadsPending, Flushed, vars, startVars, pageVars
    <3>2. published' = published \/ published' > published
      <4>1. CASE BumpReadsPending \/ Flushed
        BY <2>1, <4>1
        DEF BumpReadsPending, Flushed, Publish, StartInv, Counts
      <4>2. CASE ~(BumpReadsPending \/ Flushed)
        BY <2>1, <2>4, <4>2
        DEF Next, DiskChange, GateStep, StartBatch, WorkerStep, TakeRun, Install,
            BumpCount, BumpReadsReload, vars, startVars, epochVars
      <4>3. QED
        BY <4>1, <4>2
    <3>3. QED
      BY <2>1, <2>2, <3>1, <3>2 DEF SocketsAwake, Behind
  <2>5. QED
    BY <2>3, <2>4
<1>3. QED
  BY <1>1, <1>2, StartInvariant, PTL DEF Spec
=============================================================================
