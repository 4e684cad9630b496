--------------------------- MODULE HmrGateProofs ---------------------------
(***************************************************************************)
(* What the editor's gate promises for any set of files, and any size of   *)
(* the watcher's batches: a hold set is never left without the cap timer   *)
(* that releases it.  That no change is lost is proved for batches of one  *)
(* file; for larger ones the model checker shows that it does not hold,    *)
(* and what is proved is which changes alone can be lost.                  *)
(***************************************************************************)
EXTENDS HmrGate, FiniteSetTheorems, TLAPS

\* The inductive invariant of the gate.
GateInv == GateTypeOK /\ CapWatches

-----------------------------------------------------------------------------
(* The gate's own steps.                                                   *)

\* An instant of the past stays one.
LEMMA RangesGrow ==
    ASSUME NEW j \in Nat, NEW k \in Nat, j <= k
    PROVE  0 .. j - 1 \subseteq 0 .. k - 1 /\ 1 .. j - 1 \subseteq 1 .. k - 1
  OBVIOUS

\* hold, by either watcher: the first path of a hold set arms a timer that no
\* flush has outdated, since every flush so far is older than the clock.
LEMMA HoldInv ==
    ASSUME GateInv, NEW paths \in SUBSET Paths, NEW reload \in BOOLEAN,
           Hold(paths, reload), UNCHANGED <<lastFlush, due>>
    PROVE  /\ clock' \in Nat \ {0} /\ clock <= clock'
           /\ pending' \in SUBSET Paths
           /\ heldReload' \in BOOLEAN
           /\ timers' \in SUBSET (1 .. clock' - 1)
           /\ CapWatches'
<1>1. clock \in Nat \ {0} /\ lastFlush \in 0 .. clock - 1
      /\ timers \in SUBSET (1 .. clock - 1)
  BY DEF GateInv, GateTypeOK
<1>2. pending' \in SUBSET Paths /\ heldReload' \in BOOLEAN
  BY DEF GateInv, GateTypeOK, Hold, Held
<1>3. CASE pending = {}
  <2>1. timers' = timers \cup {clock} /\ clock' = clock + 1
    BY <1>3 DEF Hold
  <2>2. clock \in timers' /\ lastFlush' < clock
    BY <1>1, <2>1
  <2>3. timers' \in SUBSET (1 .. clock' - 1)
    BY <1>1, <2>1
  <2>4. CapWatches'
    BY <2>2 DEF CapWatches
  <2>5. QED
    BY <1>1, <1>2, <2>1, <2>3, <2>4
<1>4. CASE pending # {}
  <2>1. UNCHANGED <<timers, clock>>
    BY <1>4 DEF Hold
  <2>2. CapWatches'
    BY <1>4, <2>1 DEF GateInv, CapWatches
  <2>3. QED
    BY <1>1, <1>2, <2>1, <2>2
<1>5. QED
  BY <1>3, <1>4

\* A flush empties the hold set, and its instant is the newest.
LEMMA DrainInv ==
    ASSUME GateInv, Drain, due' \in SUBSET due
    PROVE  GateInv'
<1>1. [stage |-> "signal", paths |-> pending, dispatch |-> heldReload] \in Task
  BY DEF GateInv, GateTypeOK, Task
<1>2. tasks' \in SUBSET Task
  BY <1>1 DEF Drain, GateInv, GateTypeOK
<1>3. GateTypeOK'
  <2>1. clock' = clock + 1 /\ lastFlush' = clock /\ pending' = {}
        /\ heldReload' = FALSE
        /\ UNCHANGED <<mtime, deleted, owed, unseen, timers, flushSignal>>
    BY DEF Drain, diskVars
  <2>2. clock' \in Nat \ {0} /\ lastFlush' \in 0 .. clock' - 1
    BY <2>1 DEF GateInv, GateTypeOK
  <2>3. mtime' \in [Paths -> 0 .. clock' - 1]
    BY <2>1 DEF GateInv, GateTypeOK
  <2>4. timers' \in SUBSET (1 .. clock' - 1) /\ due' \in SUBSET (1 .. clock' - 1)
    BY <2>1 DEF GateInv, GateTypeOK
  <2>5. QED
    BY <1>2, <2>1, <2>2, <2>3, <2>4 DEF GateInv, GateTypeOK
<1>4. CapWatches'
  BY DEF Drain, CapWatches
<1>5. QED
  BY <1>3, <1>4 DEF GateInv

\* The stages of a spawned batch or a flush.
LEMMA TaskInv ==
    ASSUME GateInv, NEW t \in tasks,
           FlushSends(t) \/ BatchWatched(t) \/ Decide(t)
    PROVE  GateInv'
<1>1. t \in Task
  BY DEF GateInv, GateTypeOK
<1>2. [t EXCEPT !.stage = "decide"] \in Task
  BY <1>1 DEF Task
<1>3. tasks' \in SUBSET Task
  <2>1. CASE FlushSends(t)
    BY <2>1, <1>2 DEF FlushSends, Replace, GateInv, GateTypeOK
  <2>2. CASE BatchWatched(t)
    BY <2>2, <1>2 DEF BatchWatched, Replace, GateInv, GateTypeOK
  <2>3. CASE Decide(t)
    BY <2>3 DEF Decide, Replace, GateInv, GateTypeOK
  <2>4. QED
    BY <2>1, <2>2, <2>3
<1>4. flushSignal' \in BOOLEAN
  BY <1>1 DEF FlushSends, BatchWatched, Decide, Signal, Task, GateInv, GateTypeOK
<1>5. owed' \in SUBSET Paths
  BY DEF FlushSends, BatchWatched, Decide, diskVars, GateInv, GateTypeOK
<1>6. UNCHANGED <<clock, mtime, deleted, unseen, holdVars, lastFlush, due>>
  BY DEF FlushSends, BatchWatched, Decide, diskVars
<1>7. QED
  BY <1>3, <1>4, <1>5, <1>6 DEF holdVars, GateInv, GateTypeOK, CapWatches

\* A new gate holds nothing.
LEMMA GateInitInv == GateInit => GateInv
<1>1. SUFFICES ASSUME GateInit PROVE GateInv
  OBVIOUS
<1>2. mtime \in [Paths -> 0 .. clock - 1] /\ lastFlush \in 0 .. clock - 1
  BY <1>1 DEF GateInit
<1>3. clock \in Nat \ {0}
  BY <1>1 DEF GateInit
<1>4. QED
  BY <1>1, <1>2, <1>3 DEF GateInit, GateInv, GateTypeOK, CapWatches

\* Every step of the gate keeps the invariant.
LEMMA GateNextInv == GateInv /\ [GateNext]_gateVars => GateInv'
<1>1. SUFFICES ASSUME GateInv, [GateNext]_gateVars PROVE GateInv'
  OBVIOUS
<1>2. ASSUME NEW p \in Paths, Change(p) PROVE GateInv'
  <2>1. GateTypeOK'
    <3>1. CASE Write(p)
      <4>1. mtime' \in [Paths -> 0 .. clock' - 1]
        BY <1>1, <3>1 DEF Write, GateInv, GateTypeOK
      <4>2. QED
        BY <1>1, <1>2, <3>1, <4>1
        DEF Change, Write, holdVars, GateInv, GateTypeOK
    <3>2. CASE Delete(p)
      BY <1>1, <1>2, <3>2 DEF Change, Delete, holdVars, GateInv, GateTypeOK
    <3>3. QED
      BY <1>2, <3>1, <3>2 DEF Change
  <2>2. CapWatches'
    BY <1>1, <1>2 DEF Change, holdVars, GateInv, CapWatches
  <2>3. QED
    BY <2>1, <2>2 DEF GateInv
<1>3. ASSUME NEW paths \in SUBSET unseen, HandleBatch(paths) PROVE GateInv'
  <2>1. paths \in SUBSET Paths
    BY <1>1, <1>3 DEF GateInv, GateTypeOK
  <2>2. tasks' \in SUBSET Task
    <3> DEFINE d == Held(paths) = {}
               batch == [stage |-> "watch", paths |-> paths, dispatch |-> d]
    <3>1. d \in BOOLEAN
      OBVIOUS
    <3>2. tasks' = tasks \cup {batch}
      BY <1>3 DEF HandleBatch
    <3> HIDE DEF d
    <3>3. batch \in Task
      BY <2>1, <3>1 DEF Task
    <3>4. QED
      BY <1>1, <3>2, <3>3 DEF GateInv, GateTypeOK
  <2>3. CASE Held(paths) = {}
    BY <1>1, <1>3, <2>2, <2>3
    DEF HandleBatch, holdVars, diskVars, GateInv, GateTypeOK, CapWatches
  <2>4. CASE Held(paths) # {}
    <3>1. /\ Hold(paths, FALSE)
          /\ unseen' = unseen \ paths
          /\ UNCHANGED <<diskVars, lastFlush, due, flushSignal>>
      BY <1>3, <2>4 DEF HandleBatch
    <3>2. /\ clock' \in Nat \ {0} /\ clock <= clock'
          /\ pending' \in SUBSET Paths
          /\ heldReload' \in BOOLEAN
          /\ timers' \in SUBSET (1 .. clock' - 1)
          /\ CapWatches'
      BY <1>1, <2>1, <3>1, HoldInv
    <3>3. /\ clock \in Nat /\ clock' \in Nat /\ clock <= clock'
          /\ mtime \in [Paths -> 0 .. clock - 1] /\ lastFlush \in 0 .. clock - 1
          /\ due \in SUBSET (1 .. clock - 1)
          /\ UNCHANGED <<mtime, lastFlush, due>>
      BY <1>1, <3>1, <3>2 DEF diskVars, GateInv, GateTypeOK
    <3>4. mtime' \in [Paths -> 0 .. clock' - 1]
      <4>1. 0 .. clock - 1 \subseteq 0 .. clock' - 1
        BY <3>3, RangesGrow
      <4>2. QED
        BY <3>3, <4>1, Zenon
    <3>5. lastFlush' \in 0 .. clock' - 1 /\ due' \in SUBSET (1 .. clock' - 1)
      BY <3>3, RangesGrow
    <3>6. QED
      BY <1>1, <2>2, <3>1, <3>2, <3>4, <3>5 DEF diskVars, GateInv, GateTypeOK
  <2>5. QED
    BY <2>3, <2>4
<1>4. CASE EditorFlush
  BY <1>1, <1>4, DrainInv DEF EditorFlush
<1>5. ASSUME NEW t \in timers, CapTimer(t) PROVE GateInv'
  BY <1>1, <1>5 DEF CapTimer, diskVars, GateInv, GateTypeOK, CapWatches
<1>6. ASSUME NEW t \in due, CapFlush(t) PROVE GateInv'
  BY <1>1, <1>6, DrainInv DEF CapFlush
<1>7. ASSUME NEW t \in tasks, FlushSends(t) \/ BatchWatched(t) \/ Decide(t)
      PROVE  GateInv'
  BY <1>1, <1>7, TaskInv
<1>8. CASE UNCHANGED gateVars
  BY <1>1, <1>8
  DEF gateVars, diskVars, holdVars, GateInv, GateTypeOK, CapWatches
<1>9. QED
  BY <1>1, <1>2, <1>3, <1>4, <1>5, <1>6, <1>7, <1>8 DEF GateNext

-----------------------------------------------------------------------------
(* Theorems.                                                               *)

\* The gate's fields keep their types, and no instant it keeps is ahead of
\* the clock.
THEOREM GateTypeCorrect == GateSpec => []GateTypeOK
<1>1. GateInv => GateTypeOK
  BY DEF GateInv
<1>2. QED
  BY <1>1, GateInitInv, GateNextInv, PTL DEF GateSpec

\* However hold, editor flushes and cap timers interleave, a hold set has a
\* timer that will release it, for any batch size.
THEOREM CapAlwaysWatches == GateSpec => []CapWatches
<1>1. GateInv => CapWatches
  BY DEF GateInv
<1>2. QED
  BY <1>1, GateInitInv, GateNextInv, PTL DEF GateSpec

-----------------------------------------------------------------------------
(* What may be lost.                                                       *)

\* The changes that some party still answers for.
InSight == unseen \cup pending \cup Underway

\* The changes that nobody has told the browser of and nobody will.
Lost == owed \ InSight

\* What is on its way and is not at the end of its way stays on its way.
LEMMA UnderwayKept ==
    ASSUME NEW t \in tasks, NEW p \in Underway,
           NEW next, Replace(t, next),
           p \in t.paths /\ (t.stage # "watch" \/ t.dispatch)
             => \E u \in next : p \in u.paths /\ (u.stage # "watch" \/ u.dispatch)
    PROVE  p \in Underway'
<1>1. PICK u \in tasks : p \in u.paths /\ (u.stage # "watch" \/ u.dispatch)
  BY DEF Underway
<1>2. CASE u = t
  BY <1>1, <1>2 DEF Underway, Replace
<1>3. CASE u # t
  BY <1>1, <1>3 DEF Underway, Replace
<1>4. QED
  BY <1>2, <1>3

\* A flush takes what it drains along.
LEMMA DrainKeeps ==
    ASSUME Drain
    PROVE  Lost' \subseteq Lost
<1> DEFINE flush == [stage |-> "signal", paths |-> pending, dispatch |-> heldReload]
<1>1. tasks' = tasks \cup {flush} /\ UNCHANGED <<owed, unseen>>
  BY DEF Drain, diskVars
<1>2. flush.stage = "signal" /\ flush.paths = pending
  OBVIOUS
<1> HIDE DEF flush
<1>3. Underway \cup pending \subseteq Underway'
  BY <1>1, <1>2 DEF Underway
<1>4. QED
  BY <1>1, <1>3 DEF Lost, InSight

\* Only a batch that is held in part loses anything: what it does not hold.
LEMMA BatchLoses ==
    ASSUME GateInv, NEW paths \in SUBSET unseen, HandleBatch(paths)
    PROVE  Lost' \subseteq Lost \cup (IF Held(paths) = {} THEN {} ELSE paths \ Held(paths))
<1> DEFINE d == Held(paths) = {}
           batch == [stage |-> "watch", paths |-> paths, dispatch |-> d]
<1>1. tasks' = tasks \cup {batch} /\ unseen' = unseen \ paths /\ owed' = owed
  BY DEF HandleBatch, diskVars
<1>2. batch.paths = paths /\ (batch.dispatch <=> Held(paths) = {})
  OBVIOUS
<1> HIDE DEF batch
<1>3. Underway \subseteq Underway'
  BY <1>1 DEF Underway
<1>4. CASE Held(paths) = {}
  <2>1. paths \subseteq Underway' /\ pending' = pending
    BY <1>1, <1>2, <1>4 DEF Underway, HandleBatch, holdVars
  <2>2. QED
    BY <1>1, <1>3, <1>4, <2>1 DEF Lost, InSight
<1>5. CASE Held(paths) # {}
  <2>1. pending' = pending \cup Held(paths)
    BY <1>5 DEF HandleBatch, Hold
  <2>2. QED
    BY <1>1, <1>3, <1>5, <2>1 DEF Lost, InSight
<1>6. QED
  BY <1>4, <1>5

\* Every other step of the gate keeps what is in sight until it is decided.
LEMMA StepKeeps ==
    ASSUME GateInv, [GateNext]_gateVars, ~ \E paths \in SUBSET unseen : HandleBatch(paths)
    PROVE  Lost' \subseteq Lost
<1> USE DEF Lost, InSight
<1>1. ASSUME NEW p \in Paths, Change(p) PROVE Lost' \subseteq Lost
  BY <1>1 DEF Change, Write, Delete, holdVars, Underway
<1>2. CASE EditorFlush
  BY <1>2, DrainKeeps DEF EditorFlush
<1>3. ASSUME NEW t \in timers, CapTimer(t) PROVE Lost' \subseteq Lost
  BY <1>3 DEF CapTimer, diskVars, Underway
<1>4. ASSUME NEW t \in due, CapFlush(t) PROVE Lost' \subseteq Lost
  BY <1>4, DrainKeeps DEF CapFlush
<1>5. ASSUME NEW t \in tasks, FlushSends(t) PROVE Lost' \subseteq Lost
  <2> DEFINE next == {[x EXCEPT !.stage = "decide"] : x \in {y \in {t} : y.paths # {}}}
  <2>1. Replace(t, next) /\ UNCHANGED <<owed, unseen, pending>>
    BY <1>5 DEF FlushSends, diskVars, holdVars
  <2>2. t \in Task
    BY DEF GateInv, GateTypeOK
  <2>3. ASSUME NEW p \in t.paths PROVE \E u \in next : p \in u.paths /\ u.stage = "decide"
    <3>1. [t EXCEPT !.stage = "decide"] \in next
      OBVIOUS
    <3>2. /\ [t EXCEPT !.stage = "decide"].paths = t.paths
          /\ [t EXCEPT !.stage = "decide"].stage = "decide"
      BY <2>2 DEF Task
    <3>3. QED
      BY <3>1, <3>2
  <2> HIDE DEF next
  <2>4. Underway \subseteq Underway'
    BY <2>1, <2>3, UnderwayKept
  <2>5. QED
    BY <2>1, <2>4
<1>6. ASSUME NEW t \in tasks, BatchWatched(t) PROVE Lost' \subseteq Lost
  <2> DEFINE next == {[x EXCEPT !.stage = "decide"] : x \in {y \in {t} : y.dispatch}}
  <2>1. Replace(t, next) /\ t.stage = "watch" /\ UNCHANGED <<owed, unseen, pending>>
    BY <1>6 DEF BatchWatched, diskVars, holdVars
  <2>2. t \in Task
    BY DEF GateInv, GateTypeOK
  <2>3. ASSUME NEW p \in t.paths, t.dispatch
        PROVE  \E u \in next : p \in u.paths /\ u.stage = "decide"
    <3>1. [t EXCEPT !.stage = "decide"] \in next
      BY <2>3
    <3>2. /\ [t EXCEPT !.stage = "decide"].paths = t.paths
          /\ [t EXCEPT !.stage = "decide"].stage = "decide"
      BY <2>2 DEF Task
    <3>3. QED
      BY <3>1, <3>2
  <2> HIDE DEF next
  <2>4. Underway \subseteq Underway'
    BY <2>1, <2>3, UnderwayKept
  <2>5. QED
    BY <2>1, <2>4
<1>7. ASSUME NEW t \in tasks, Decide(t) PROVE Lost' \subseteq Lost
  <2>1. Replace(t, {}) /\ owed' = owed \ t.paths /\ UNCHANGED <<unseen, pending>>
    BY <1>7 DEF Decide, holdVars
  <2>2. Underway \ t.paths \subseteq Underway'
    BY <2>1, UnderwayKept
  <2>3. QED
    BY <2>1, <2>2
<1>8. CASE UNCHANGED gateVars
  BY <1>8 DEF gateVars, diskVars, holdVars, Underway
<1>9. QED
  BY <1>1, <1>2, <1>3, <1>4, <1>5, <1>6, <1>7, <1>8 DEF GateNext

-----------------------------------------------------------------------------
(* Batches of one file.  Their hold and their dispatch are all or nothing. *)

SingleInv == GateInv /\ IsFiniteSet(unseen) /\ NothingLost

\* A batch of at most one file is held as a whole or not at all.
LEMMA HeldWhole ==
    ASSUME BatchSize <= 1, GateInv, IsFiniteSet(unseen),
           NEW paths \in SUBSET unseen, Debounced(paths), Held(paths) # {}
    PROVE  Held(paths) = paths
<1>1. IsFiniteSet(paths) /\ Cardinality(paths) \in Nat
  BY FS_Subset, FS_CardinalityType
<1>2. Cardinality(paths) <= 1 /\ paths # {}
  BY <1>1, GateAssumption DEF Debounced
<1>3. Cardinality(paths) = 1
  BY <1>1, <1>2, FS_EmptySet
<1>4. PICK x : paths = {x}
  BY <1>1, <1>3, FS_Singleton
<1>5. QED
  BY <1>4 DEF Held

\* The watcher's backlog stays finite.
LEMMA UnseenFinite ==
    ASSUME IsFiniteSet(unseen), [GateNext]_gateVars
    PROVE  IsFiniteSet(unseen')
<1>1. CASE UNCHANGED unseen
  BY <1>1
<1>2. ASSUME NEW p \in Paths, unseen' = unseen \cup {p} PROVE IsFiniteSet(unseen')
  BY <1>2, FS_AddElement
<1>3. ASSUME NEW paths \in SUBSET unseen, unseen' = unseen \ paths
      PROVE  IsFiniteSet(unseen')
  BY <1>3, FS_Subset
<1>4. QED
  BY <1>1, <1>2, <1>3
  DEF GateNext, Change, HandleBatch, EditorFlush, CapTimer, CapFlush, Drain,
      FlushSends, BatchWatched, Decide, gateVars

\* Every step of the gate keeps a change of a one-file batch in sight.
LEMMA SingleNextInv ==
    ASSUME BatchSize <= 1
    PROVE  SingleInv /\ [GateNext]_gateVars => SingleInv'
<1>1. SUFFICES ASSUME SingleInv, [GateNext]_gateVars PROVE SingleInv'
  OBVIOUS
<1>2. GateInv' /\ IsFiniteSet(unseen')
  BY <1>1, GateNextInv, UnseenFinite DEF SingleInv
<1>3. Lost = {}
  BY <1>1 DEF SingleInv, NothingLost, Lost, InSight
<1>4. Lost' = {}
  <2>1. ASSUME NEW paths \in SUBSET unseen, HandleBatch(paths) PROVE Lost' = {}
    <3>1. Held(paths) # {} => Held(paths) = paths
      BY <1>1, <2>1, HeldWhole DEF HandleBatch, SingleInv
    <3>2. Lost' \subseteq Lost \cup (IF Held(paths) = {} THEN {} ELSE paths \ Held(paths))
      BY <1>1, <2>1, BatchLoses DEF SingleInv
    <3>3. QED
      BY <1>3, <3>1, <3>2
  <2>2. QED
    BY <1>1, <1>3, <2>1, StepKeeps DEF SingleInv
<1>5. NothingLost'
  BY <1>4 DEF NothingLost, Lost, InSight
<1>6. QED
  BY <1>2, <1>5 DEF SingleInv

\* When the watcher's debounce never puts two files into one batch, no change
\* is lost between the watcher, the gate and the browser.
THEOREM SinglesNeverLost ==
    ASSUME BatchSize <= 1
    PROVE  GateSpec => []NothingLost
<1>1. GateInit => SingleInv
  BY GateInitInv, FS_EmptySet DEF GateInit, SingleInv, NothingLost
<1>2. SingleInv /\ [GateNext]_gateVars => SingleInv'
  BY SingleNextInv
<1>3. SingleInv => NothingLost
  BY DEF SingleInv
<1>4. QED
  BY <1>1, <1>2, <1>3, PTL DEF GateSpec

-----------------------------------------------------------------------------
(* Batches of any size.                                                    *)

\* What hold leaves out of a batch: a file that the gate is not about, or one
\* that is there and was last written before the last flush.
LeftOut(p) ==
    \/ p \notin Relevant
    \/ p \notin deleted /\ lastFlush > 0 /\ mtime[p] <= lastFlush

\* Only such a change is ever lost.  A deletion of a file that the gate is
\* about, and a write after the last flush, reach the browser however the
\* debounce batches them: the reload an editor flushes for has all of them.
LostOnlyLeftOut == \A p \in Lost : LeftOut(p)

\* hold and its filter are each other's complement.
LEMMA NotHeldLeftOut ==
    ASSUME GateInv, NEW paths \in SUBSET Paths, NEW p \in paths \ Held(paths)
    PROVE  LeftOut(p)
  BY DEF GateInv, GateTypeOK, Held, LeftOut

\* A change out of sight stays left out: its file is not touched, or it is
\* in sight again, and the last flush only gets newer.
LEMMA LeftOutKept ==
    ASSUME GateInv, [GateNext]_gateVars, NEW p \in Paths, LeftOut(p), p \notin unseen'
    PROVE  LeftOut(p)'
<1>1. clock \in Nat /\ lastFlush \in Nat /\ lastFlush < clock /\ mtime[p] \in Nat
  BY DEF GateInv, GateTypeOK
<1>2. lastFlush' \in Nat /\ lastFlush <= lastFlush'
  <2>1. lastFlush' = lastFlush \/ lastFlush' = clock
    BY DEF GateNext, Change, HandleBatch, EditorFlush, CapTimer, CapFlush, Drain, FlushSends,
           BatchWatched, Decide, gateVars
  <2>2. QED
    BY <1>1, <2>1
<1>3. mtime'[p] = mtime[p] /\ (p \in deleted' <=> p \in deleted)
  <2>1. ASSUME NEW q \in Paths, Change(q)
        PROVE  mtime'[p] = mtime[p] /\ (p \in deleted' <=> p \in deleted)
    BY <2>1 DEF Change, Write, Delete, GateInv, GateTypeOK
  <2>2. CASE ~ \E q \in Paths : Change(q)
    BY <2>2
    DEF GateNext, HandleBatch, EditorFlush, CapTimer, CapFlush, Drain, FlushSends,
        BatchWatched, Decide, diskVars, gateVars
  <2>3. QED
    BY <2>1, <2>2
<1>4. QED
  BY <1>1, <1>2, <1>3 DEF LeftOut

\* Every step of the gate loses only what hold leaves out.
LEMMA LeftOutNext ==
    ASSUME GateInv, GateInv', LostOnlyLeftOut, [GateNext]_gateVars
    PROVE  LostOnlyLeftOut'
<1>1. SUFFICES ASSUME NEW p \in Lost' PROVE LeftOut(p)'
  BY DEF LostOnlyLeftOut
<1>2. p \in Paths /\ p \notin unseen'
  BY DEF Lost, InSight, GateInv, GateTypeOK
<1>3. LeftOut(p)
  <2>1. ASSUME NEW paths \in SUBSET unseen, HandleBatch(paths) PROVE LeftOut(p)
    <3>1. p \in Lost \/ p \in paths \ Held(paths)
      BY <2>1, BatchLoses
    <3>2. paths \in SUBSET Paths
      BY DEF GateInv, GateTypeOK
    <3>3. QED
      BY <3>1, <3>2, NotHeldLeftOut DEF LostOnlyLeftOut
  <2>2. QED
    BY <2>1, StepKeeps DEF LostOnlyLeftOut
<1>4. QED
  BY <1>2, <1>3, LeftOutKept

\* For batches of any size, a deletion or a write since the last flush of a
\* file that the gate is about is never lost.
THEOREM LossesLeftOut == GateSpec => []LostOnlyLeftOut
<1>1. GateInit => LostOnlyLeftOut
  BY DEF GateInit, LostOnlyLeftOut, Lost
<1>2. GateInv /\ GateInv' /\ LostOnlyLeftOut /\ [GateNext]_gateVars => LostOnlyLeftOut'
  BY LeftOutNext
<1>3. QED
  BY <1>1, <1>2, GateInitInv, GateNextInv, PTL DEF GateSpec
=============================================================================
