-------------------------- MODULE PluginHostProofs --------------------------
(***************************************************************************)
(* What PluginHost promises for every number of callers, every respawn     *)
(* budget, with addons and without.  Shutdowns are ordered by the flag     *)
(* they set first, and no call knows a generation that is still to come:   *)
(* with these two facts (Ordered) NoEngineLeftBehind is inductive.         *)
(* FlagsTrue needs to know, besides, what a revive that has still to lift  *)
(* host_gone has put into the slot (LiftsTrue).  That a wait for init is   *)
(* never in vain rests on Reserved, which keeps two revives apart, and on  *)
(* Deaths, which says who still has to raise host_gone.                    *)
(***************************************************************************)
EXTENDS PluginHost, TLAPS

USE HostAssumption

-----------------------------------------------------------------------------
(* Calls.                                                                  *)

\* Calls that write nothing of the host, and those that only open the gate.
Quiet(c) ==
    \/ Enter(c) \/ AlreadyLive(c) \/ Refused(c) \/ WaitForInit(c) \/ ReadGeneration(c)
    \/ PickEngine(c) \/ FinishOk(c) \/ FinishClosed(c) \/ StaleReport(c) \/ SeesGone(c)
    \/ Probe(c) \/ ProbeEnds(c)

Marks(c) == FinishMarks(c) \/ FinishJs(c)

Others(c) ==
    \A d \in Callers \ {c} : at'[d] = at[d] /\ my'[d] = my[d] /\ on'[d] = on[d]

CallTypes ==
    /\ at \in [Callers -> Labels]
    /\ my \in [Callers -> Generations] /\ on \in [Callers -> Generations]

\* What Goto and GotoKnowing do to the calls.
LEMMA Moves ==
    ASSUME TypeOK, NEW c \in Callers
    PROVE  /\ \A label \in Labels : Goto(c, label) =>
                 /\ CallTypes' /\ Others(c)
                 /\ at'[c] = label /\ my'[c] = my[c] /\ on'[c] = on[c]
           /\ \A label \in Labels, g \in Generations : GotoKnowing(c, label, g) =>
                 /\ CallTypes' /\ Others(c)
                 /\ at'[c] = label /\ my'[c] = g /\ on'[c] = 0
           /\ EndCall(c) =>
                 /\ CallTypes' /\ Others(c)
                 /\ at'[c] = "idle" /\ my'[c] = 0 /\ on'[c] = 0
  <1>1. 0 \in Generations
      BY DEF Generations
  <1>2. "idle" \in Labels
      BY DEF Labels
  <1>3. \A label \in Labels : Goto(c, label) =>
          /\ CallTypes' /\ Others(c)
          /\ at'[c] = label /\ my'[c] = my[c] /\ on'[c] = on[c]
      BY DEF TypeOK, Goto, CallTypes, Others
  <1>4. \A label \in Labels, g \in Generations : GotoKnowing(c, label, g) =>
          /\ CallTypes' /\ Others(c)
          /\ at'[c] = label /\ my'[c] = g /\ on'[c] = 0
      BY <1>1 DEF TypeOK, GotoKnowing, CallTypes, Others
  <1> QED
      BY <1>1, <1>2, <1>3, <1>4 DEF EndCall

\* Where a call holds something of a generation's life in its hands.
Acting == {"ignite", "spawned", "lift", "gone"}

\* A quiet call moves by itself, between places where it acts on nothing.
LEMMA QuietCall ==
    ASSUME TypeOK, NEW c \in Callers, Quiet(c)
    PROVE  /\ CallTypes' /\ Others(c)
           /\ at[c] \notin Acting /\ at'[c] \notin Acting
           /\ my'[c] \in {my[c], 0, generation}
           /\ UNCHANGED hostVars
  <1> USE Moves DEF Labels, Acting
  <1>1. generation \in Generations
      BY DEF TypeOK
  <1>2. CASE Enter(c) \/ AlreadyLive(c) \/ Refused(c)
      BY <1>2 DEF Enter, AlreadyLive, Refused
  <1>3. CASE WaitForInit(c) \/ ReadGeneration(c)
      BY <1>1, <1>3 DEF WaitForInit, ReadGeneration
  <1>4. CASE PickEngine(c)
    <2>1. CASE slot = None
        BY <1>4, <2>1 DEF PickEngine
    <2>2. CASE slot # None
      <3>1. /\ at[c] = "pick" /\ at' = [at EXCEPT ![c] = "called"]
            /\ on' = [on EXCEPT ![c] = slot] /\ my' = my
            /\ UNCHANGED hostVars
          BY <1>4, <2>2 DEF PickEngine
      <3>2. /\ slot \in Generations /\ at \in [Callers -> Labels]
            /\ my \in [Callers -> Generations] /\ on \in [Callers -> Generations]
          BY <2>2 DEF TypeOK
      <3>3. CallTypes' /\ Others(c) /\ at'[c] = "called"
          BY <3>1, <3>2 DEF CallTypes, Others
      <3> QED
          BY <3>1, <3>3
    <2> QED
        BY <2>1, <2>2
  <1>5. CASE FinishOk(c) \/ FinishClosed(c) \/ StaleReport(c)
      BY <1>1, <1>5 DEF FinishOk, FinishClosed, StaleReport, InHook
  <1>6. CASE SeesGone(c) \/ Probe(c) \/ ProbeEnds(c)
      BY <1>6 DEF SeesGone, Probe, ProbeEnds
  <1> QED
      BY <1>2, <1>3, <1>4, <1>5, <1>6 DEF Quiet

\* A call that opens the gate ends.
LEMMA MarkingCall ==
    ASSUME TypeOK, NEW c \in Callers, Marks(c)
    PROVE  /\ CallTypes' /\ Others(c)
           /\ at[c] \notin Acting /\ at'[c] = "idle" /\ my'[c] = 0
           /\ MarkInitialized
           /\ UNCHANGED <<reviveVars, slot, shutDown, retired, engineVars, taskVars>>
  BY Moves DEF Marks, FinishMarks, FinishJs, Acting

\* The steps, with the quiet calls and the marking ones taken together.
LEMMA Steps ==
    ASSUME [Next]_vars
    PROVE  \/ \E c \in Callers : \/ Quiet(c) \/ Marks(c)
                                 \/ Revive(c) \/ Spawn(c) \/ Superseded(c) \/ Ignite(c)
                                 \/ Lift(c) \/ DeclareGone(c) \/ DeclaredGone(c)
           \/ \E g \in Generations : \/ BootReady(g) \/ BootFails(g) \/ BootGone(g)
                                     \/ BootClosed(g) \/ Push(g) \/ PushMarks(g)
                                     \/ ChannelClosed(g) \/ ChannelGone(g)
                                     \/ KeeperDone(g) \/ Exit(g)
           \/ Shutdown \/ ShutdownTakes \/ UNCHANGED vars
  BY DEF Next, CallerStep, TaskStep, Quiet, Marks

-----------------------------------------------------------------------------
(* Types.                                                                  *)

EngineStates == {"none", "up", "replaced", "keeping", "closing", "exited"}

\* Giving up an engine's handle keeps the engines' types.
LEMMA ClosedType ==
    ASSUME TypeOK, NEW g \in Generations \cup {None}
    PROVE  Closed(engine, g) \in [Generations -> EngineStates]
  BY DEF TypeOK, Closed, EngineStates

\* It closes that engine and no other.
LEMMA ClosedAt ==
    ASSUME TypeOK, NEW g \in Generations \cup {None}, NEW h \in Generations
    PROVE  Closed(engine, g)[h] = IF h = g THEN "closing" ELSE engine[h]
  <1>1. CASE g = None
      BY <1>1 DEF Closed, Generations
  <1>2. CASE g # None
      BY <1>2 DEF Closed, TypeOK
  <1> QED
      BY <1>1, <1>2

\* A report of death changes the engines, the slot and the report.
LEMMA RetireType ==
    ASSUME TypeOK, Retire
    PROVE  /\ engine' \in [Generations -> EngineStates]
           /\ reported' = TRUE /\ slot' = None /\ UNCHANGED <<generation, booted>>
           /\ \A h \in Generations :
                IF h = slot THEN engine'[h] \in {"keeping", "closing"}
                            ELSE engine'[h] = engine[h]
  <1>1. slot \in Generations \cup {None}
      BY DEF TypeOK
  <1>2. CASE engine' = Closed(engine, slot)
      BY <1>1, <1>2, ClosedType, ClosedAt DEF Retire
  <1>3. CASE slot # None /\ engine' = [engine EXCEPT ![slot] = "keeping"]
      BY <1>1, <1>3 DEF Retire, TypeOK, EngineStates
  <1> QED
      BY <1>2, <1>3 DEF Retire

\* An ignition takes its handle from the engine in the slot, and no other.
LEMMA ReplacedAt ==
    ASSUME TypeOK
    PROVE  /\ Replaced \in [Generations -> EngineStates]
           /\ \A h \in Generations : Replaced[h] = IF h = slot THEN "replaced" ELSE engine[h]
  <1>1. slot \in Generations \cup {None} /\ None \notin Generations
      BY DEF TypeOK, Generations
  <1> QED
      BY <1>1 DEF Replaced, TypeOK, EngineStates

\* Every step keeps the types.
LEMMA TypeNext ==
    ASSUME TypeOK, [Next]_vars
    PROVE  TypeOK'
  <1> USE DEF hostVars, reviveVars, flagVars, engineVars, taskVars, callVars, EngineStates
  <1>1. ASSUME NEW c \in Callers, Quiet(c) PROVE TypeOK'
      BY <1>1, QuietCall DEF CallTypes, TypeOK
  <1>2. ASSUME NEW c \in Callers, Marks(c) PROVE TypeOK'
      BY <1>2, MarkingCall DEF MarkInitialized, CallTypes, TypeOK
  <1>3. ASSUME NEW c \in Callers, Revive(c) PROVE TypeOK'
    <2>1. generation + 1 \in Generations
        BY <1>3 DEF Revive, Generations, TypeOK
    <2>2. CallTypes'
        BY <1>3, <2>1, Moves DEF Revive, Labels
    <2> QED
        BY <1>3, <2>1, <2>2 DEF Revive, CallTypes, TypeOK
  <1>4. ASSUME NEW c \in Callers, Spawn(c) PROVE TypeOK'
    <2>1. CallTypes'
        BY <1>4, Moves DEF Spawn, Labels
    <2> QED
        BY <1>4, <2>1 DEF Spawn, CallTypes, TypeOK
  <1>5. ASSUME NEW c \in Callers, Superseded(c) PROVE TypeOK'
    <2>1. CallTypes' /\ my[c] \in Generations
        BY <1>5, Moves DEF Superseded, TypeOK
    <2> QED
        BY <1>5, <2>1, ClosedType DEF Superseded, CallTypes, TypeOK
  <1>6. ASSUME NEW c \in Callers, Ignite(c) PROVE TypeOK'
    <2>1. CallTypes' /\ my[c] \in Generations
        BY <1>6, Moves DEF Ignite, Labels, TypeOK
    <2> QED
        BY <1>6, <2>1, ReplacedAt DEF Ignite, CallTypes, TypeOK
  <1>7. ASSUME NEW c \in Callers, Lift(c) PROVE TypeOK'
    <2>1. CallTypes' /\ blind' \in BOOLEAN
        BY <1>7, Moves DEF Lift, Labels, Generations
    <2> QED
        BY <1>7, <2>1 DEF Lift, CallTypes, TypeOK
  <1>8. ASSUME NEW c \in Callers, DeclareGone(c) PROVE TypeOK'
    <2>1. CallTypes'
        BY <1>8, Moves DEF DeclareGone, Labels, TypeOK
    <2> QED
        BY <1>8, <2>1, RetireType DEF DeclareGone, CallTypes, TypeOK
  <1>9. ASSUME NEW c \in Callers, DeclaredGone(c) PROVE TypeOK'
    <2>1. CallTypes'
        BY <1>9, Moves DEF DeclaredGone
    <2> QED
        BY <1>9, <2>1 DEF DeclaredGone, SetGone, CallTypes, TypeOK
  <1>10. ASSUME NEW g \in Generations, BootFails(g) PROVE TypeOK'
      BY <1>10, RetireType DEF BootFails, TypeOK
  <1>11. ASSUME NEW g \in Generations, BootGone(g) \/ ChannelGone(g) PROVE TypeOK'
      BY <1>11 DEF BootGone, ChannelGone, SetGone, TypeOK
  <1>12. ASSUME NEW g \in Generations, Push(g) \/ PushMarks(g) PROVE TypeOK'
      BY <1>12 DEF Push, PushMarks, MarkInitialized, TypeOK
  <1>13. ASSUME NEW g \in Generations,
                BootReady(g) \/ BootClosed(g) \/ ChannelClosed(g) \/ KeeperDone(g) \/ Exit(g)
         PROVE  TypeOK'
      BY <1>13 DEF BootReady, BootClosed, ChannelClosed, KeeperDone, Exit, TypeOK
  <1>14. CASE Shutdown
      BY <1>14 DEF Shutdown, TypeOK
  <1>15. CASE ShutdownTakes
    <2>1. slot \in Generations \cup {None}
        BY DEF TypeOK
    <2> QED
        BY <1>15, <2>1, ClosedType DEF ShutdownTakes, TypeOK
  <1>16. CASE UNCHANGED vars
      BY <1>16 DEF vars, TypeOK
  <1> QED
      BY <1>1, <1>2, <1>3, <1>4, <1>5, <1>6, <1>7, <1>8, <1>9, <1>10, <1>11, <1>12, <1>13,
          <1>14, <1>15, <1>16, Steps

\* Every variable of the plugin host keeps its type.
THEOREM TypeCorrect == Spec => []TypeOK
  <1>1. Init => TypeOK
    <2>1. 0 \in Generations
        BY DEF Generations
    <2>2. SUFFICES ASSUME Init
                   PROVE  TypeOK
        OBVIOUS
    <2>3. /\ engine \in [Generations -> EngineStates]
          /\ boot \in [Generations -> {"none", "running", "gone", "done"}]
          /\ dispatcher \in [Generations -> {"none", "running", "mark", "gone", "done"}]
        BY <2>2 DEF Init, EngineStates
    <2>4. /\ at \in [Callers -> Labels]
          /\ my \in [Callers -> Generations] /\ on \in [Callers -> Generations]
        BY <2>1, <2>2 DEF Init, Labels
    <2> QED
        BY <2>1, <2>2, <2>3, <2>4 DEF Init, TypeOK, EngineStates
  <1> QED
      BY <1>1, TypeNext, PTL DEF Spec

\* What an acting call does to its own place.
LEMMA ActingCall ==
    ASSUME TypeOK, NEW c \in Callers
    PROVE  /\ Revive(c) \/ Spawn(c) \/ Superseded(c) \/ Ignite(c) \/ Lift(c)
                \/ DeclareGone(c) \/ DeclaredGone(c) => Others(c) /\ CallTypes'
           /\ Revive(c) => at'[c] = "ignite" /\ my'[c] = generation + 1
           /\ Spawn(c) => \/ at'[c] = "idle" /\ my'[c] = 0 /\ engine' = engine
                          \/ /\ at'[c] = "spawned" /\ my'[c] = my[c]
                             /\ engine' = [engine EXCEPT ![my[c]] = "up"]
           /\ Superseded(c) => at'[c] = "idle" /\ my'[c] = 0
           /\ Ignite(c) => at'[c] = "lift" /\ my'[c] = my[c]
           /\ Lift(c) => at'[c] = "init" /\ my'[c] = 0
           /\ DeclareGone(c) => at'[c] = "gone" /\ my'[c] = my[c]
           /\ DeclaredGone(c) => at'[c] = "idle" /\ my'[c] = 0
  <1> USE Moves DEF Labels
  <1>1. /\ 0 \in Generations /\ my[c] \in Generations
        /\ generation < Limit => generation + 1 \in Generations
      BY DEF Generations, TypeOK
  <1>2. Revive(c) => Others(c) /\ CallTypes' /\ at'[c] = "ignite" /\ my'[c] = generation + 1
      BY <1>1 DEF Revive
  <1>3. Spawn(c) => /\ Others(c) /\ CallTypes'
                    /\ \/ at'[c] = "idle" /\ my'[c] = 0 /\ engine' = engine
                       \/ /\ at'[c] = "spawned" /\ my'[c] = my[c]
                          /\ engine' = [engine EXCEPT ![my[c]] = "up"]
      BY DEF Spawn
  <1>4. Superseded(c) => Others(c) /\ CallTypes' /\ at'[c] = "idle" /\ my'[c] = 0
      BY DEF Superseded
  <1>5. Ignite(c) => Others(c) /\ CallTypes' /\ at'[c] = "lift" /\ my'[c] = my[c]
      BY DEF Ignite
  <1>6. Lift(c) => Others(c) /\ CallTypes' /\ at'[c] = "init" /\ my'[c] = 0
      BY <1>1 DEF Lift
  <1>7. DeclareGone(c) => Others(c) /\ CallTypes' /\ at'[c] = "gone" /\ my'[c] = my[c]
      BY <1>1 DEF DeclareGone
  <1>8. DeclaredGone(c) => Others(c) /\ CallTypes' /\ at'[c] = "idle" /\ my'[c] = 0
      BY DEF DeclaredGone
  <1> QED
      BY <1>2, <1>3, <1>4, <1>5, <1>6, <1>7, <1>8

-----------------------------------------------------------------------------
(* Engines.                                                                *)

\* The flag of a shutdown is set before its engine is taken, and a call knows
\* only of generations there have been.
Ordered ==
    /\ retired => shutDown
    /\ \A c \in Callers : my[c] <= generation

\* Every step keeps the order.
LEMMA OrderedNext ==
    ASSUME TypeOK, Ordered, [Next]_vars
    PROVE  Ordered'
  <1> USE DEF hostVars, reviveVars, flagVars, engineVars, taskVars, callVars
  <1>1. generation \in Nat /\ \A c \in Callers : my[c] \in Nat
      BY DEF Generations, TypeOK
  <1>2. ASSUME NEW c \in Callers, Quiet(c) PROVE Ordered'
      BY <1>1, <1>2, QuietCall DEF Others, Ordered
  <1>3. ASSUME NEW c \in Callers, Marks(c) PROVE Ordered'
      BY <1>1, <1>3, MarkingCall DEF Others, Ordered
  <1>4. ASSUME NEW c \in Callers, Revive(c) PROVE Ordered'
    <2>1. generation' = generation + 1 /\ UNCHANGED <<retired, shutDown>>
        BY <1>4 DEF Revive
    <2> QED
        BY <1>1, <1>4, <2>1, ActingCall DEF Others, Ordered
  <1>5. ASSUME NEW c \in Callers,
               Spawn(c) \/ Superseded(c) \/ Ignite(c) \/ Lift(c) \/ DeclareGone(c)
                 \/ DeclaredGone(c)
        PROVE  Ordered'
    <2>1. UNCHANGED <<generation, retired, shutDown>>
        BY <1>5 DEF Spawn, Superseded, Ignite, Lift, DeclareGone, Retire, DeclaredGone
    <2>2. Others(c) /\ my'[c] \in {my[c], 0}
        BY <1>5, ActingCall
    <2> QED
        BY <1>1, <2>1, <2>2 DEF Others, Ordered
  <1>6. ASSUME NEW g \in Generations,
               \/ BootReady(g) \/ BootFails(g) \/ BootGone(g) \/ BootClosed(g) \/ Push(g)
               \/ PushMarks(g) \/ ChannelClosed(g) \/ ChannelGone(g) \/ KeeperDone(g)
               \/ Exit(g)
        PROVE  Ordered'
    <2>1. UNCHANGED <<generation, retired, shutDown, my>>
        BY <1>6
        DEF BootReady, BootFails, Retire, BootGone, BootClosed, Push, PushMarks,
            ChannelClosed, ChannelGone, KeeperDone, Exit
    <2> QED
        BY <2>1 DEF Ordered
  <1>7. CASE Shutdown \/ ShutdownTakes \/ UNCHANGED vars
      BY <1>7 DEF Shutdown, ShutdownTakes, vars, Ordered
  <1> QED
      BY <1>2, <1>3, <1>4, <1>5, <1>6, <1>7, Steps

\* The order holds in every state the host reaches.
LEMMA OrderedInvariant == Spec => []Ordered
  <1>1. Init => Ordered
      BY DEF Init, Ordered, Generations
  <1> QED
      BY <1>1, TypeCorrect, OrderedNext, PTL DEF Spec

\* Every step accounts for the engines.
LEMMA EnginesNext ==
    ASSUME TypeOK, Ordered, NoEngineLeftBehind, [Next]_vars
    PROVE  NoEngineLeftBehind'
  <1> USE DEF hostVars, reviveVars, flagVars, engineVars, taskVars, callVars
  <1>1. ASSUME NEW c \in Callers, at[c] # "spawned", Others(c),
               UNCHANGED <<engine, slot, retired>>
        PROVE  NoEngineLeftBehind'
      BY <1>1 DEF Others, NoEngineLeftBehind
  <1>2. ASSUME NEW c \in Callers, Quiet(c) \/ Marks(c) PROVE NoEngineLeftBehind'
      BY <1>1, <1>2, QuietCall, MarkingCall DEF Acting
  <1>3. ASSUME NEW c \in Callers, Revive(c) \/ Lift(c) \/ DeclaredGone(c)
        PROVE  NoEngineLeftBehind'
      BY <1>1, <1>3, ActingCall DEF Revive, Lift, DeclaredGone
  <1>4. ASSUME NEW c \in Callers, Spawn(c) PROVE NoEngineLeftBehind'
    <2>1. at[c] = "ignite" /\ UNCHANGED <<slot, retired>> /\ Others(c)
        BY <1>4, ActingCall DEF Spawn
    <2>2. CASE engine' = engine
        BY <1>1, <2>1, <2>2
    <2>3. CASE /\ at'[c] = "spawned" /\ my'[c] = my[c]
               /\ engine' = [engine EXCEPT ![my[c]] = "up"]
        BY <2>1, <2>3 DEF Others, NoEngineLeftBehind, TypeOK
    <2> QED
        BY <1>4, <2>2, <2>3, ActingCall
  <1>5. ASSUME NEW c \in Callers, Superseded(c) PROVE NoEngineLeftBehind'
    <2>1. /\ engine' = Closed(engine, my[c]) /\ UNCHANGED <<slot, retired>> /\ Others(c)
          /\ my[c] \in Generations
        BY <1>5, ActingCall DEF Superseded, TypeOK
    <2>2. \A g \in Generations : engine'[g] = "up" => g # my[c] /\ engine[g] = "up"
        BY <2>1, ClosedAt
    <2> QED
        BY <2>1, <2>2 DEF Others, NoEngineLeftBehind
  <1>6. ASSUME NEW c \in Callers, Ignite(c) PROVE NoEngineLeftBehind'
    <2>1. /\ engine' = Replaced /\ slot' = my[c] /\ retired' = retired
          /\ ~retired /\ Others(c)
        BY <1>6, ActingCall DEF Ignite, Ordered
    <2>2. \A g \in Generations : engine'[g] = "up" => g # slot /\ engine[g] = "up"
        BY <2>1, ReplacedAt
    <2> QED
        BY <2>1, <2>2 DEF Others, NoEngineLeftBehind
  <1>7. ASSUME Retire, retired' = retired,
               \A c \in Callers : at[c] = "spawned" => at'[c] = at[c] /\ my'[c] = my[c]
        PROVE  NoEngineLeftBehind'
    <2>1. slot' = None /\ \A g \in Generations : engine'[g] = "up" => g # slot /\ engine[g] = "up"
        BY <1>7, RetireType
    <2> QED
        BY <1>7, <2>1 DEF NoEngineLeftBehind
  <1>8. ASSUME NEW c \in Callers, DeclareGone(c) PROVE NoEngineLeftBehind'
    <2>1. Retire /\ retired' = retired /\ Others(c) /\ at[c] # "spawned"
        BY <1>8, ActingCall DEF DeclareGone, InHook
    <2> QED
        BY <1>7, <2>1 DEF Others
  <1>9. ASSUME NEW g \in Generations, BootFails(g) PROVE NoEngineLeftBehind'
    <2>1. CASE FirstReport(g)
        BY <1>7, <1>9, <2>1 DEF BootFails
    <2>2. CASE ~FirstReport(g)
        BY <1>9, <2>2 DEF BootFails, NoEngineLeftBehind
    <2> QED
        BY <2>1, <2>2
  <1>10. ASSUME NEW g \in Generations,
                \/ BootReady(g) \/ BootGone(g) \/ BootClosed(g) \/ Push(g) \/ PushMarks(g)
                \/ ChannelClosed(g) \/ ChannelGone(g)
         PROVE  NoEngineLeftBehind'
    <2>1. UNCHANGED <<engine, slot, retired, at, my>>
        BY <1>10
        DEF BootReady, BootGone, BootClosed, Push, PushMarks, ChannelClosed, ChannelGone
    <2> QED
        BY <2>1 DEF NoEngineLeftBehind
  <1>11. ASSUME NEW g \in Generations, KeeperDone(g) \/ Exit(g) PROVE NoEngineLeftBehind'
      BY <1>11 DEF KeeperDone, Exit, Closing, NoEngineLeftBehind, TypeOK
  <1>12. CASE ShutdownTakes
      BY <1>12 DEF ShutdownTakes, Closed, NoEngineLeftBehind, TypeOK
  <1>13. CASE Shutdown \/ UNCHANGED vars
      BY <1>13 DEF Shutdown, vars, NoEngineLeftBehind
  <1> QED
      BY <1>2, <1>3, <1>4, <1>5, <1>6, <1>8, <1>9, <1>10, <1>11, <1>12, <1>13, Steps

\* No revive that races another, or a shutdown, leaves a live engine behind.
THEOREM EnginesAccountedFor == Spec => []NoEngineLeftBehind
  <1>1. Init => NoEngineLeftBehind
      BY DEF Init, NoEngineLeftBehind, Generations
  <1> QED
      BY <1>1, TypeCorrect, OrderedInvariant, EnginesNext, PTL DEF Spec

-----------------------------------------------------------------------------
(* Flags.                                                                  *)

\* The gate is open only for an engine that evaluated its module, a host that
\* is not gone has its engine in the slot, unless its death is being told, and
\* the slot holds no other: true of every state that no window came before.
FlagsTrue ==
    ~blind =>
        /\ initialized => generation \in booted
        /\ ~gone /\ ~retired => slot = generation \/ DeathUnderway(generation)
        /\ slot # None => slot = generation

\* The engine of a revive that has still to lift host_gone is in the slot,
\* unless it died or was replaced since, or the host is shut down.
LiftsTrue ==
    \A c \in Callers :
        at[c] = "lift" /\ my[c] = generation /\ ~reported /\ ~retired
            => slot = generation

\* Every step keeps a pending lift true.
LEMMA LiftsNext ==
    ASSUME TypeOK, Ordered, LiftsTrue, [Next]_vars
    PROVE  LiftsTrue'
  <1> USE DEF hostVars, reviveVars, flagVars, engineVars, taskVars, callVars
  <1>1. ASSUME NEW c \in Callers, at'[c] # "lift", Others(c),
               UNCHANGED <<generation, reported, retired, slot>>
        PROVE  LiftsTrue'
      BY <1>1 DEF Others, LiftsTrue
  <1>2. ASSUME NEW c \in Callers, Quiet(c) \/ Marks(c) PROVE LiftsTrue'
      BY <1>1, <1>2, QuietCall, MarkingCall DEF Acting
  <1>3. ASSUME NEW c \in Callers, Spawn(c) \/ Superseded(c) \/ Lift(c) \/ DeclaredGone(c)
        PROVE  LiftsTrue'
      BY <1>1, <1>3, ActingCall DEF Spawn, Superseded, Lift, DeclaredGone
  <1>4. ASSUME NEW c \in Callers, Revive(c) PROVE LiftsTrue'
    <2>1. generation' = generation + 1 /\ at'[c] = "ignite" /\ Others(c)
        BY <1>4, ActingCall DEF Revive
    <2>2. \A d \in Callers : my[d] \in Nat /\ my[d] <= generation /\ generation \in Nat
        BY DEF Ordered, TypeOK, Generations
    <2> QED
        BY <2>1, <2>2 DEF Others, LiftsTrue
  <1>5. ASSUME NEW c \in Callers, Ignite(c) PROVE LiftsTrue'
    <2>1. slot' = generation /\ generation' = generation
        BY <1>5 DEF Ignite
    <2> QED
        BY <2>1 DEF LiftsTrue
  <1>6. ASSUME NEW c \in Callers, DeclareGone(c) PROVE LiftsTrue'
      BY <1>6 DEF DeclareGone, Retire, LiftsTrue
  <1>7. ASSUME NEW g \in Generations, BootFails(g) PROVE LiftsTrue'
      BY <1>7 DEF BootFails, Retire, LiftsTrue
  <1>8. ASSUME NEW g \in Generations,
               \/ BootReady(g) \/ BootGone(g) \/ BootClosed(g) \/ Push(g) \/ PushMarks(g)
               \/ ChannelClosed(g) \/ ChannelGone(g) \/ KeeperDone(g) \/ Exit(g)
        PROVE  LiftsTrue'
    <2>1. UNCHANGED <<generation, reported, retired, slot, at, my>>
        BY <1>8
        DEF BootReady, BootGone, BootClosed, Push, PushMarks, ChannelClosed, ChannelGone,
            KeeperDone, Exit
    <2> QED
        BY <2>1 DEF LiftsTrue
  <1>9. CASE Shutdown \/ ShutdownTakes \/ UNCHANGED vars
      BY <1>9 DEF Shutdown, ShutdownTakes, vars, LiftsTrue
  <1> QED
      BY <1>2, <1>3, <1>4, <1>5, <1>6, <1>7, <1>8, <1>9, Steps

\* A window once met stays on record.
LEMMA BlindLasts ==
    ASSUME TypeOK, [Next]_vars
    PROVE  ~blind' => ~blind
  <1> USE DEF hostVars, reviveVars, flagVars, engineVars, taskVars, callVars
  <1>1. ASSUME NEW c \in Callers, Quiet(c) PROVE blind' = blind
      BY <1>1, QuietCall
  <1>2. ASSUME NEW c \in Callers, Marks(c) PROVE ~blind' => ~blind
      BY <1>2, MarkingCall DEF MarkInitialized
  <1>3. ASSUME NEW c \in Callers, Spawn(c) \/ Superseded(c) \/ Ignite(c) \/ DeclareGone(c)
        PROVE  blind' = blind
      BY <1>3 DEF Spawn, Superseded, Ignite, DeclareGone
  <1>4. ASSUME NEW c \in Callers, Revive(c) \/ Lift(c) PROVE ~blind' => ~blind
      BY <1>4 DEF Revive, Lift
  <1>5. ASSUME NEW c \in Callers, DeclaredGone(c) PROVE ~blind' => ~blind
      BY <1>5 DEF DeclaredGone, SetGone
  <1>6. ASSUME NEW g \in Generations,
               \/ BootReady(g) \/ BootFails(g) \/ BootClosed(g) \/ ChannelClosed(g)
               \/ KeeperDone(g) \/ Exit(g)
        PROVE  blind' = blind
      BY <1>6 DEF BootReady, BootFails, BootClosed, ChannelClosed, KeeperDone, Exit
  <1>7. ASSUME NEW g \in Generations, BootGone(g) \/ ChannelGone(g) PROVE ~blind' => ~blind
      BY <1>7 DEF BootGone, ChannelGone, SetGone
  <1>8. ASSUME NEW g \in Generations, Push(g) \/ PushMarks(g) PROVE ~blind' => ~blind
      BY <1>8 DEF Push, PushMarks, MarkInitialized
  <1>9. CASE Shutdown \/ ShutdownTakes \/ UNCHANGED vars
      BY <1>9 DEF Shutdown, ShutdownTakes, vars
  <1> QED
      BY <1>1, <1>2, <1>3, <1>4, <1>5, <1>6, <1>7, <1>8, <1>9, Steps

\* Every step keeps the flags true, or blind is set.
LEMMA FlagsNext ==
    ASSUME TypeOK, Ordered, LiftsTrue, FlagsTrue, [Next]_vars
    PROVE  FlagsTrue'
  <1> USE DEF hostVars, reviveVars, flagVars, engineVars, taskVars, callVars
  <1>1. ASSUME NEW c \in Callers, at[c] # "gone", Others(c),
               UNCHANGED <<generation, slot, gone, retired, booted, boot>>,
               ~blind' => ~blind, ~blind' /\ initialized' => initialized \/ generation \in booted
        PROVE  FlagsTrue'
      BY <1>1 DEF Others, FlagsTrue, DeathUnderway
  <1>2. ASSUME NEW c \in Callers, Quiet(c) PROVE FlagsTrue'
      BY <1>1, <1>2, QuietCall DEF Acting
  <1>3. ASSUME NEW c \in Callers, Marks(c) PROVE FlagsTrue'
      BY <1>1, <1>3, MarkingCall DEF MarkInitialized, Acting
  <1>4. ASSUME NEW c \in Callers, Spawn(c) \/ Superseded(c) PROVE FlagsTrue'
      BY <1>1, <1>4, ActingCall DEF Spawn, Superseded
  <1>5. ASSUME NEW c \in Callers, Revive(c) PROVE FlagsTrue'
      BY <1>5 DEF Revive, FlagsTrue
  <1>6. ASSUME NEW c \in Callers, Ignite(c) PROVE FlagsTrue'
      BY <1>6 DEF Ignite, FlagsTrue
  <1>7. ASSUME NEW c \in Callers, Lift(c) PROVE FlagsTrue'
    <2>1. ~blind' => ~blind /\ my[c] = generation /\ ~reported
        BY <1>7 DEF Lift, DeathLatched
    <2>2. at[c] = "lift" /\ UNCHANGED <<generation, slot, initialized, retired, booted>>
        BY <1>7 DEF Lift
    <2> QED
        BY <2>1, <2>2 DEF LiftsTrue, FlagsTrue
  <1>8. ASSUME NEW c \in Callers, DeclareGone(c) PROVE FlagsTrue'
    <2>1. /\ slot' = None /\ UNCHANGED <<generation, gone, initialized, blind, booted>>
          /\ my[c] = generation
        BY <1>8, RetireType DEF DeclareGone, FirstReport
    <2>2. at'[c] = "gone" /\ my'[c] = generation'
        BY <1>8, <2>1, ActingCall
    <2> QED
        BY <2>1, <2>2 DEF FlagsTrue, DeathUnderway
  <1>9. ASSUME NEW c \in Callers, DeclaredGone(c) PROVE FlagsTrue'
      BY <1>9 DEF DeclaredGone, SetGone, FlagsTrue
  <1>10. ASSUME NEW g \in Generations, BootFails(g) PROVE FlagsTrue'
    <2>1. CASE FirstReport(g)
      <3>1. /\ slot' = None /\ UNCHANGED <<generation, gone, initialized, blind, booted>>
            /\ boot'[generation] = "gone"
          BY <1>10, <2>1, RetireType DEF BootFails, FirstReport, TypeOK
      <3> QED
          BY <3>1 DEF FlagsTrue, DeathUnderway
    <2>2. CASE ~FirstReport(g)
        BY <1>10, <2>2 DEF BootFails, FlagsTrue, DeathUnderway, TypeOK
    <2> QED
        BY <2>1, <2>2
  <1>11. ASSUME NEW g \in Generations, BootGone(g) \/ ChannelGone(g) PROVE FlagsTrue'
    <2>1. gone' = TRUE /\ UNCHANGED <<generation, slot, initialized, booted>>
        BY <1>11 DEF BootGone, ChannelGone, SetGone
    <2> QED
        BY <2>1, BlindLasts DEF FlagsTrue
  <1>12. ASSUME NEW g \in Generations, BootReady(g) \/ BootClosed(g) PROVE FlagsTrue'
    <2>1. /\ UNCHANGED <<generation, slot, flagVars, retired, callVars>>
          /\ booted \subseteq booted'
          /\ boot[g] = "running" /\ boot' = [boot EXCEPT ![g] = "done"]
        BY <1>12 DEF BootReady, BootClosed
    <2>2. boot[generation] = "gone" => boot'[generation] = "gone"
        BY <2>1 DEF TypeOK
    <2> QED
        BY <2>1, <2>2 DEF FlagsTrue, DeathUnderway
  <1>13. ASSUME NEW g \in Generations,
                Push(g) \/ PushMarks(g) \/ ChannelClosed(g) \/ KeeperDone(g) \/ Exit(g)
         PROVE  FlagsTrue'
    <2>1. UNCHANGED <<generation, slot, gone, retired, booted, boot, at, my>>
        BY <1>13 DEF Push, PushMarks, MarkInitialized, ChannelClosed, KeeperDone, Exit
    <2>2. CASE PushMarks(g)
      <3>1. ~blind' => ~blind /\ generation \in booted
          BY <2>2 DEF PushMarks, MarkInitialized
      <3> QED
          BY <2>1, <3>1 DEF FlagsTrue, DeathUnderway
    <2>3. CASE ~PushMarks(g)
      <3>1. initialized' = initialized
          BY <1>13, <2>3 DEF Push, ChannelClosed, KeeperDone, Exit
      <3> QED
          BY <2>1, <3>1, BlindLasts DEF FlagsTrue, DeathUnderway
    <2> QED
        BY <2>2, <2>3
  <1>14. CASE Shutdown \/ ShutdownTakes \/ UNCHANGED vars
      BY <1>14 DEF Shutdown, ShutdownTakes, vars, FlagsTrue, DeathUnderway
  <1> QED
      BY <1>2, <1>3, <1>4, <1>5, <1>6, <1>7, <1>8, <1>9, <1>10, <1>11, <1>12, <1>13, <1>14,
          Steps

\* The flags, and what they rest on, hold of every state the host reaches.
LEMMA FlagsInvariant == Spec => [](LiftsTrue /\ FlagsTrue)
  <1>1. Init => LiftsTrue /\ FlagsTrue
      BY DEF Init, LiftsTrue, FlagsTrue, Generations
  <1> QED
      BY <1>1, TypeCorrect, OrderedInvariant, LiftsNext, FlagsNext, PTL DEF Spec

-----------------------------------------------------------------------------
(* Reports.                                                                *)

\* A hook that read the live generation is on that generation's engine: the
\* generation is read before the engine is picked.
OnLive ==
    \A c \in Callers : InHook(c) /\ my[c] = generation /\ ~blind => on[c] = generation

\* A report of death retires the engine that the reporting hook was on, never
\* the one that replaced it (or nothing, after a shutdown took it).
ReportsOwn ==
    [][\A c \in Callers : DeclareGone(c) /\ ~blind => slot \in {on[c], None}]_vars

\* Every step keeps the hooks of the live generation on its engine.
LEMMA OnLiveNext ==
    ASSUME TypeOK, Ordered, FlagsTrue, OnLive, [Next]_vars
    PROVE  OnLive'
  <1> USE DEF hostVars, reviveVars, flagVars, engineVars, taskVars, callVars
  <1>1. ASSUME NEW c \in Callers, Others(c), ~InHook(c)', generation' = generation,
               ~blind' => ~blind
        PROVE  OnLive'
      BY <1>1 DEF Others, OnLive, InHook
  <1>2. ASSUME NEW c \in Callers, PickEngine(c) PROVE OnLive'
    <2>1. CASE slot = None
        BY <1>1, <1>2, <2>1, Moves DEF PickEngine, InHook
    <2>2. CASE slot # None
      <3>1. Others(c) /\ on'[c] = slot /\ UNCHANGED <<generation, blind>>
          BY <1>2, <2>2 DEF PickEngine, Others, TypeOK
      <3>2. ~blind => slot = generation
          BY <2>2 DEF FlagsTrue
      <3> QED
          BY <3>1, <3>2 DEF Others, OnLive, InHook
    <2> QED
        BY <2>1, <2>2
  <1>3. ASSUME NEW c \in Callers, Probe(c) \/ ProbeEnds(c) PROVE OnLive'
    <2>1. CASE EndCall(c)
        BY <1>1, <1>3, <2>1, Moves DEF Probe, ProbeEnds, InHook
    <2>2. CASE ~EndCall(c)
      <3>1. /\ Others(c) /\ InHook(c) /\ UNCHANGED <<generation, blind>>
            /\ my'[c] = my[c] /\ on'[c] = on[c]
          BY <1>3, <2>2, Moves DEF Probe, ProbeEnds, InHook, Labels
      <3> QED
          BY <3>1 DEF Others, OnLive, InHook
    <2> QED
        BY <2>1, <2>2
  <1>4. ASSUME NEW c \in Callers, Quiet(c), ~(PickEngine(c) \/ Probe(c) \/ ProbeEnds(c))
        PROVE  OnLive'
    <2>1. ~InHook(c)'
      <3>1. generation \in Generations
          BY DEF TypeOK
      <3> QED
          BY <1>4, <3>1, Moves
          DEF Quiet, Enter, AlreadyLive, Refused, WaitForInit, ReadGeneration, FinishOk,
              FinishClosed, StaleReport, SeesGone, InHook, Labels
    <2> QED
        BY <1>1, <1>4, <2>1, QuietCall
  <1>5. ASSUME NEW c \in Callers, Marks(c) PROVE OnLive'
      BY <1>1, <1>5, MarkingCall DEF MarkInitialized, InHook
  <1>6. ASSUME NEW c \in Callers, Revive(c) PROVE OnLive'
    <2>1. generation' = generation + 1 /\ at'[c] = "ignite" /\ Others(c)
        BY <1>6, ActingCall DEF Revive
    <2>2. \A d \in Callers : my[d] \in Nat /\ my[d] <= generation /\ generation \in Nat
        BY DEF Ordered, TypeOK, Generations
    <2> QED
        BY <2>1, <2>2 DEF Others, OnLive, InHook
  <1>7. ASSUME NEW c \in Callers,
               Spawn(c) \/ Superseded(c) \/ Ignite(c) \/ Lift(c) \/ DeclareGone(c)
                 \/ DeclaredGone(c)
        PROVE  OnLive'
    <2>1. generation' = generation
        BY <1>7 DEF Spawn, Superseded, Ignite, Lift, DeclareGone, Retire, DeclaredGone
    <2>2. Others(c) /\ at'[c] \in {"idle", "spawned", "lift", "init", "gone"}
        BY <1>7, ActingCall
    <2> QED
        BY <1>1, <2>1, <2>2, BlindLasts DEF InHook
  <1>8. ASSUME NEW g \in Generations,
               \/ BootReady(g) \/ BootFails(g) \/ BootGone(g) \/ BootClosed(g) \/ Push(g)
               \/ PushMarks(g) \/ ChannelClosed(g) \/ ChannelGone(g) \/ KeeperDone(g)
               \/ Exit(g)
        PROVE  OnLive'
    <2>1. UNCHANGED <<generation, at, my, on>>
        BY <1>8
        DEF BootReady, BootFails, Retire, BootGone, BootClosed, Push, PushMarks,
            ChannelClosed, ChannelGone, KeeperDone, Exit
    <2> QED
        BY <2>1, BlindLasts DEF OnLive, InHook
  <1>9. CASE Shutdown \/ ShutdownTakes \/ UNCHANGED vars
      BY <1>9 DEF Shutdown, ShutdownTakes, vars, OnLive, InHook
  <1> QED
      BY <1>2, <1>3, <1>4, <1>5, <1>6, <1>7, <1>8, <1>9, Steps

\* The report of a hook that was slow to time out never kills the engine that
\* was revived meanwhile, outside the windows that blind records.
THEOREM ReportsRetireOwn == Spec => ReportsOwn
  <1>1. Init => OnLive
      BY DEF Init, OnLive, InHook
  <1>2. FlagsTrue /\ OnLive =>
          [\A c \in Callers : DeclareGone(c) /\ ~blind => slot \in {on[c], None}]_vars
    <2>1. ASSUME FlagsTrue, OnLive, NEW c \in Callers, DeclareGone(c), ~blind
          PROVE  slot \in {on[c], None}
        BY <2>1 DEF DeclareGone, FirstReport, FlagsTrue, OnLive
    <2> QED
        BY <2>1
  <1> QED
      BY <1>1, <1>2, TypeCorrect, OrderedInvariant, FlagsInvariant, OnLiveNext, PTL
      DEF Spec, ReportsOwn
-----------------------------------------------------------------------------
(* Generations.                                                            *)

\* The tasks of the generation were started.
Started(g) == dispatcher[g] # "none"

Igniting(c) == at[c] \in {"ignite", "spawned"}

\* A generation belongs to one revive until that revive ignites it, and the
\* engine in the slot is one whose handle nobody gave up.
Reserved ==
    /\ \A g \in Generations : g > generation => engine[g] = "none" /\ ~Started(g)
    /\ \A c \in Callers : Igniting(c) =>
         /\ ~Started(my[c])
         /\ engine[my[c]] = IF at[c] = "ignite" THEN "none" ELSE "up"
    /\ \A c, d \in Callers : Igniting(c) /\ Igniting(d) /\ my[c] = my[d] => c = d
    /\ \A g \in Generations : boot[g] # "none" => Started(g)
    /\ slot # None => Started(slot) /\ engine[slot] = "up"

\* A hook that finds an engine in the slot runs on a live one: a handle that
\* was given up has left the slot first.
SlotUp == slot # None => engine[slot] = "up"

\* What neither begins nor ends an ignition keeps generations apart.
LEMMA ReservedKept ==
    ASSUME TypeOK, Reserved, generation' = generation, slot' \in {slot, None},
           \A c \in Callers : Igniting(c)' => at'[c] = at[c] /\ my'[c] = my[c],
           \A g \in Generations :
             /\ Started(g)' <=> Started(g)
             /\ boot'[g] # "none" => boot[g] # "none"
             /\ \/ engine'[g] = engine[g]
                \/ engine[g] \in {"replaced", "keeping", "closing"}
                \/ (g = slot /\ slot' = None)
    PROVE  Reserved'
  <1>1. \A c \in Callers : my[c] \in Generations
      BY DEF TypeOK
  <1>2. slot \in Generations \cup {None} /\ None \notin Generations
      BY DEF TypeOK, Generations
  <1>3. \A g \in Generations :
          ~Started(g) => engine'[g] = engine[g] \/ engine[g] \in {"replaced", "keeping", "closing"}
      BY <1>2 DEF Reserved
  <1>4. \A g \in Generations : (g > generation)' => (engine[g] = "none" /\ ~Started(g))'
      BY <1>3 DEF Reserved
  <1>5. ASSUME NEW c \in Callers, Igniting(c)'
        PROVE  /\ Igniting(c) /\ at'[c] = at[c] /\ my'[c] = my[c]
               /\ ~Started(my[c])' /\ engine'[my[c]] = engine[my[c]]
    <2>1. Igniting(c) /\ at'[c] = at[c] /\ my'[c] = my[c]
        BY <1>5 DEF Igniting
    <2>2. ~Started(my[c]) /\ engine[my[c]] \in {"none", "up"}
        BY <2>1 DEF Reserved
    <2> QED
        BY <1>1, <1>3, <2>1, <2>2 DEF Started
  <1>6. \A g \in Generations : boot'[g] # "none" => Started(g)'
      BY DEF Reserved
  <1>7. slot' # None => (Started(slot) /\ engine[slot] = "up")'
      BY <1>2 DEF Reserved, Started
  <1> QED
      BY <1>4, <1>5, <1>6, <1>7 DEF Reserved, Started

\* Every step keeps generations apart.
LEMMA ReservedNext ==
    ASSUME TypeOK, Ordered, Reserved, [Next]_vars
    PROVE  Reserved'
  <1> USE DEF hostVars, reviveVars, flagVars, engineVars, taskVars, callVars
  <1>1. /\ slot \in Generations \cup {None} /\ None \notin Generations
        /\ \A d \in Callers : my[d] \in Generations /\ my[d] \in Nat /\ my[d] <= generation
        /\ generation \in Nat /\ \A g \in Generations : g \in Nat
      BY DEF TypeOK, Generations, Ordered
  <1>2. ASSUME NEW c \in Callers, Quiet(c) \/ Marks(c) \/ Lift(c) \/ DeclaredGone(c)
        PROVE  Reserved'
    <2>1. UNCHANGED <<generation, slot, engine, boot, dispatcher>>
        BY <1>2, QuietCall, MarkingCall DEF Lift, DeclaredGone
    <2>2. Others(c) /\ ~Igniting(c)'
        BY <1>2, QuietCall, MarkingCall, ActingCall DEF Acting, Igniting
    <2> QED
        BY <2>1, <2>2, ReservedKept DEF Others, Started
  <1>3. ASSUME NEW c \in Callers, DeclareGone(c) PROVE Reserved'
    <2>1. UNCHANGED <<generation, boot, dispatcher>> /\ slot' = None /\ Others(c) /\ ~Igniting(c)'
        BY <1>3, RetireType, ActingCall DEF DeclareGone, Igniting
    <2>2. \A g \in Generations : g # slot => engine'[g] = engine[g]
        BY <1>3, RetireType DEF DeclareGone
    <2> QED
        BY <2>1, <2>2, ReservedKept DEF Others, Started
  <1>4. ASSUME NEW c \in Callers, Revive(c) PROVE Reserved'
    <2>1. /\ generation' = generation + 1 /\ UNCHANGED <<slot, engine, boot, dispatcher>>
          /\ Others(c) /\ at'[c] = "ignite" /\ my'[c] = generation + 1
        BY <1>4, ActingCall DEF Revive
    <2>2. engine[generation + 1] = "none" /\ ~Started(generation + 1)
      <3>1. generation + 1 \in Generations /\ generation + 1 > generation
          BY <1>1, <1>4 DEF Revive, Generations
      <3> QED
          BY <3>1 DEF Reserved
    <2>3. \A d \in Callers \ {c} : my'[d] # my'[c]
        BY <1>1, <2>1 DEF Others
    <2>4. \A d \in Callers : Igniting(d)' => d = c \/ Igniting(d)
        BY <2>1 DEF Others, Igniting
    <2> QED
        BY <1>1, <2>1, <2>2, <2>3, <2>4 DEF Others, Reserved, Started
  <1>5. ASSUME NEW c \in Callers, Spawn(c) PROVE Reserved'
    <2>1. /\ UNCHANGED <<generation, slot, boot, dispatcher>> /\ Others(c)
          /\ at[c] = "ignite" /\ Igniting(c)
        BY <1>5, ActingCall DEF Spawn, Igniting
    <2>2. CASE at'[c] = "idle" /\ engine' = engine
        BY <2>1, <2>2, ReservedKept DEF Others, Started, Igniting
    <2>3. CASE /\ at'[c] = "spawned" /\ my'[c] = my[c]
               /\ engine' = [engine EXCEPT ![my[c]] = "up"]
      <3>1. /\ engine'[my[c]] = "up"
            /\ \A g \in Generations : g # my[c] => engine'[g] = engine[g]
          BY <1>1, <2>3 DEF TypeOK
      <3>2. \A d \in Callers : Igniting(d)' => Igniting(d) /\ my'[d] = my[d]
          BY <2>1, <2>3 DEF Others, Igniting
      <3>3. \A d \in Callers \ {c} : Igniting(d) => my[d] # my[c]
          BY <2>1 DEF Reserved
      <3> QED
          BY <1>1, <2>1, <2>3, <3>1, <3>2, <3>3 DEF Others, Reserved, Started
    <2> QED
        BY <1>5, <2>2, <2>3, ActingCall
  <1>6. ASSUME NEW c \in Callers, Superseded(c) PROVE Reserved'
    <2>1. /\ UNCHANGED <<generation, slot, boot, dispatcher>> /\ Others(c)
          /\ Igniting(c) /\ ~Igniting(c)' /\ engine' = Closed(engine, my[c])
        BY <1>6, ActingCall DEF Superseded, Igniting
    <2>2. \A g \in Generations : g # my[c] => engine'[g] = engine[g]
        BY <1>1, <2>1, ClosedAt
    <2>3. ~Started(my[c]) /\ \A d \in Callers \ {c} : Igniting(d) => my[d] # my[c]
        BY <2>1 DEF Reserved
    <2>4. \A d \in Callers : Igniting(d)' => d # c /\ Igniting(d) /\ my'[d] = my[d] /\ at'[d] = at[d]
        BY <2>1 DEF Others, Igniting
    <2> QED
        BY <1>1, <2>1, <2>2, <2>3, <2>4 DEF Reserved, Started
  <1>7. ASSUME NEW c \in Callers, Ignite(c) PROVE Reserved'
    <2>1. /\ generation' = generation /\ slot' = my[c] /\ Others(c)
          /\ at[c] = "spawned" /\ Igniting(c) /\ ~Igniting(c)' /\ engine' = Replaced
        BY <1>7, ActingCall DEF Ignite, Igniting
    <2>2. /\ dispatcher'[my[c]] = "running"
          /\ \A g \in Generations : g # my[c] => boot'[g] = boot[g] /\ dispatcher'[g] = dispatcher[g]
      <3>1. /\ boot' = [boot EXCEPT ![my[c]] = "running"]
            /\ dispatcher' = [dispatcher EXCEPT ![my[c]] = "running"]
          BY <1>7 DEF Ignite
      <3> QED
          BY <1>1, <3>1 DEF TypeOK
    <2>3. \A g \in Generations : g # slot => engine'[g] = engine[g]
        BY <2>1, ReplacedAt
    <2>4. /\ ~Started(my[c]) /\ engine[my[c]] = "up" /\ my[c] # slot
          /\ \A d \in Callers \ {c} : Igniting(d) => my[d] # my[c] /\ my[d] # slot
        BY <1>1, <2>1 DEF Reserved
    <2>5. \A d \in Callers : Igniting(d)' => d # c /\ Igniting(d) /\ my'[d] = my[d] /\ at'[d] = at[d]
        BY <2>1 DEF Others, Igniting
    <2>6. \A g \in Generations : g > generation => g # my[c] /\ g # slot
        BY <1>1 DEF Reserved
    <2>7. slot' # None => (Started(slot) /\ engine[slot] = "up")'
        BY <1>1, <2>1, <2>2, <2>3, <2>4 DEF Started
    <2>8. \A g \in Generations : boot'[g] # "none" => Started(g)'
        BY <2>2 DEF Reserved, Started
    <2> QED
        BY <1>1, <2>1, <2>2, <2>3, <2>4, <2>5, <2>6, <2>7, <2>8 DEF Reserved, Started
  <1>8. ASSUME NEW g \in Generations, BootFails(g) PROVE Reserved'
    <2>1. UNCHANGED <<at, my, dispatcher, generation>> /\ slot' \in {slot, None}
        BY <1>8, RetireType DEF BootFails
    <2>2. \A h \in Generations : boot'[h] # "none" => boot[h] # "none"
      <3>1. \/ boot' = [boot EXCEPT ![g] = "gone"]
            \/ boot' = [boot EXCEPT ![g] = "done"]
          BY <1>8 DEF BootFails
      <3>2. boot[g] = "running"
          BY <1>8 DEF BootFails
      <3> QED
          BY <3>1, <3>2 DEF TypeOK
    <2>3. \A h \in Generations : engine'[h] = engine[h] \/ (h = slot /\ slot' = None)
      <3>1. CASE Retire
        <4>1. slot' = None /\ \A h \in Generations : h # slot => engine'[h] = engine[h]
            BY <3>1, RetireType
        <4> QED
            BY <4>1
      <3>2. CASE engine' = engine
          BY <3>2
      <3> QED
          BY <1>8, <3>1, <3>2 DEF BootFails
    <2> QED
        BY <2>1, <2>2, <2>3, ReservedKept DEF Started
  <1>9. ASSUME NEW g \in Generations, BootReady(g) \/ BootGone(g) \/ BootClosed(g)
        PROVE  Reserved'
    <2>1. UNCHANGED <<generation, slot, engine, dispatcher, at, my>>
        BY <1>9 DEF BootReady, BootGone, BootClosed
    <2>2. \A h \in Generations : boot'[h] # "none" => boot[h] # "none"
        BY <1>9 DEF BootReady, BootGone, BootClosed, TypeOK
    <2> QED
        BY <2>1, <2>2, ReservedKept DEF Started
  <1>10. ASSUME NEW g \in Generations,
                Push(g) \/ PushMarks(g) \/ ChannelClosed(g) \/ ChannelGone(g)
         PROVE  Reserved'
    <2>1. UNCHANGED <<generation, slot, engine, boot, at, my>>
        BY <1>10 DEF Push, PushMarks, ChannelClosed, ChannelGone
    <2>2. \A h \in Generations : Started(h)' <=> Started(h)
        BY <1>10 DEF Push, PushMarks, ChannelClosed, ChannelGone, Started, TypeOK
    <2> QED
        BY <2>1, <2>2, ReservedKept
  <1>11. ASSUME NEW g \in Generations, KeeperDone(g) \/ Exit(g) PROVE Reserved'
    <2>1. UNCHANGED <<generation, slot, boot, dispatcher, at, my>>
        BY <1>11 DEF KeeperDone, Exit
    <2>2. \A h \in Generations :
            engine'[h] = engine[h] \/ engine[h] \in {"replaced", "keeping", "closing"}
        BY <1>11 DEF KeeperDone, Exit, Closing, TypeOK
    <2> QED
        BY <2>1, <2>2, ReservedKept DEF Started
  <1>12. CASE ShutdownTakes
    <2>1. UNCHANGED <<generation, boot, dispatcher, at, my>> /\ slot' = None
        BY <1>12 DEF ShutdownTakes
    <2>2. \A h \in Generations : engine'[h] = engine[h] \/ h = slot
        BY <1>1, <1>12, ClosedAt DEF ShutdownTakes
    <2> QED
        BY <2>1, <2>2, ReservedKept DEF Started
  <1>13. CASE Shutdown \/ UNCHANGED vars
    <2>1. UNCHANGED <<generation, slot, engine, boot, dispatcher, at, my>>
        BY <1>13 DEF Shutdown, vars
    <2> QED
        BY <2>1, ReservedKept DEF Started
  <1> QED
      BY <1>2, <1>3, <1>4, <1>5, <1>6, <1>7, <1>8, <1>9, <1>10, <1>11, <1>12, <1>13, Steps

\* Generations are kept apart in every state the host reaches.
LEMMA ReservedInvariant == Spec => []Reserved
  <1>1. Init => Reserved
      BY DEF Init, Reserved, Started, Igniting, Generations
  <1> QED
      BY <1>1, TypeCorrect, OrderedInvariant, ReservedNext, PTL DEF Spec

\* No call picks an engine whose handle was given up, however reports of
\* death, revives and a shutdown race.
THEOREM SlotIsLive == Spec => []SlotUp
  <1>1. Reserved => SlotUp
      BY DEF Reserved, SlotUp
  <1> QED
      BY <1>1, ReservedInvariant, PTL

-----------------------------------------------------------------------------
(* Waits for init.                                                         *)

\* A reported death is told by host_gone or about to be, and so is the end of
\* an engine's channel once its dispatcher is done.
Deaths ==
    /\ DeathUnderway(generation) => reported
    /\ ~blind /\ reported => gone \/ DeathUnderway(generation)
    /\ ~blind /\ dispatcher[generation] = "done" => gone

\* Somebody will still lift host_gone for the live generation.
Lifting ==
    \E c \in Callers : at[c] = "lift" /\ my[c] = generation /\ ~DeathLatched(generation)

\* InitOwed, promised from the ignition on.
Owed ==
    ~blind /\ (~gone \/ Lifting)
      => initialized \/ InitPending(generation) \/ DeathPending(generation)

\* Every step keeps the account of deaths.
LEMMA DeathsNext ==
    ASSUME TypeOK, Ordered, Reserved, Deaths, [Next]_vars
    PROVE  Deaths'
  <1> USE DEF hostVars, reviveVars, flagVars, engineVars, taskVars, callVars
  <1>1. /\ generation \in Generations /\ generation \in Nat
        /\ \A d \in Callers : my[d] \in Nat /\ my[d] <= generation
      BY DEF TypeOK, Generations, Ordered
  <1>2. ASSUME UNCHANGED <<generation, reported, gone, dispatcher, boot>>,
               NEW c \in Callers, Others(c), at[c] # "gone", at'[c] # "gone"
        PROVE  Deaths'
      BY <1>2, BlindLasts DEF Deaths, DeathUnderway, Others
  <1>3. ASSUME NEW c \in Callers, Quiet(c) \/ Marks(c) PROVE Deaths'
    <2>1. UNCHANGED <<generation, reported, gone, dispatcher, boot>>
        BY <1>3, QuietCall, MarkingCall DEF MarkInitialized
    <2> QED
        BY <1>2, <1>3, <2>1, QuietCall, MarkingCall DEF Acting
  <1>4. ASSUME NEW c \in Callers, Spawn(c) \/ Superseded(c) PROVE Deaths'
      BY <1>2, <1>4, ActingCall DEF Spawn, Superseded
  <1>5. ASSUME NEW c \in Callers, Revive(c) PROVE Deaths'
    <2>1. /\ gone' = TRUE /\ reported' = FALSE /\ generation' = generation + 1
          /\ boot' = boot /\ Others(c) /\ at'[c] = "ignite"
        BY <1>5, ActingCall DEF Revive, TypeOK
    <2>2. boot[generation + 1] # "gone"
      <3>1. generation + 1 \in Generations /\ generation + 1 > generation
          BY <1>1, <1>5 DEF Revive, Generations
      <3> QED
          BY <3>1 DEF Reserved
    <2>3. ~DeathUnderway(generation)'
        BY <1>1, <2>1, <2>2 DEF DeathUnderway, Others
    <2> QED
        BY <2>1, <2>3 DEF Deaths
  <1>6. ASSUME NEW c \in Callers, Ignite(c) PROVE Deaths'
    <2>1. /\ UNCHANGED <<generation, reported, gone, blind>> /\ my[c] = generation
          /\ at[c] = "spawned" /\ Others(c) /\ at'[c] = "lift"
        BY <1>6, ActingCall DEF Ignite
    <2>2. boot'[generation] = "running" /\ dispatcher'[generation] = "running"
        BY <1>1, <1>6 DEF Ignite, TypeOK
    <2>3. boot[generation] = "none"
        BY <1>1, <2>1 DEF Reserved, Igniting, TypeOK
    <2> QED
        BY <2>1, <2>2, <2>3 DEF Deaths, DeathUnderway, Others
  <1>7. ASSUME NEW c \in Callers, Lift(c) PROVE Deaths'
    <2>1. /\ UNCHANGED <<generation, reported, boot, dispatcher>>
          /\ at[c] = "lift" /\ Others(c) /\ at'[c] = "init"
        BY <1>7, ActingCall DEF Lift
    <2>2. ~blind' => ~reported /\ dispatcher[generation] # "done"
        BY <1>7 DEF Lift, DeathLatched
    <2> QED
        BY <2>1, <2>2 DEF Deaths, DeathUnderway, Others
  <1>8. ASSUME NEW c \in Callers, DeclareGone(c) PROVE Deaths'
    <2>1. /\ reported' = TRUE /\ UNCHANGED <<generation, gone, blind, dispatcher>>
          /\ my[c] = generation
        BY <1>8, RetireType DEF DeclareGone, FirstReport
    <2>2. at'[c] = "gone" /\ my'[c] = generation'
        BY <1>8, <2>1, ActingCall
    <2> QED
        BY <2>1, <2>2 DEF Deaths, DeathUnderway
  <1>9. ASSUME NEW c \in Callers, DeclaredGone(c) PROVE Deaths'
    <2>1. /\ gone' = TRUE /\ UNCHANGED <<generation, reported, boot>>
          /\ Others(c) /\ at'[c] = "idle"
        BY <1>9, ActingCall DEF DeclaredGone, SetGone
    <2> QED
        BY <2>1 DEF Deaths, DeathUnderway, Others
  <1>10. ASSUME NEW g \in Generations, BootFails(g) PROVE Deaths'
    <2>1. UNCHANGED <<generation, gone, blind, dispatcher, at, my>> /\ boot[g] = "running"
        BY <1>10, RetireType DEF BootFails
    <2>2. CASE FirstReport(g)
      <3>1. reported' = TRUE /\ boot'[generation] = "gone"
          BY <1>10, <2>2, RetireType DEF BootFails, FirstReport, TypeOK
      <3> QED
          BY <2>1, <3>1 DEF Deaths, DeathUnderway
    <2>3. CASE ~FirstReport(g)
      <3>1. reported' = reported /\ (boot'[generation] = "gone" <=> boot[generation] = "gone")
          BY <1>10, <2>3 DEF BootFails, TypeOK
      <3> QED
          BY <2>1, <3>1 DEF Deaths, DeathUnderway
    <2> QED
        BY <2>2, <2>3
  <1>11. ASSUME NEW g \in Generations, BootGone(g) \/ ChannelGone(g) PROVE Deaths'
    <2>1. gone' = TRUE /\ UNCHANGED <<generation, reported, at, my>>
        BY <1>11 DEF BootGone, ChannelGone, SetGone
    <2>2. boot'[generation] = "gone" => boot[generation] = "gone"
        BY <1>11 DEF BootGone, ChannelGone, TypeOK
    <2> QED
        BY <2>1, <2>2 DEF Deaths, DeathUnderway
  <1>12. ASSUME NEW g \in Generations, BootReady(g) \/ BootClosed(g) PROVE Deaths'
    <2>1. UNCHANGED <<generation, reported, gone, blind, dispatcher, at, my>>
        BY <1>12 DEF BootReady, BootClosed
    <2>2. boot'[generation] = "gone" <=> boot[generation] = "gone"
        BY <1>12 DEF BootReady, BootClosed, TypeOK
    <2> QED
        BY <2>1, <2>2 DEF Deaths, DeathUnderway
  <1>13. ASSUME NEW g \in Generations, Push(g) \/ PushMarks(g) \/ ChannelClosed(g)
         PROVE  Deaths'
    <2>1. UNCHANGED <<generation, reported, gone, boot, at, my>>
        BY <1>13 DEF Push, PushMarks, MarkInitialized, ChannelClosed
    <2>2. dispatcher'[generation] = "done" => dispatcher[generation] = "done"
        BY <1>1, <1>13 DEF Push, PushMarks, ChannelClosed, TypeOK
    <2> QED
        BY <2>1, <2>2, BlindLasts DEF Deaths, DeathUnderway
  <1>14. ASSUME \/ Shutdown \/ ShutdownTakes \/ UNCHANGED vars
                \/ \E g \in Generations : KeeperDone(g) \/ Exit(g)
         PROVE  Deaths'
    <2>1. UNCHANGED <<generation, reported, gone, blind, boot, dispatcher, at, my>>
        BY <1>14 DEF Shutdown, ShutdownTakes, KeeperDone, Exit, vars
    <2> QED
        BY <2>1 DEF Deaths, DeathUnderway
  <1> QED
      BY <1>3, <1>4, <1>5, <1>6, <1>7, <1>8, <1>9, <1>10, <1>11, <1>12, <1>13, <1>14, Steps

\* A step that takes nothing away from the live generation keeps the promise.
LEMMA OwedKept ==
    ASSUME TypeOK, Owed, [Next]_vars, UNCHANGED <<generation, reported, gone>>,
           initialized => initialized',
           \A c \in Callers : /\ at'[c] = "lift" => at[c] = "lift" /\ my'[c] = my[c]
                              /\ at[c] = "gone" => at'[c] = "gone" /\ my'[c] = my[c],
           boot'[generation] = boot[generation],
           dispatcher'[generation] = dispatcher[generation],
           generation \in pushes => generation \in pushes',
           Dead(generation) => Dead(generation)'
    PROVE  Owed'
  <1>1. Lifting' => Lifting
      BY DEF Lifting, DeathLatched
  <1>2. InitPending(generation) => InitPending(generation)'
      BY DEF InitPending
  <1>3. DeathPending(generation) => DeathPending(generation)'
      BY DEF DeathPending, DeathUnderway
  <1> QED
      BY <1>1, <1>2, <1>3, BlindLasts DEF Owed

\* No engine takes the place of the live generation's.
NotReplaced == engine[generation] # "replaced"

\* Every step leaves the live generation's engine in its place: an ignition
\* replaces an older one.
LEMMA NotReplacedNext ==
    ASSUME TypeOK, Ordered, Reserved, NotReplaced, [Next]_vars
    PROVE  NotReplaced'
  <1> USE DEF hostVars, reviveVars, flagVars, engineVars, taskVars, callVars, NotReplaced
  <1>1. /\ generation \in Generations /\ slot \in Generations \cup {None}
        /\ \A d \in Callers : my[d] \in Generations
      BY DEF TypeOK
  <1>2. ASSUME NEW c \in Callers, Quiet(c) \/ Marks(c) \/ Lift(c) \/ DeclaredGone(c)
        PROVE  NotReplaced'
      BY <1>2, QuietCall, MarkingCall DEF Lift, DeclaredGone
  <1>3. ASSUME NEW c \in Callers, Revive(c) PROVE NotReplaced'
    <2>1. generation + 1 \in Generations /\ generation + 1 > generation
        BY <1>3 DEF Revive, Generations, TypeOK
    <2>2. engine[generation + 1] = "none"
        BY <2>1 DEF Reserved
    <2> QED
        BY <1>3, <2>2 DEF Revive
  <1>4. ASSUME NEW c \in Callers, Spawn(c) PROVE NotReplaced'
      BY <1>1, <1>4 DEF Spawn, TypeOK
  <1>5. ASSUME NEW c \in Callers, Superseded(c) PROVE NotReplaced'
      BY <1>1, <1>5, ClosedAt DEF Superseded
  <1>6. ASSUME NEW c \in Callers, Ignite(c) PROVE NotReplaced'
    <2>1. my[c] = generation /\ generation' = generation /\ engine' = Replaced /\ Igniting(c)
        BY <1>6 DEF Ignite, Igniting
    <2>2. slot # generation
        BY <1>1, <2>1 DEF Reserved, Generations
    <2> QED
        BY <1>1, <2>1, <2>2, ReplacedAt
  <1>7. ASSUME Retire PROVE NotReplaced'
      BY <1>1, <1>7, RetireType
  <1>8. ASSUME NEW c \in Callers, DeclareGone(c) PROVE NotReplaced'
      BY <1>7, <1>8 DEF DeclareGone
  <1>9. ASSUME NEW g \in Generations, BootFails(g) PROVE NotReplaced'
    <2>1. CASE Retire
        BY <1>7, <2>1
    <2>2. CASE UNCHANGED <<reviveVars, engine>>
        BY <2>2
    <2> QED
        BY <1>9, <2>1, <2>2 DEF BootFails
  <1>10. ASSUME NEW g \in Generations,
                \/ BootReady(g) \/ BootGone(g) \/ BootClosed(g) \/ Push(g) \/ PushMarks(g)
                \/ ChannelClosed(g) \/ ChannelGone(g)
         PROVE  NotReplaced'
      BY <1>10
      DEF BootReady, BootGone, BootClosed, Push, PushMarks, ChannelClosed, ChannelGone
  <1>11. ASSUME NEW g \in Generations, KeeperDone(g) \/ Exit(g) PROVE NotReplaced'
      BY <1>1, <1>11 DEF KeeperDone, Exit, TypeOK
  <1>12. CASE ShutdownTakes
      BY <1>1, <1>12, ClosedAt DEF ShutdownTakes
  <1>13. CASE Shutdown \/ UNCHANGED vars
      BY <1>13 DEF Shutdown, vars
  <1> QED
      BY <1>2, <1>3, <1>4, <1>5, <1>6, <1>8, <1>9, <1>10, <1>11, <1>12, <1>13, Steps

\* Every step keeps the promise to those who wait for the gate.
LEMMA OwedNext ==
    ASSUME TypeOK, Ordered, Reserved, Deaths, NotReplaced, Owed, [Next]_vars, NotReplaced'
    PROVE  Owed'
  <1> USE DEF hostVars, reviveVars, flagVars, engineVars, taskVars, callVars
  <1>0. /\ Dead(generation) <=> engine[generation] \in {"closing", "exited"}
        /\ Dead(generation)' <=> engine'[generation'] \in {"closing", "exited"}
      BY DEF NotReplaced, Dead, Closing
  <1>1. /\ generation \in Generations /\ generation \in Nat
        /\ slot \in Generations \cup {None}
        /\ \A d \in Callers : my[d] \in Generations /\ my[d] \in Nat /\ my[d] <= generation
      BY DEF TypeOK, Generations, Ordered
  <1>2. ASSUME gone', DeathLatched(generation)' PROVE Owed'
      BY <1>2 DEF Owed, Lifting
  <1>3. ASSUME NEW c \in Callers, Quiet(c) PROVE Owed'
    <2>1. /\ UNCHANGED <<generation, reported, gone, initialized, boot, dispatcher, pushes, engine>>
          /\ Others(c) /\ at[c] \notin Acting /\ at'[c] \notin Acting
        BY <1>3, QuietCall
    <2> QED
        BY <1>0, <2>1, OwedKept DEF Others, Acting
  <1>4. ASSUME initialized' PROVE Owed'
      BY <1>4 DEF Owed
  <1>5. ASSUME NEW c \in Callers, Marks(c) PROVE Owed'
      BY <1>4, <1>5, MarkingCall DEF MarkInitialized
  <1>6. ASSUME NEW c \in Callers, Revive(c) PROVE Owed'
    <2>1. gone' /\ generation' = generation + 1 /\ Others(c) /\ at'[c] = "ignite"
        BY <1>6, ActingCall DEF Revive
    <2>2. ~Lifting'
        BY <1>1, <2>1 DEF Lifting, Others
    <2> QED
        BY <2>1, <2>2 DEF Owed
  <1>7. ASSUME NEW c \in Callers, Spawn(c) \/ Superseded(c) PROVE Owed'
    <2>1. UNCHANGED <<generation, reported, gone, initialized, boot, dispatcher, pushes>>
        BY <1>7 DEF Spawn, Superseded
    <2>2. Others(c) /\ at[c] \in {"ignite", "spawned"} /\ at'[c] \in {"idle", "spawned"}
        BY <1>7, ActingCall DEF Spawn, Superseded
    <2>3. Dead(generation) => Dead(generation)'
      <3>1. engine[my[c]] \in {"none", "up"}
          BY <2>2 DEF Reserved, Igniting
      <3>2. my[c] # generation => engine'[generation] = engine[generation]
        <4>1. CASE Spawn(c)
            BY <1>1, <4>1 DEF Spawn, TypeOK
        <4>2. CASE Superseded(c)
            BY <1>1, <4>2, ClosedAt DEF Superseded
        <4> QED
            BY <1>7, <4>1, <4>2
      <3> QED
          BY <1>0, <2>1, <3>1, <3>2
    <2> QED
        BY <2>1, <2>2, <2>3, OwedKept DEF Others
  <1>8. ASSUME NEW c \in Callers, Ignite(c) PROVE Owed'
    <2>1. boot'[generation] = "running" /\ generation' = generation
        BY <1>1, <1>8 DEF Ignite, TypeOK
    <2> QED
        BY <2>1 DEF Owed, InitPending
  <1>9. ASSUME NEW c \in Callers, Lift(c) PROVE Owed'
    <2>1. /\ UNCHANGED <<generation, reported, initialized, boot, dispatcher, pushes, engine>>
          /\ Others(c) /\ at[c] = "lift" /\ at'[c] = "init"
        BY <1>9, ActingCall DEF Lift
    <2>2. ~blind' => ~blind /\ Lifting
        BY <1>9, <2>1 DEF Lift, Lifting
    <2>3. DeathPending(generation) => DeathPending(generation)'
        BY <1>0, <2>1 DEF DeathPending, DeathUnderway, Others
    <2> QED
        BY <2>1, <2>2, <2>3 DEF Owed, InitPending
  <1>10. ASSUME NEW c \in Callers, DeclareGone(c) PROVE Owed'
    <2>1. my[c] = generation /\ generation' = generation
        BY <1>10, RetireType DEF DeclareGone, FirstReport
    <2>2. at'[c] = "gone" /\ my'[c] = generation'
        BY <1>10, <2>1, ActingCall
    <2> QED
        BY <2>2 DEF Owed, DeathPending, DeathUnderway
  <1>11. ASSUME NEW c \in Callers, DeclaredGone(c) PROVE Owed'
    <2>1. gone' /\ at[c] = "gone" /\ UNCHANGED <<generation, reported>>
        BY <1>11 DEF DeclaredGone, SetGone
    <2>2. ~blind' => my[c] = generation
        BY <1>11 DEF DeclaredGone, SetGone
    <2>3. ~blind' => reported
        BY <2>1, <2>2 DEF Deaths, DeathUnderway
    <2> QED
        BY <2>1, <2>3 DEF Owed, Lifting, DeathLatched
  <1>12. ASSUME NEW g \in Generations, BootGone(g) PROVE Owed'
    <2>1. gone' /\ boot[g] = "gone" /\ UNCHANGED <<generation, reported>>
        BY <1>12 DEF BootGone, SetGone
    <2>2. ~blind' => g = generation
        BY <1>12 DEF BootGone, SetGone
    <2>3. ~blind' => reported
        BY <2>1, <2>2 DEF Deaths, DeathUnderway
    <2> QED
        BY <2>1, <2>3 DEF Owed, Lifting, DeathLatched
  <1>13. ASSUME NEW g \in Generations, ChannelGone(g) PROVE Owed'
    <2>1. gone' /\ generation' = generation /\ dispatcher'[g] = "done"
        BY <1>13 DEF ChannelGone, SetGone, TypeOK
    <2>2. ~blind' => g = generation
        BY <1>13 DEF ChannelGone, SetGone
    <2> QED
        BY <2>1, <2>2 DEF Owed, Lifting, DeathLatched
  <1>14. ASSUME NEW g \in Generations, g # generation,
                \/ BootReady(g) \/ BootFails(g) \/ BootClosed(g) \/ Push(g) \/ ChannelClosed(g)
         PROVE  Owed'
    <2>1. UNCHANGED <<generation, reported, gone, initialized, engine, at, my>>
        BY <1>14 DEF BootReady, BootFails, FirstReport, BootClosed, Push, ChannelClosed
    <2>2. boot'[generation] = boot[generation]
        BY <1>1, <1>14
        DEF BootReady, BootFails, FirstReport, BootClosed, Push, ChannelClosed, TypeOK
    <2>3. dispatcher'[generation] = dispatcher[generation]
        BY <1>1, <1>14 DEF BootReady, BootFails, BootClosed, Push, ChannelClosed, TypeOK
    <2>4. generation \in pushes => generation \in pushes'
        BY <1>14 DEF BootReady, BootFails, BootClosed, Push, ChannelClosed
    <2> QED
        BY <1>0, <2>1, <2>2, <2>3, <2>4, OwedKept
  <1>15. CASE BootReady(generation) \/ BootClosed(generation)
    <2>1. /\ UNCHANGED <<generation, reported, gone, blind, dispatcher, engine, at, my>>
          /\ boot[generation] = "running"
          /\ generation \in pushes' \/ Dead(generation)
        BY <1>15 DEF BootReady, BootClosed
    <2>2. dispatcher[generation] \in {"running", "mark", "gone", "done"}
        BY <1>1, <2>1 DEF Reserved, Started, TypeOK
    <2>3. CASE dispatcher[generation] = "done"
        BY <1>2, <2>1, <2>3 DEF Deaths, DeathLatched, Owed
    <2>4. CASE dispatcher[generation] # "done"
        BY <1>0, <2>1, <2>2, <2>4 DEF Owed, InitPending, DeathPending
    <2> QED
        BY <2>3, <2>4
  <1>16. CASE BootFails(generation)
    <2>1. /\ UNCHANGED <<generation, gone, blind, at, my>>
          /\ boot[generation] = "running"
        BY <1>16, RetireType DEF BootFails
    <2>2. CASE ~reported
      <3>1. boot'[generation] = "gone"
          BY <1>1, <1>16, <2>2 DEF BootFails, FirstReport, TypeOK
      <3> QED
          BY <2>1, <3>1 DEF Owed, DeathPending, DeathUnderway
    <2>3. CASE reported
      <3>1. reported'
          BY <1>16, <2>3 DEF BootFails, FirstReport
      <3>2. CASE gone
          BY <1>2, <2>1, <3>1, <3>2 DEF DeathLatched
      <3>3. CASE ~gone
        <4>1. ~blind' => \E c \in Callers : at'[c] = "gone" /\ my'[c] = generation'
            BY <2>1, <2>3, <3>3 DEF Deaths, DeathUnderway
        <4> QED
            BY <4>1 DEF Owed, DeathPending, DeathUnderway
      <3> QED
          BY <3>2, <3>3
    <2> QED
        BY <2>2, <2>3
  <1>17. CASE Push(generation)
    <2>1. UNCHANGED <<generation, reported, gone>> /\ dispatcher[generation] = "running"
        BY <1>17 DEF Push
    <2>2. CASE ~gone
      <3>1. dispatcher'[generation] = "mark"
          BY <1>1, <1>17, <2>2 DEF Push, TypeOK
      <3> QED
          BY <2>1, <3>1 DEF Owed, InitPending
    <2>3. CASE gone
      <3>1. ~blind' => reported
          BY <1>17, <2>1, <2>3 DEF Push, DeathLatched
      <3> QED
          BY <2>1, <2>3, <3>1 DEF Owed, Lifting, DeathLatched
    <2> QED
        BY <2>2, <2>3
  <1>18. ASSUME NEW g \in Generations, PushMarks(g) PROVE Owed'
      BY <1>4, <1>18 DEF PushMarks, MarkInitialized
  <1>19. CASE ChannelClosed(generation)
    <2>1. dispatcher'[generation] = "gone" /\ generation' = generation
        BY <1>1, <1>19 DEF ChannelClosed, TypeOK
    <2> QED
        BY <2>1 DEF Owed, DeathPending
  <1>20. ASSUME \/ Shutdown \/ ShutdownTakes \/ UNCHANGED vars
                \/ \E g \in Generations : KeeperDone(g) \/ Exit(g)
         PROVE  Owed'
    <2>1. UNCHANGED <<generation, reported, gone, initialized, boot, dispatcher, pushes, at, my>>
        BY <1>20 DEF Shutdown, ShutdownTakes, KeeperDone, Exit, vars
    <2>2. Dead(generation) => Dead(generation)'
      <3>1. CASE Shutdown \/ UNCHANGED vars
          BY <1>0, <3>1 DEF Shutdown, vars
      <3>2. CASE ShutdownTakes
          BY <1>0, <1>1, <3>2, ClosedAt DEF ShutdownTakes
      <3>3. ASSUME NEW g \in Generations, KeeperDone(g) \/ Exit(g)
            PROVE  Dead(generation) => Dead(generation)'
          BY <1>0, <1>1, <3>3 DEF KeeperDone, Exit, TypeOK
      <3> QED
          BY <1>20, <3>1, <3>2, <3>3
    <2> QED
        BY <2>1, <2>2, OwedKept
  <1> QED
    <2>1. ASSUME NEW g \in Generations,
                 \/ BootReady(g) \/ BootFails(g) \/ BootClosed(g) \/ Push(g) \/ ChannelClosed(g)
          PROVE  Owed'
        BY <1>14, <1>15, <1>16, <1>17, <1>19, <2>1
    <2> QED
        BY <1>3, <1>5, <1>6, <1>7, <1>8, <1>9, <1>10, <1>11, <1>12, <1>13, <1>18, <1>20, <2>1,
            Steps

\* A call that waits for init is never forgotten: for every race of boots,
\* deaths, revives and a shutdown that meets no window, the gate is open, or a
\* task is left that opens it or tells the death that fails the wait.
THEOREM InitStaysOwed == Spec => []InitOwed
  <1>1. Init => Deaths /\ NotReplaced /\ Owed
      BY DEF Init, Deaths, DeathUnderway, NotReplaced, Owed, InitPending, Generations
  <1>2. Owed => InitOwed
      BY DEF Owed, InitOwed
  <1> QED
      BY <1>1, <1>2, TypeCorrect, OrderedInvariant, ReservedInvariant, DeathsNext, NotReplacedNext,
          OwedNext, PTL
      DEF Spec
=============================================================================
