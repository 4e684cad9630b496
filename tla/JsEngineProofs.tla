--------------------------- MODULE JsEngineProofs ---------------------------
(***************************************************************************)
(* What one JavaScript engine promises for any set of requests, deadlines  *)
(* and behaviours of the JavaScript: whom a termination may hit, what a    *)
(* condemned isolate does, and that no caller is told a wrong reason.      *)
(***************************************************************************)
EXTENDS JsEngine, TLAPS

\* Who holds the watchdog: the running job alone, whose deadline is either
\* still armed or has passed.
Guarded ==
    /\ watched => running # NoRequest /\ running \in armed \cup expired
    /\ thread = "ticking" => \A g \in armed : g = running /\ g \in Requests /\ watched
    /\ watched /\ thread = "ticking" => Parked = {}

\* The engine thread leaves its loop only once the channel is closed.
ClosedThread == thread # "ticking" => ~open

\* The inductive invariant.
EngineInv ==
    /\ TypeOK /\ Guarded /\ ClosedThread
    /\ CondemnedIdle /\ HonestReply /\ TerminationOwned

-----------------------------------------------------------------------------
(* Replies.                                                                *)

\* What an action that replies has to show: its reasons are true.
Honest(f) ==
    \A r \in Requests : r \in DOMAIN f =>
        /\ f[r] \in {"ok"} \cup Errors
        /\ f[r] = "deadline" => r \in expired'
        /\ f[r] = "memory" => condemned'
        /\ f[r] = "closed" => ~open'

\* A true reply keeps HonestReply, and its callers are no longer parked.
LEMMA ReplyInv ==
    ASSUME TypeOK, HonestReply, NEW f, ReplyTo(f), Honest(f),
           expired \subseteq expired', condemned => condemned', open' => open
    PROVE  /\ reply' \in [Requests -> {"none", "ok"} \cup Errors]
           /\ status' \in [Requests -> {"new", "queued", "running", "parked", "done"}]
           /\ HonestReply'
           /\ Parked' = Parked \ DOMAIN f
<1>1. \A r \in Requests :
        /\ reply'[r] = IF r \in DOMAIN f THEN f[r] ELSE reply[r]
        /\ status'[r] = IF r \in DOMAIN f THEN "done" ELSE status[r]
  BY DEF ReplyTo
<1>2. reply' \in [Requests -> {"none", "ok"} \cup Errors]
  BY DEF ReplyTo, Honest, TypeOK
<1>3. status' \in [Requests -> {"new", "queued", "running", "parked", "done"}]
  BY DEF ReplyTo, TypeOK
<1>4. HonestReply'
  BY <1>1 DEF Honest, HonestReply
<1>5. Parked' = Parked \ DOMAIN f
  BY <1>1 DEF Parked
<1>6. QED
  BY <1>2, <1>3, <1>4, <1>5

\* A reply that keeps HonestReply where no one is answered.
LEMMA HonestKept ==
    ASSUME HonestReply, reply' = reply, expired \subseteq expired',
           condemned => condemned', open' => open
    PROVE  HonestReply'
  BY DEF HonestReply

\* The sweep of a fired heap cap answers the job and every parked call.
LEMMA SweptFacts ==
    ASSUME NEW r \in Requests, NEW v, NEW o \in BOOLEAN,
           NEW f, f = SweptWith(r, v, o)
    PROVE  /\ r \in DOMAIN f
           /\ o => Parked \subseteq DOMAIN f
           /\ \A x \in DOMAIN f :
                (x = r /\ f[x] = v) \/ (x # r /\ o /\ f[x] = "memory")
  BY DEF SweptWith

\* The job at the head of the channel is a request.
LEMMA HeadType ==
    ASSUME TypeOK, queue # <<>>
    PROVE  Head(queue) \in Requests /\ Tail(queue) \in Seq(Requests)
  BY DEF TypeOK

-----------------------------------------------------------------------------

\* An engine that has just been started.
LEMMA EngineInitInv == Init => EngineInv
<1>1. SUFFICES ASSUME Init PROVE EngineInv
  OBVIOUS
<1>2. TypeOK
  <2>1. queue \in Seq(Requests)
    BY <1>1 DEF Init
  <2>2. QED
    BY <1>1, <2>1 DEF Init, TypeOK
<1>3. Guarded /\ ClosedThread /\ CondemnedIdle /\ HonestReply /\ TerminationOwned
  BY <1>1
  DEF Init, Guarded, ClosedThread, CondemnedIdle, HonestReply,
      TerminationOwned, Parked
<1>4. QED
  BY <1>2, <1>3 DEF EngineInv

\* Submitting, abandoning and dropping the handle.
LEMMA HandleInv ==
    ASSUME EngineInv,
           \/ \E r \in Requests : Submit(r)
           \/ AbandonTerminate \/ AbandonClose \/ Drop
    PROVE  EngineInv'
<1>1. ASSUME NEW r \in Requests, Submit(r) PROVE EngineInv'
  <2>1. UNCHANGED <<open, abandoned, running, watched, ready, armed, expired,
                    oom, terminating, condemned, thread>>
    BY <1>1 DEF Submit, healthVars
  <2>2. /\ status' \in [Requests -> {"new", "queued", "running", "parked", "done"}]
        /\ Parked' = Parked
    BY <1>1 DEF Submit, EngineInv, TypeOK, Parked
  <2>3. queue' \in Seq(Requests)
    BY <1>1 DEF Submit, EngineInv, TypeOK
  <2>4. reply' \in [Requests -> {"none", "ok"} \cup Errors] /\ HonestReply'
    <3>1. CASE UNCHANGED reply
      BY <2>1, <3>1, HonestKept DEF EngineInv, TypeOK
    <3>2. CASE reply' = [reply EXCEPT ![r] = "closed"] /\ (~open \/ thread = "gone")
      <4>1. ~open
        BY <3>2 DEF EngineInv, ClosedThread
      <4>2. QED
        BY <2>1, <3>2, <4>1 DEF EngineInv, TypeOK, HonestReply, Errors
    <3>3. QED
      BY <1>1, <3>1, <3>2 DEF Submit
  <2>5. TypeOK'
    BY <2>1, <2>2, <2>3, <2>4 DEF EngineInv, TypeOK
  <2>6. QED
    BY <2>1, <2>2, <2>4, <2>5
    DEF EngineInv, Guarded, ClosedThread, CondemnedIdle, TerminationOwned, GuardFired
<1>2. CASE AbandonTerminate
  BY <1>2
  DEF AbandonTerminate, jobVars, EngineInv, TypeOK, Guarded, ClosedThread,
      CondemnedIdle, HonestReply, TerminationOwned, GuardFired, Parked
<1>3. CASE AbandonClose \/ Drop
  <2>1. open' = FALSE /\ UNCHANGED <<abandoned, jobVars, healthVars, thread>>
    BY <1>3 DEF AbandonClose, Drop
  <2>2. QED
    BY <2>1
    DEF jobVars, healthVars, EngineInv, TypeOK, Guarded, ClosedThread,
        CondemnedIdle, HonestReply, TerminationOwned, GuardFired, Parked
<1>4. QED
  BY <1>1, <1>2, <1>3

\* Deadlines that pass, the watchdog and the heap cap.
LEMMA ClockInv ==
    ASSUME EngineInv,
           \/ \E r \in Requests : Expire(r)
           \/ \E g \in Requests \cup {Flush} : Fire(g)
           \/ OutOfMemory
    PROVE  EngineInv'
<1>1. ASSUME NEW r \in Requests, Expire(r) PROVE EngineInv'
  BY <1>1
  DEF Expire, jobVars, EngineInv, TypeOK, Guarded, ClosedThread,
      CondemnedIdle, HonestReply, TerminationOwned, GuardFired, Parked
<1>2. ASSUME NEW g \in Requests \cup {Flush}, Fire(g) PROVE EngineInv'
  <2>1. /\ g \in armed /\ g \in expired \cup {Flush}
        /\ armed' = armed \ {g} /\ terminating' = TRUE
        /\ UNCHANGED <<open, abandoned, queue, status, reply, running, watched,
                       ready, expired, oom, condemned, thread>>
    BY <1>2 DEF Fire, jobVars
  <2>2. TypeOK' /\ ClosedThread' /\ CondemnedIdle' /\ HonestReply'
    BY <2>1 DEF EngineInv, TypeOK, ClosedThread, CondemnedIdle, HonestReply, Parked
  <2>3. running \in Requests \cup {NoRequest} /\ expired \in SUBSET Requests
    BY DEF EngineInv, TypeOK
  <2>4. watched => running \in Requests
    BY <2>3 DEF EngineInv, Guarded
  <2>5. Guarded'
    <3>1. watched => running \in armed' \cup expired
      BY <2>1, <2>4, EngineAssumption DEF EngineInv, Guarded
    <3>2. Parked' = Parked
      BY <2>1 DEF Parked
    <3>3. QED
      BY <2>1, <3>1, <3>2 DEF EngineInv, Guarded
  <2>6. TerminationOwned'
    BY <2>1, EngineAssumption DEF EngineInv, Guarded, TerminationOwned, GuardFired
  <2>7. QED
    BY <2>2, <2>5, <2>6 DEF EngineInv
<1>3. CASE OutOfMemory
  BY <1>3
  DEF OutOfMemory, jobVars, EngineInv, TypeOK, Guarded, ClosedThread,
      CondemnedIdle, HonestReply, TerminationOwned, GuardFired, Parked
<1>4. QED
  BY <1>1, <1>2, <1>3

\* Taking a job: refused, acknowledged, or set up.
LEMMA TakeInv ==
    ASSUME EngineInv, RefuseJob \/ GcJob \/ StartJob
    PROVE  EngineInv'
<1> DEFINE h == Head(queue)
<1>1. queue # <<>> /\ thread = "ticking" /\ running = NoRequest
  BY DEF RefuseJob, GcJob, StartJob, TakesJob, AtTick
<1>2. h \in Requests /\ Tail(queue) \in Seq(Requests)
  BY <1>1, HeadType DEF EngineInv
<1>3. ~watched /\ armed = {}
  BY <1>1, EngineAssumption DEF EngineInv, Guarded
<1>4. CASE RefuseJob \/ GcJob
  <2> DEFINE v == IF Kind[h] = "gc" THEN "ok" ELSE "memory"
  <2>1. /\ queue' = Tail(queue) /\ ReplyTo(Answer(h, v))
        /\ v = "memory" => condemned
        /\ UNCHANGED <<open, abandoned, running, watched, ready, armed, expired,
                       oom, terminating, condemned, thread>>
    BY <1>4 DEF RefuseJob, GcJob, healthVars
  <2>2. v \in {"ok", "memory"}
    OBVIOUS
  <2> HIDE DEF v, h
  <2>3. Honest(Answer(h, v))
    BY <2>1, <2>2 DEF Honest, Answer, Errors
  <2>4. /\ reply' \in [Requests -> {"none", "ok"} \cup Errors]
        /\ status' \in [Requests -> {"new", "queued", "running", "parked", "done"}]
        /\ HonestReply'
        /\ Parked' \subseteq Parked
    BY <2>1, <2>3, ReplyInv DEF EngineInv
  <2>5. TypeOK'
    BY <1>2, <2>1, <2>4 DEF EngineInv, TypeOK
  <2>6. QED
    BY <2>1, <2>4, <2>5
    DEF EngineInv, Guarded, ClosedThread, CondemnedIdle, TerminationOwned, GuardFired
<1>5. CASE StartJob
  <2>1. /\ ~condemned /\ queue' = Tail(queue) /\ running' = h
        /\ status' = [status EXCEPT ![h] = "running"]
        /\ watched' = ArmAlone(h)
        /\ armed' = IF ArmAlone(h) THEN armed \cup {h} ELSE armed
        /\ UNCHANGED <<open, abandoned, reply, ready, expired, oom, terminating,
                       condemned, thread>>
    BY <1>5 DEF StartJob
  <2> HIDE DEF h
  <2>2. Parked' = Parked \ {h}
    BY <1>2, <2>1 DEF EngineInv, TypeOK, Parked
  <2>3. ArmAlone(h) \in BOOLEAN /\ (ArmAlone(h) => Parked = {})
    BY DEF ArmAlone
  <2>4. TypeOK'
    <3>1. status' \in [Requests -> {"new", "queued", "running", "parked", "done"}]
      BY <1>2, <2>1 DEF EngineInv, TypeOK
    <3>2. armed' \in SUBSET (Requests \cup {Flush}) /\ watched' \in BOOLEAN
      BY <1>2, <1>3, <2>1, <2>3
    <3>3. QED
      BY <1>2, <2>1, <3>1, <3>2 DEF EngineInv, TypeOK
  <2>5. Guarded'
    BY <1>2, <1>3, <2>1, <2>2, <2>3, EngineAssumption DEF Guarded
  <2>6. HonestReply' /\ CondemnedIdle' /\ ClosedThread'
    BY <2>1 DEF EngineInv, HonestReply, CondemnedIdle, ClosedThread
  <2>7. TerminationOwned'
    BY <1>1, <1>3, <2>1 DEF EngineInv, TerminationOwned, GuardFired
  <2>8. QED
    BY <2>4, <2>5, <2>6, <2>7 DEF EngineInv
<1>6. QED
  BY <1>4, <1>5

\* A job that ends, its caller answered or parked: the guard is settled with
\* it, and a fired heap cap leaves nobody waiting.
LEMMA LeaveInv ==
    ASSUME EngineInv, FinishJob("ok") \/ FinishJob("js") \/ CallCutOff \/ CallParks
    PROVE  EngineInv'
<1> DEFINE verdict == Verdict(GuardFired, oom)
<1>1. thread = "ticking" /\ running \in Requests /\ running # NoRequest /\ ~condemned
  <2>1. thread = "ticking" /\ running # NoRequest
    BY DEF FinishJob, CallCutOff, CallParks, JobReturns
  <2>2. QED
    BY <2>1 DEF EngineInv, TypeOK, CondemnedIdle
<1>2. /\ running' = NoRequest /\ watched' = FALSE /\ armed' = armed \ {running}
      /\ terminating' = (terminating /\ ~GuardFired /\ ~oom)
      /\ oom' = FALSE
      /\ condemned' = (condemned \/ oom)
      /\ UNCHANGED <<open, abandoned, queue, expired, thread>>
  BY DEF FinishJob, CallCutOff, CallParks, LeaveJob, Settle
<1>3. oom \in BOOLEAN /\ condemned \in BOOLEAN /\ terminating \in BOOLEAN
      /\ GuardFired \in BOOLEAN
  BY DEF EngineInv, TypeOK, GuardFired
<1>4. /\ verdict \in {"clean", "deadline", "memory"}
      /\ verdict = "memory" <=> oom
      /\ verdict = "deadline" => running \in expired
  <2>1. GuardFired => running \in expired
    BY DEF EngineInv, Guarded, GuardFired
  <2>2. QED
    BY <1>3, <2>1 DEF Verdict
<1> HIDE DEF verdict
<1>5. condemned' \in BOOLEAN /\ terminating' \in BOOLEAN /\ (condemned' <=> oom)
  BY <1>1, <1>2, <1>3
<1>6. Guarded' /\ ClosedThread' /\ TerminationOwned'
  <2>1. armed' = {}
    BY <1>1, <1>2 DEF EngineInv, Guarded
  <2>2. Guarded' /\ ClosedThread'
    BY <1>2, <2>1 DEF EngineInv, Guarded, ClosedThread
  <2>3. TerminationOwned'
    BY <1>1, <1>2 DEF EngineInv, TerminationOwned
  <2>4. QED
    BY <2>2, <2>3
<1>7. ASSUME NEW v, ReplyTo(SweptWith(running, v, oom)),
             v \in {"ok"} \cup Errors, v # "closed",
             v = "deadline" => running \in expired,
             v = "memory" => oom,
             ready' = ready \ (IF oom THEN Parked ELSE {})
      PROVE  EngineInv'
  <2> DEFINE f == SweptWith(running, v, oom)
  <2>0. /\ ReplyTo(f)
        /\ oom => Parked \subseteq DOMAIN f
        /\ \A x \in DOMAIN f :
             (x = running /\ f[x] = v) \/ (x # running /\ oom /\ f[x] = "memory")
    BY <1>1, <1>3, <1>7, SweptFacts
  <2> HIDE DEF f
  <2>1. Honest(f)
    BY <1>2, <1>5, <1>7, <2>0 DEF Honest, Errors
  <2>2. /\ reply' \in [Requests -> {"none", "ok"} \cup Errors]
        /\ status' \in [Requests -> {"new", "queued", "running", "parked", "done"}]
        /\ HonestReply'
        /\ Parked' = Parked \ DOMAIN f
    BY <1>1, <1>2, <2>0, <2>1, ReplyInv DEF EngineInv
  <2>3. CondemnedIdle'
    BY <1>2, <1>5, <2>0, <2>2 DEF CondemnedIdle
  <2>4. TypeOK'
    BY <1>2, <1>5, <1>7, <2>2 DEF EngineInv, TypeOK
  <2>5. QED
    BY <1>6, <2>2, <2>3, <2>4 DEF EngineInv
<1>8. ASSUME NEW result \in {"ok", "js"}, FinishJob(result) PROVE EngineInv'
  <2> DEFINE v == Apply(verdict, result)
  <2>1. v \in {"ok", "js"} \/ (v = verdict /\ verdict # "clean")
    BY <1>8 DEF Apply
  <2>2. ReplyTo(SweptWith(running, v, oom))
        /\ ready' = ready \ (IF oom THEN Parked ELSE {})
    BY <1>8 DEF FinishJob, verdict
  <2> HIDE DEF v
  <2>3. QED
    BY <1>4, <1>7, <2>1, <2>2 DEF Errors
<1>9. CASE CallCutOff
  <2> DEFINE v == Cutoff(verdict)
  <2>1. v = IF verdict = "memory" THEN "memory" ELSE "deadline"
    BY DEF Cutoff
  <2>2. ReplyTo(SweptWith(running, v, oom))
        /\ ready' = ready \ (IF oom THEN Parked ELSE {})
        /\ (verdict # "clean" \/ running \in expired)
    BY <1>9 DEF CallCutOff, verdict
  <2> HIDE DEF v
  <2>3. QED
    BY <1>4, <1>7, <2>1, <2>2 DEF Errors
<1>10. CASE CallParks
  <2>1. ~oom /\ status' = [status EXCEPT ![running] = "parked"]
        /\ UNCHANGED <<reply, ready>>
    BY <1>4, <1>10 DEF CallParks, verdict
  <2>2. ~condemned'
    BY <1>5, <2>1
  <2>3. TypeOK'
    <3>1. status' \in [Requests -> {"new", "queued", "running", "parked", "done"}]
      BY <1>1, <2>1 DEF EngineInv, TypeOK
    <3>2. QED
      BY <1>2, <1>5, <2>1, <3>1 DEF EngineInv, TypeOK
  <2>4. HonestReply'
    BY <1>1, <1>2, <2>1, HonestKept DEF EngineInv
  <2>5. QED
    BY <1>6, <2>2, <2>3, <2>4 DEF EngineInv, CondemnedIdle
<1>11. QED
  BY <1>8, <1>9, <1>10

\* Ticks without a job: a settled or late call is answered, a promise
\* settles, the event loop breaks or the heap cap fires in it.
LEMMA TickInv ==
    ASSUME EngineInv,
           \/ \E r \in Requests : Settled(r) \/ Resolve(r)
           \/ MemoryExhausted \/ Broken
    PROVE  EngineInv'
<1>1. ASSUME NEW r \in Requests, Resolve(r) PROVE EngineInv'
  BY <1>1
  DEF Resolve, healthVars, EngineInv, TypeOK, Guarded, ClosedThread,
      CondemnedIdle, HonestReply, TerminationOwned, GuardFired, Parked
<1>2. ASSUME NEW r \in Requests, Settled(r) PROVE EngineInv'
  <2>1. PICK o \in {oom, oom \/ (Capped /\ r \in ready)}, result \in {"ok", "js"} :
          LET verdict == Verdict(FALSE, o)
          IN  /\ ReplyTo(SweptWith(r, IF r \in ready THEN Apply(verdict, result)
                                                  ELSE Cutoff(verdict), o))
              /\ Settle(FALSE, o)
              /\ ready' = ready \ ({r} \cup (IF o THEN Parked ELSE {}))
    BY <1>2 DEF Settled
  <2> DEFINE v == IF r \in ready THEN Apply(Verdict(FALSE, o), result)
                                 ELSE Cutoff(Verdict(FALSE, o))
             f == SweptWith(r, v, o)
  <2>2. o \in BOOLEAN /\ (oom => o) /\ condemned \in BOOLEAN /\ terminating \in BOOLEAN
    BY DEF EngineInv, TypeOK
  <2>3. /\ terminating' = (terminating /\ ~o) /\ oom' = FALSE
        /\ condemned' = (condemned \/ o)
        /\ UNCHANGED <<open, abandoned, queue, running, watched, armed, expired, thread>>
        /\ thread = "ticking" /\ running = NoRequest
        /\ r \in ready \cup expired
    BY <1>2, <2>1 DEF Settled, Settle, AtTick
  <2>4. /\ v \in {"ok"} \cup Errors /\ v # "closed"
        /\ v = "deadline" => r \in expired
        /\ v = "memory" => o
    <3>1. Verdict(FALSE, o) = IF o THEN "memory" ELSE "clean"
      BY <2>2 DEF Verdict
    <3>2. QED
      BY <2>3, <3>1 DEF Apply, Cutoff, Errors
  <2>5. /\ ReplyTo(f)
        /\ o => Parked \subseteq DOMAIN f
        /\ \A x \in DOMAIN f : (x = r /\ f[x] = v) \/ (x # r /\ o /\ f[x] = "memory")
    <3>1. ReplyTo(f)
      BY <2>1
    <3> HIDE DEF v
    <3>2. QED
      BY <2>2, <3>1, SweptFacts
  <2> HIDE DEF f, v
  <2>6. Honest(f)
    BY <2>2, <2>3, <2>4, <2>5 DEF Honest, Errors
  <2>7. /\ reply' \in [Requests -> {"none", "ok"} \cup Errors]
        /\ status' \in [Requests -> {"new", "queued", "running", "parked", "done"}]
        /\ HonestReply'
        /\ Parked' = Parked \ DOMAIN f
    BY <2>2, <2>3, <2>5, <2>6, ReplyInv DEF EngineInv
  <2>8. CondemnedIdle'
    BY <2>2, <2>3, <2>5, <2>7 DEF EngineInv, CondemnedIdle
  <2>9. TypeOK'
    <3>1. ready' \in SUBSET Requests
      BY <2>1 DEF EngineInv, TypeOK
    <3>2. QED
      BY <2>2, <2>3, <2>7, <3>1 DEF EngineInv, TypeOK
  <2>10. Guarded' /\ ClosedThread'
    BY <2>3, <2>7 DEF EngineInv, Guarded, ClosedThread
  <2>11. TerminationOwned'
    BY <2>2, <2>3 DEF EngineInv, Guarded, TerminationOwned, GuardFired
  <2>12. QED
    BY <2>7, <2>8, <2>9, <2>10, <2>11 DEF EngineInv
<1>3. ASSUME NEW f, DOMAIN f = Parked, ReplyTo(f), Honest(f),
             MemoryExhausted \/ Broken,
             expired' \in SUBSET Requests, expired \subseteq expired',
             oom' \in BOOLEAN, condemned' \in BOOLEAN, condemned => condemned'
      PROVE  EngineInv'
  <2>1. /\ ready' = ready \ Parked /\ terminating' = FALSE
        /\ UNCHANGED <<open, abandoned, queue, running, watched, armed, thread>>
        /\ running = NoRequest
    BY <1>3 DEF MemoryExhausted, Broken, QuietTurn, AtTick
  <2>2. /\ reply' \in [Requests -> {"none", "ok"} \cup Errors]
        /\ status' \in [Requests -> {"new", "queued", "running", "parked", "done"}]
        /\ HonestReply'
        /\ Parked' = {}
    BY <1>3, <2>1, ReplyInv DEF EngineInv
  <2>3. TypeOK'
    BY <1>3, <2>1, <2>2 DEF EngineInv, TypeOK
  <2>4. Guarded' /\ ClosedThread' /\ CondemnedIdle' /\ TerminationOwned'
    BY <1>3, <2>1, <2>2
    DEF EngineInv, Guarded, ClosedThread, CondemnedIdle, TerminationOwned
  <2>5. QED
    BY <2>2, <2>3, <2>4 DEF EngineInv
<1>4. CASE MemoryExhausted
  <2> DEFINE f == [x \in Parked |-> "memory"]
  <2>1. ReplyTo(f) /\ condemned' = TRUE /\ oom' = FALSE /\ UNCHANGED <<open, expired>>
    BY <1>4 DEF MemoryExhausted
  <2>2. DOMAIN f = Parked /\ Honest(f)
    BY <2>1 DEF Honest, Errors
  <2> HIDE DEF f
  <2>3. expired' \in SUBSET Requests /\ expired \subseteq expired'
    BY <2>1 DEF EngineInv, TypeOK
  <2>4. QED
    BY <1>3, <1>4, <2>1, <2>2, <2>3
<1>5. CASE Broken
  <2>1. PICK o \in {oom, oom \/ Capped}, poll \in FinalPolls :
          /\ ReplyTo([x \in Parked |-> BrokenReply(poll[x], o)])
          /\ expired' = expired \cup {x \in Parked : poll[x] = "late"}
          /\ condemned' = (condemned \/ o)
          /\ oom' \in {FALSE, Capped /\ \E x \in Parked : poll[x] = "ok"}
    BY <1>5 DEF Broken
  <2> DEFINE f == [x \in Parked |-> BrokenReply(poll[x], o)]
  <2>2. o \in BOOLEAN /\ condemned \in BOOLEAN /\ Parked \subseteq Requests
        /\ expired \in SUBSET Requests
    BY DEF EngineInv, TypeOK, Parked
  <2>3. \A x \in Parked :
          /\ BrokenReply(poll[x], o) \in {"ok", "js", "memory", "deadline"}
          /\ BrokenReply(poll[x], o) = "memory" => o
          /\ BrokenReply(poll[x], o) = "deadline" => poll[x] = "late"
    BY <2>2 DEF BrokenReply
  <2>4. DOMAIN f = Parked /\ \A x \in Parked : f[x] = BrokenReply(poll[x], o)
    OBVIOUS
  <2>5. ReplyTo(f)
    BY <2>1
  <2> HIDE DEF f
  <2>6. expired' \in SUBSET Requests /\ expired \subseteq expired'
    BY <2>1, <2>2
  <2>7. oom' \in BOOLEAN /\ condemned' \in BOOLEAN /\ (condemned => condemned')
        /\ (o => condemned')
    BY <2>1, <2>2
  <2>8. Honest(f)
    BY <2>1, <2>2, <2>3, <2>4, <2>7 DEF Honest, Errors
  <2>9. QED
    BY <1>3, <1>5, <2>4, <2>5, <2>6, <2>7, <2>8
<1>6. QED
  BY <1>1, <1>2, <1>4, <1>5

\* The thread's end: one last guarded poll, then the parked callers hear.
LEMMA EndInv ==
    ASSUME EngineInv, StartFlush \/ Close
    PROVE  EngineInv'
<1>1. CASE StartFlush
  <2>1. ~watched
    BY <1>1 DEF StartFlush, AtTick, EngineInv, Guarded
  <2>2. QED
    BY <1>1, <2>1
    DEF StartFlush, jobVars, EngineInv, TypeOK, Guarded, ClosedThread,
        CondemnedIdle, HonestReply, TerminationOwned, Parked
<1>2. CASE Close
  <2> DEFINE f == [x \in Parked |-> "closed"]
  <2>1. /\ thread' = "gone" /\ armed' = armed \ {Flush} /\ ReplyTo(f)
        /\ ready' = ready \ Parked
        /\ UNCHANGED <<open, abandoned, queue, running, watched, expired, oom,
                       terminating, condemned>>
    BY <1>2 DEF Close
  <2>2. ~open
    BY <1>2 DEF Close, EngineInv, ClosedThread
  <2>3. DOMAIN f = Parked /\ Honest(f)
    BY <2>1, <2>2 DEF Honest, Errors
  <2> HIDE DEF f
  <2>4. /\ reply' \in [Requests -> {"none", "ok"} \cup Errors]
        /\ status' \in [Requests -> {"new", "queued", "running", "parked", "done"}]
        /\ HonestReply'
        /\ Parked' = {}
    BY <2>1, <2>3, ReplyInv DEF EngineInv
  <2>5. TypeOK'
    BY <2>1, <2>4 DEF EngineInv, TypeOK
  <2>6. Guarded'
    <3>1. watched => running \in Requests
      BY DEF EngineInv, TypeOK, Guarded
    <3>2. QED
      BY <2>1, <3>1, EngineAssumption DEF EngineInv, Guarded
  <2>7. ClosedThread' /\ CondemnedIdle' /\ TerminationOwned'
    BY <2>1, <2>2, <2>4
    DEF EngineInv, ClosedThread, CondemnedIdle, TerminationOwned
  <2>8. QED
    BY <2>4, <2>5, <2>6, <2>7 DEF EngineInv
<1>3. QED
  BY <1>1, <1>2

\* Every step of the engine, its callers and its watchdog.
LEMMA EngineNextInv == EngineInv /\ [Next]_vars => EngineInv'
<1>1. SUFFICES ASSUME EngineInv, [Next]_vars PROVE EngineInv'
  OBVIOUS
<1>2. CASE Next
  BY <1>1, <1>2, HandleInv, ClockInv, TakeInv, LeaveInv, TickInv, EndInv DEF Next
<1>3. CASE UNCHANGED vars
  BY <1>1, <1>3
  DEF vars, jobVars, healthVars, EngineInv, TypeOK, Guarded, ClosedThread,
      CondemnedIdle, HonestReply, TerminationOwned, GuardFired, Parked
<1>4. QED
  BY <1>1, <1>2, <1>3

-----------------------------------------------------------------------------
(* Theorems.                                                               *)

\* The invariant holds of every state the engine reaches.
THEOREM EngineInvariant == Spec => []EngineInv
  BY EngineInitInv, EngineNextInv, PTL DEF Spec

\* Every field of the engine keeps its type.
THEOREM EngineTypeCorrect == Spec => []TypeOK
<1>1. EngineInv => TypeOK
  BY DEF EngineInv
<1>2. QED
  BY <1>1, EngineInvariant, PTL

\* A late fire of the watchdog or the heap cap never poisons the next job.
THEOREM TerminationsOwned == Spec => []TerminationOwned
<1>1. EngineInv => TerminationOwned
  BY DEF EngineInv
<1>2. QED
  BY <1>1, EngineInvariant, PTL

\* arm_alone: the watchdog, armed or fired, never meets a parked call.
THEOREM WatchdogAlwaysAlone == Spec => []WatchdogAlone
<1>1. EngineInv => WatchdogAlone
  BY DEF EngineInv, Guarded, WatchdogAlone
<1>2. QED
  BY <1>1, EngineInvariant, PTL

\* An isolate whose heap cap fired keeps no job and no parked caller.
THEOREM CondemnedAlwaysIdle == Spec => []CondemnedIdle
<1>1. EngineInv => CondemnedIdle
  BY DEF EngineInv
<1>2. QED
  BY <1>1, EngineInvariant, PTL

\* No caller reads Deadline, MemoryLimit or Closed without cause.
THEOREM RepliesHonest == Spec => []HonestReply
<1>1. EngineInv => HonestReply
  BY DEF EngineInv
<1>2. QED
  BY <1>1, EngineInvariant, PTL

-----------------------------------------------------------------------------
(* The engine implements EngineService.                                    *)

\* A request is answered exactly when it is done; a queued request is in the
\* channel once; deadlines pass only of requests that have one.
Linked ==
    /\ \A r \in Requests : reply[r] = "none" <=> status[r] # "done"
    /\ \A i \in 1 .. Len(queue) : status[queue[i]] = "queued"
    /\ \A i, j \in 1 .. Len(queue) : queue[i] = queue[j] => i = j
    /\ running # NoRequest => status[running] = "running"
    /\ expired \subseteq HasDeadline

\* The requests of D are answered, and no others.
Answered(D) ==
    \A r \in Requests :
        IF r \in D THEN status'[r] = "done" /\ reply'[r] \in {"ok"} \cup Errors
                   ELSE status'[r] = status[r] /\ reply'[r] = reply[r]

\* A reply answers its domain.
LEMMA ReplyAnswers ==
    ASSUME NEW f, ReplyTo(f), \A x \in DOMAIN f : f[x] \in {"ok"} \cup Errors
    PROVE  Answered(DOMAIN f)
  BY DEF ReplyTo, Answered

\* The sweep's replies are replies.
LEMMA SweptAnswers ==
    ASSUME NEW r \in Requests, NEW v \in {"ok"} \cup Errors, NEW o \in BOOLEAN,
           ReplyTo(SweptWith(r, v, o))
    PROVE  \E D \in SUBSET Requests :
             /\ Answered(D)
             /\ \A x \in D : x = r \/ status[x] = "parked"
<1> DEFINE f == SweptWith(r, v, o)
<1>1. /\ DOMAIN f \subseteq {r} \cup Parked
      /\ \A x \in DOMAIN f : f[x] \in {"ok"} \cup Errors
  BY DEF SweptWith, Errors
<1>2. ReplyTo(f)
  OBVIOUS
<1> HIDE DEF f
<1>3. Answered(DOMAIN f)
  BY <1>1, <1>2, ReplyAnswers
<1>4. DOMAIN f \in SUBSET Requests /\ \A x \in DOMAIN f : x = r \/ status[x] = "parked"
  BY <1>1 DEF Parked
<1>5. QED
  BY <1>3, <1>4

\* Who is answered by the ends of jobs and of parked calls.
LEMMA EndsAnswer ==
    ASSUME EngineInv, Linked,
           \/ \E result \in {"ok", "js"} : FinishJob(result)
           \/ CallCutOff \/ (\E r \in Requests : Settled(r))
           \/ MemoryExhausted \/ Broken \/ Close
    PROVE  /\ \E D \in SUBSET Requests :
                /\ Answered(D)
                /\ \A x \in D : (x = running /\ running' = NoRequest) \/ status[x] = "parked"
           /\ running' \in {running, NoRequest}
           /\ queue' = queue /\ open' = open
<1>1. ASSUME NEW result \in {"ok", "js"}, FinishJob(result)
      PROVE  \E D \in SUBSET Requests :
                /\ Answered(D)
                /\ \A x \in D : (x = running /\ running' = NoRequest) \/ status[x] = "parked"
  <2>1. running \in Requests /\ oom \in BOOLEAN
    BY <1>1 DEF FinishJob, JobReturns, EngineInv, TypeOK
  <2>2. Apply(Verdict(GuardFired, oom), result) \in {"ok"} \cup Errors
    BY <2>1 DEF Apply, Verdict, Errors
  <2>3. ReplyTo(SweptWith(running, Apply(Verdict(GuardFired, oom), result), oom))
        /\ running' = NoRequest
    BY <1>1 DEF FinishJob, LeaveJob
  <2>4. QED
    BY <2>1, <2>2, <2>3, SweptAnswers
<1>2. ASSUME CallCutOff
      PROVE  \E D \in SUBSET Requests :
                /\ Answered(D)
                /\ \A x \in D : (x = running /\ running' = NoRequest) \/ status[x] = "parked"
  <2>1. running \in Requests /\ oom \in BOOLEAN
    BY <1>2 DEF CallCutOff, JobReturns, EngineInv, TypeOK
  <2>2. Cutoff(Verdict(GuardFired, oom)) \in {"ok"} \cup Errors
    BY DEF Cutoff, Errors
  <2>3. ReplyTo(SweptWith(running, Cutoff(Verdict(GuardFired, oom)), oom))
        /\ running' = NoRequest
    BY <1>2 DEF CallCutOff, LeaveJob
  <2>4. QED
    BY <2>1, <2>2, <2>3, SweptAnswers
<1>3. ASSUME NEW r \in Requests, Settled(r)
      PROVE  \E D \in SUBSET Requests :
                /\ Answered(D)
                /\ \A x \in D : (x = running /\ running' = NoRequest) \/ status[x] = "parked"
  <2>1. PICK o \in {oom, oom \/ (Capped /\ r \in ready)}, result \in {"ok", "js"} :
          ReplyTo(SweptWith(r, IF r \in ready THEN Apply(Verdict(FALSE, o), result)
                                             ELSE Cutoff(Verdict(FALSE, o)), o))
    BY <1>3 DEF Settled
  <2>2. o \in BOOLEAN /\ status[r] = "parked"
    BY <1>3, <2>1 DEF Settled, EngineInv, TypeOK, Parked
  <2>3. (IF r \in ready THEN Apply(Verdict(FALSE, o), result)
                        ELSE Cutoff(Verdict(FALSE, o))) \in {"ok"} \cup Errors
    BY <2>2 DEF Apply, Verdict, Cutoff, Errors
  <2>4. \E D \in SUBSET Requests :
             /\ Answered(D)
             /\ \A x \in D : x = r \/ status[x] = "parked"
    BY <2>1, <2>2, <2>3, SweptAnswers
  <2>5. QED
    BY <2>2, <2>4
<1>4. ASSUME NEW f, ReplyTo(f), DOMAIN f = Parked,
             \A x \in DOMAIN f : f[x] \in {"ok"} \cup Errors
      PROVE  \E D \in SUBSET Requests :
                /\ Answered(D)
                /\ \A x \in D : (x = running /\ running' = NoRequest) \/ status[x] = "parked"
  <2>1. Answered(Parked)
    BY <1>4, ReplyAnswers
  <2>2. QED
    BY <2>1 DEF Parked
<1>5. ASSUME MemoryExhausted \/ Broken \/ Close
      PROVE  \E D \in SUBSET Requests :
                /\ Answered(D)
                /\ \A x \in D : (x = running /\ running' = NoRequest) \/ status[x] = "parked"
  <2>1. CASE MemoryExhausted
    <3> DEFINE f == [x \in Parked |-> "memory"]
    <3>1. ReplyTo(f) /\ DOMAIN f = Parked /\ \A x \in DOMAIN f : f[x] \in {"ok"} \cup Errors
      BY <2>1 DEF MemoryExhausted, Errors
    <3> HIDE DEF f
    <3>2. QED
      BY <3>1, <1>4
  <2>2. CASE Close
    <3> DEFINE f == [x \in Parked |-> "closed"]
    <3>1. ReplyTo(f) /\ DOMAIN f = Parked /\ \A x \in DOMAIN f : f[x] \in {"ok"} \cup Errors
      BY <2>2 DEF Close, Errors
    <3> HIDE DEF f
    <3>2. QED
      BY <3>1, <1>4
  <2>3. CASE Broken
    <3>1. PICK o \in {oom, oom \/ Capped}, poll \in FinalPolls :
            ReplyTo([x \in Parked |-> BrokenReply(poll[x], o)])
      BY <2>3 DEF Broken
    <3> DEFINE f == [x \in Parked |-> BrokenReply(poll[x], o)]
    <3>2. ReplyTo(f) /\ DOMAIN f = Parked
      BY <3>1
    <3>3. \A x \in DOMAIN f : f[x] \in {"ok"} \cup Errors
      BY DEF BrokenReply, Errors
    <3> HIDE DEF f
    <3>4. QED
      BY <3>2, <3>3, <1>4
  <2>4. QED
    BY <1>5, <2>1, <2>2, <2>3
<1>6. running' \in {running, NoRequest} /\ queue' = queue /\ open' = open
  BY DEF FinishJob, CallCutOff, Settled, MemoryExhausted, Broken, Close, LeaveJob
<1>7. QED
  BY <1>1, <1>2, <1>3, <1>5, <1>6

\* Linked holds of a fresh engine, and every step keeps it.
LEMMA LinkedInit == Init => Linked
  BY DEF Init, Linked

LEMMA LinkedNext ==
    ASSUME EngineInv, EngineInv', Linked, [Next]_vars
    PROVE  Linked'
<1> USE DEF EngineInv
<1>1. ASSUME \/ \E result \in {"ok", "js"} : FinishJob(result)
             \/ CallCutOff \/ (\E r \in Requests : Settled(r))
             \/ MemoryExhausted \/ Broken \/ Close
      PROVE  Linked'
  <2>1. PICK D \in SUBSET Requests :
          /\ Answered(D)
          /\ \A x \in D : (x = running /\ running' = NoRequest) \/ status[x] = "parked"
    BY <1>1, EndsAnswer
  <2>2. running' \in {running, NoRequest} /\ queue' = queue
    BY <1>1, EndsAnswer
  <2>3. \A r \in Requests : reply'[r] = "none" <=> status'[r] # "done"
    BY <2>1 DEF Answered, Linked, Errors
  <2>4. \A i \in 1 .. Len(queue) : queue[i] \in Requests
    BY DEF TypeOK
  <2>5. \A i \in 1 .. Len(queue) : queue[i] \notin D
    <3>1. \A x \in D : status[x] # "queued"
      BY <2>1, EngineAssumption DEF Linked
    <3>2. QED
      BY <3>1 DEF Linked
  <2>6. \A i \in 1 .. Len(queue') : status'[queue'[i]] = "queued"
    BY <2>1, <2>2, <2>4, <2>5 DEF Answered, Linked
  <2>7. running' # NoRequest => status'[running'] = "running"
    BY <2>1, <2>2 DEF Answered, Linked, TypeOK
  <2>8. expired' \subseteq HasDeadline
    <3>1. CASE Broken
      <4>1. PICK poll \in FinalPolls :
              expired' = expired \cup {x \in Parked : poll[x] = "late"}
        BY <3>1 DEF Broken
      <4>2. \A x \in Parked : poll[x] = "late" => x \in HasDeadline
        BY DEF FinalPolls
      <4>3. QED
        BY <4>1, <4>2 DEF Linked
    <3>2. CASE ~Broken
      <4>1. expired' = expired
        BY <1>1, <3>2 DEF FinishJob, CallCutOff, Settled, MemoryExhausted, Close, LeaveJob
      <4>2. QED
        BY <4>1 DEF Linked
    <3>3. QED
      BY <3>1, <3>2
  <2>9. QED
    BY <2>2, <2>3, <2>6, <2>7, <2>8 DEF Linked
<1>2. ASSUME NEW r \in Requests, Submit(r) PROVE Linked'
  <2>1. /\ status[r] = "new" /\ status \in [Requests -> {"new", "queued", "running", "parked", "done"}]
        /\ reply \in [Requests -> {"none", "ok"} \cup Errors] /\ queue \in Seq(Requests)
        /\ UNCHANGED <<running, expired>>
        /\ \A i \in 1 .. Len(queue) : queue[i] \in Requests
        /\ running \in Requests \cup {NoRequest}
    BY <1>2 DEF Submit, healthVars, TypeOK
  <2>2. \A i \in 1 .. Len(queue) : queue[i] # r
    BY <2>1 DEF Linked
  <2>3. CASE open /\ thread # "gone"
    <3>1. queue' = Append(queue, r) /\ status' = [status EXCEPT ![r] = "queued"] /\ reply' = reply
      BY <1>2, <2>3 DEF Submit
    <3>2. /\ Len(queue') = Len(queue) + 1 /\ Len(queue) \in Nat
          /\ \A i \in 1 .. Len(queue) : queue'[i] = queue[i]
          /\ queue'[Len(queue) + 1] = r
      BY <2>1, <3>1
    <3>3. \A i \in 1 .. Len(queue') : status'[queue'[i]] = "queued"
      <4>1. \A i \in 1 .. Len(queue) : status'[queue[i]] = "queued"
        BY <2>1, <2>2, <3>1 DEF Linked
      <4>2. QED
        BY <2>1, <3>1, <3>2, <4>1
    <3>4. \A i, j \in 1 .. Len(queue') : queue'[i] = queue'[j] => i = j
      BY <2>2, <3>2 DEF Linked
    <3>5. QED
      BY <2>1, <3>1, <3>3, <3>4 DEF Linked
  <2>4. CASE ~(open /\ thread # "gone")
    <3>1. /\ queue' = queue /\ status' = [status EXCEPT ![r] = "done"]
          /\ reply' = [reply EXCEPT ![r] = "closed"]
      BY <1>2, <2>4 DEF Submit
    <3>2. QED
      BY <2>1, <2>2, <3>1 DEF Linked
  <2>5. QED
    BY <2>3, <2>4
<1>3. ASSUME RefuseJob \/ GcJob \/ StartJob PROVE Linked'
  <2>1. queue # <<>> /\ queue \in Seq(Requests) /\ running = NoRequest
        /\ queue' = Tail(queue) /\ expired' = expired
    BY <1>3 DEF RefuseJob, GcJob, StartJob, TakesJob, AtTick, healthVars, TypeOK
  <2>2. /\ Len(queue) \in Nat /\ Len(queue) > 0 /\ Len(queue') = Len(queue) - 1
        /\ \A i \in 1 .. Len(queue) : queue[i] \in Requests
        /\ \A i \in 1 .. Len(queue') : queue'[i] = queue[i + 1]
        /\ Head(queue) = queue[1]
    BY <2>1
  <2>3. \A i \in 1 .. Len(queue') :
          queue'[i] \in Requests /\ queue'[i] # Head(queue) /\ status[queue'[i]] = "queued"
    BY <2>2 DEF Linked
  <2>4. \A i, j \in 1 .. Len(queue') : queue'[i] = queue'[j] => i = j
    BY <2>2 DEF Linked
  <2>5. CASE StartJob
    <3>1. status' = [status EXCEPT ![Head(queue)] = "running"] /\ reply' = reply
          /\ running' = Head(queue) /\ status[Head(queue)] = "queued"
      BY <2>2, <2>5 DEF StartJob, Linked
    <3>2. status \in [Requests -> {"new", "queued", "running", "parked", "done"}]
          /\ Head(queue) \in Requests
      BY <2>2 DEF TypeOK
    <3>3. QED
      BY <2>1, <2>3, <2>4, <3>1, <3>2 DEF Linked
  <2>6. CASE RefuseJob \/ GcJob
    <3>1. PICK v \in {"ok", "memory"} : ReplyTo(Answer(Head(queue), v))
      BY <2>6 DEF RefuseJob, GcJob
    <3>2. running' = running
      BY <2>6 DEF RefuseJob, GcJob
    <3>3. Answered({Head(queue)})
      <4> DEFINE f == Answer(Head(queue), v)
      <4>1. ReplyTo(f) /\ DOMAIN f = {Head(queue)} /\ \A x \in DOMAIN f : f[x] \in {"ok"} \cup Errors
        BY <3>1 DEF Answer, Errors
      <4> HIDE DEF f
      <4>2. QED
        BY <4>1, ReplyAnswers
    <3>4. QED
      BY <2>1, <2>3, <2>4, <3>2, <3>3 DEF Linked, Answered, Errors
  <2>7. QED
    BY <1>3, <2>5, <2>6
<1>4. CASE CallParks
  <2>1. /\ running \in Requests /\ running' = NoRequest /\ status[running] = "running"
        /\ status' = [status EXCEPT ![running] = "parked"]
        /\ UNCHANGED <<reply, queue, expired>>
    BY <1>4 DEF CallParks, JobReturns, LeaveJob, Linked, TypeOK
  <2>2. \A i \in 1 .. Len(queue) : queue[i] \in Requests /\ queue[i] # running
    BY <2>1 DEF Linked, TypeOK
  <2>3. status \in [Requests -> {"new", "queued", "running", "parked", "done"}]
    BY DEF TypeOK
  <2>4. QED
    BY <2>1, <2>2, <2>3 DEF Linked
<1>5. ASSUME NEW r \in Requests, Expire(r) PROVE Linked'
  BY <1>5 DEF Expire, jobVars, Linked
<1>6. ASSUME \/ \E r \in Requests : Resolve(r)
             \/ \E g \in Requests \cup {Flush} : Fire(g)
             \/ AbandonTerminate \/ AbandonClose \/ Drop \/ OutOfMemory
             \/ StartFlush \/ UNCHANGED vars
      PROVE  Linked'
  <2>1. UNCHANGED <<queue, status, reply, running, expired>>
    BY <1>6
    DEF Resolve, Fire, AbandonTerminate, AbandonClose, Drop, OutOfMemory,
        StartFlush, vars, jobVars, healthVars
  <2>2. QED
    BY <2>1 DEF Linked
<1>7. QED
  BY <1>1, <1>2, <1>3, <1>4, <1>5, <1>6 DEF Next

\* The invariant behind the refinement holds of every reachable state.
LEMMA LinkedInvariant == Spec => [](EngineInv /\ Linked)
<1>1. Init => Linked
  BY LinkedInit
<1>2. EngineInv /\ EngineInv' /\ Linked /\ [Next]_vars => Linked'
  BY LinkedNext
<1>3. QED
  BY <1>1, <1>2, EngineInvariant, PTL DEF Spec

\* What the service sees of a reply it did not expect to be a lie.
LEMMA HonestTruth ==
    ASSUME EngineInv, EngineInv', Linked', NEW r \in Requests, reply'[r] # "none",
           condemned => reply'[r] \in {"memory", "closed"} \/ Kind[r] = "gc"
    PROVE  Service!Truthful(r, reply'[r])
<1>1. /\ reply'[r] = "deadline" => r \in HasDeadline
      /\ reply'[r] = "memory" => condemned'
      /\ reply'[r] = "closed" => ~open'
  BY DEF EngineInv, HonestReply, Linked
<1>2. QED
  BY <1>1 DEF Service!Truthful, Service!TrueReason

\* A step that answers the requests of D is a step of Serve.
LEMMA AnswersServe ==
    ASSUME EngineInv, EngineInv', Linked, Linked', NEW D \in SUBSET Requests, Answered(D),
           \A x \in D : status[x] \notin {"new", "done"},
           condemned => condemned', open' = open,
           condemned => \A x \in D : reply'[x] \in {"memory", "closed"} \/ Kind[x] = "gc"
    PROVE  Service!Serve
<1>1. {r \in Requests : status'[r] # "new"} = {r \in Requests : status[r] # "new"}
  BY DEF Answered
<1>2. condemned' \in {condemned, TRUE}
  BY DEF EngineInv, TypeOK
<1>3. reply' \in [Requests -> {"none"} \cup Service!Outcomes]
  BY DEF EngineInv, TypeOK, Errors, Service!Outcomes
<1>4. ASSUME NEW r \in Requests
      PROVE  reply'[r] = reply[r] \/ (/\ status[r] # "new" /\ reply[r] = "none"
                                      /\ Service!Truthful(r, reply'[r]))
  <2>1. CASE r \notin D
    BY <2>1 DEF Answered
  <2>2. CASE r \in D
    <3>1. status[r] \notin {"new", "done"} /\ reply[r] = "none"
      BY <2>2 DEF Linked
    <3>2. reply'[r] # "none"
      BY <2>2 DEF Answered, Errors
    <3>3. Service!Truthful(r, reply'[r])
      BY <2>2, <3>2, HonestTruth
    <3>4. QED
      BY <3>1, <3>3
  <2>3. QED
    BY <2>1, <2>2
<1>5. QED
  BY <1>1, <1>2, <1>3, <1>4 DEF Service!Serve

\* A step that only changes who is queued, running or parked is a stutter.
LEMMA UnseenStep ==
    ASSUME {r \in Requests : status'[r] # "new"} = {r \in Requests : status[r] # "new"},
           UNCHANGED <<reply, condemned, open>>
    PROVE  UNCHANGED Service!vars
  BY DEF Service!vars

\* Every step of the engine is one of the service, or none that it shows.
LEMMA ServiceStep ==
    ASSUME EngineInv, EngineInv', Linked, Linked', [Next]_vars
    PROVE  [Service!Next]_(Service!vars)
<1>1. status \in [Requests -> {"new", "queued", "running", "parked", "done"}]
  BY DEF EngineInv, TypeOK
<1>2. ASSUME \/ \E result \in {"ok", "js"} : FinishJob(result)
             \/ CallCutOff \/ (\E r \in Requests : Settled(r))
             \/ MemoryExhausted \/ Broken \/ Close
      PROVE  Service!Serve
  <2>1. PICK D \in SUBSET Requests :
          /\ Answered(D)
          /\ \A x \in D : (x = running /\ running' = NoRequest) \/ status[x] = "parked"
    BY <1>2, EndsAnswer
  <2>2. open' = open
    BY <1>2, EndsAnswer
  <2>3. \A x \in D : status[x] \notin {"new", "done"}
    BY <2>1, EngineAssumption DEF Linked
  <2>4. condemned => condemned'
    BY <1>2
    DEF FinishJob, CallCutOff, Settled, MemoryExhausted, Broken, Close, LeaveJob, Settle
  <2>5. condemned => D = {}
    <3>1. ASSUME condemned, NEW x \in D PROVE FALSE
      <4>1. running = NoRequest /\ Parked = {}
        BY <3>1 DEF EngineInv, CondemnedIdle
      <4>2. QED
        BY <2>1, <3>1, <4>1, EngineAssumption DEF Parked
    <3>2. QED
      BY <3>1
  <2>6. QED
    BY <2>1, <2>2, <2>3, <2>4, <2>5, AnswersServe
<1>3. ASSUME RefuseJob \/ GcJob PROVE Service!Serve
  <2>1. queue # <<>> /\ Head(queue) \in Requests /\ Head(queue) = queue[1]
        /\ 1 \in 1 .. Len(queue)
    BY <1>3 DEF RefuseJob, GcJob, TakesJob, EngineInv, TypeOK
  <2>2. status[Head(queue)] = "queued"
    BY <2>1 DEF Linked
  <2>3. PICK v \in {"ok", "memory"} :
          /\ ReplyTo(Answer(Head(queue), v))
          /\ condemned => v = "memory" \/ Kind[Head(queue)] = "gc"
    BY <1>3 DEF RefuseJob, GcJob
  <2>4. UNCHANGED <<open, condemned>>
    BY <1>3 DEF RefuseJob, GcJob, healthVars
  <2> DEFINE f == Answer(Head(queue), v)
  <2>5. /\ ReplyTo(f) /\ DOMAIN f = {Head(queue)}
        /\ \A x \in DOMAIN f : f[x] \in {"ok"} \cup Errors
    BY <2>3 DEF Answer, Errors
  <2>6. f[Head(queue)] = v
    BY DEF Answer
  <2> HIDE DEF f
  <2>7. Answered({Head(queue)})
    BY <2>5, ReplyAnswers
  <2>8. reply'[Head(queue)] = v
    BY <2>1, <2>5, <2>6 DEF ReplyTo
  <2>9. QED
    BY <2>1, <2>2, <2>3, <2>4, <2>7, <2>8, AnswersServe
<1>4. ASSUME NEW r \in Requests, Submit(r) PROVE Service!Ask(r)
  <2>1. status[r] = "new" /\ UNCHANGED <<open, condemned>>
    BY <1>4 DEF Submit, healthVars
  <2>2. {x \in Requests : status'[x] # "new"} = {x \in Requests : status[x] # "new"} \cup {r}
    BY <1>1, <1>4 DEF Submit
  <2>3. reply' = IF open THEN reply ELSE [reply EXCEPT ![r] = "closed"]
    <3>1. open => thread # "gone"
      BY DEF EngineInv, ClosedThread
    <3>2. QED
      BY <1>4, <3>1 DEF Submit
  <2>4. QED
    BY <2>1, <2>2, <2>3 DEF Service!Ask
<1>5. ASSUME AbandonClose \/ Drop PROVE Service!Shut
  BY <1>5 DEF AbandonClose, Drop, Service!Shut, jobVars, healthVars
<1>6. ASSUME StartJob \/ CallParks PROVE UNCHANGED Service!vars
  <2>1. CASE StartJob
    <3>1. queue # <<>> /\ Head(queue) \in Requests /\ status[Head(queue)] = "queued"
      BY <2>1 DEF StartJob, TakesJob, EngineInv, TypeOK, Linked
    <3>2. status' = [status EXCEPT ![Head(queue)] = "running"]
          /\ UNCHANGED <<reply, condemned, open>>
      BY <2>1 DEF StartJob
    <3>3. QED
      BY <1>1, <3>1, <3>2, UnseenStep
  <2>2. CASE CallParks
    <3>1. running \in Requests /\ status[running] = "running"
      BY <2>2 DEF CallParks, JobReturns, EngineInv, TypeOK, Linked
    <3>2. /\ status' = [status EXCEPT ![running] = "parked"]
          /\ UNCHANGED <<reply, open>>
      BY <2>2 DEF CallParks, LeaveJob
    <3>3. condemned' = condemned
      BY <2>2 DEF CallParks, LeaveJob, Settle, Verdict, EngineInv, TypeOK
    <3>4. QED
      BY <1>1, <3>1, <3>2, <3>3, UnseenStep
  <2>3. QED
    BY <1>6, <2>1, <2>2
<1>7. ASSUME \/ \E r \in Requests : Expire(r) \/ Resolve(r)
             \/ \E g \in Requests \cup {Flush} : Fire(g)
             \/ AbandonTerminate \/ OutOfMemory \/ StartFlush \/ UNCHANGED vars
      PROVE  UNCHANGED Service!vars
  <2>1. UNCHANGED <<status, reply, condemned, open>>
    BY <1>7
    DEF Expire, Resolve, Fire, AbandonTerminate, OutOfMemory, StartFlush, vars,
        jobVars, healthVars
  <2>2. QED
    BY <2>1, UnseenStep
<1>8. QED
  BY <1>2, <1>3, <1>4, <1>5, <1>6, <1>7 DEF Next, Service!Next

\* The engine implements the service its owners rely on.
THEOREM EngineIsService == Spec => ImplementsService
<1>1. Init => Service!Init
  BY DEF Init, Service!Init
<1>2. EngineInv /\ EngineInv' /\ Linked /\ Linked' /\ [Next]_vars
        => [Service!Next]_(Service!vars)
  BY ServiceStep
<1>3. QED
  BY <1>1, <1>2, LinkedInvariant, PTL DEF Spec, ImplementsService, Service!Spec
-----------------------------------------------------------------------------
(* Nobody is forgotten.                                                    *)

\* Where a request that is not answered is kept, and what the thread has left
\* behind when it leaves its loop.
Kept ==
    /\ \A r \in Requests : status[r] = "queued" => \E i \in 1 .. Len(queue) : queue[i] = r
    /\ \A r \in Requests : status[r] = "running" => running = r
    /\ thread # "ticking" => queue = <<>> /\ running = NoRequest
    /\ thread = "gone" => Parked = {}

\* A caller that has asked and not been answered is waited for by a thread that
\* has not gone: its job is in the channel, or running, of a thread that still
\* ticks, or its call is parked and the thread has yet to close.
NobodyForgotten ==
    \A r \in Requests : status[r] # "new" /\ reply[r] = "none" =>
        \/ thread = "ticking" /\ \E i \in 1 .. Len(queue) : queue[i] = r
        \/ thread = "ticking" /\ running = r
        \/ thread # "gone" /\ r \in Parked

\* Kept holds of a fresh engine, and every step keeps it.
LEMMA KeptInit == Init => Kept
  BY DEF Init, Kept, Parked

LEMMA KeptNext ==
    ASSUME EngineInv, EngineInv', Linked, Linked', Kept, [Next]_vars
    PROVE  Kept'
<1>1. /\ status \in [Requests -> {"new", "queued", "running", "parked", "done"}]
      /\ queue \in Seq(Requests) /\ Len(queue) \in Nat
      /\ running \in Requests \cup {NoRequest}
      /\ thread # "ticking" => ~open
      /\ \A i \in 1 .. Len(queue) : queue[i] \in Requests
  BY DEF EngineInv, TypeOK, ClosedThread
<1>2. ASSUME \/ \E result \in {"ok", "js"} : FinishJob(result)
             \/ CallCutOff \/ (\E r \in Requests : Settled(r))
             \/ MemoryExhausted \/ Broken \/ Close
      PROVE  Kept'
  <2>1. PICK D \in SUBSET Requests :
          /\ Answered(D)
          /\ \A x \in D : (x = running /\ running' = NoRequest) \/ status[x] = "parked"
    BY <1>2, EndsAnswer
  <2>2. queue' = queue /\ running' \in {running, NoRequest}
    BY <1>2, EndsAnswer
  <2>3. \A r \in Requests : status'[r] \in {"queued", "running", "parked"} => status'[r] = status[r]
    BY <2>1 DEF Answered
  <2>4. \A r \in Requests : status'[r] = "running" => running' = r
    <3>1. CASE running' = running
      BY <2>3, <3>1 DEF Kept
    <3>2. CASE running # NoRequest /\ running' = NoRequest
      <4>1. status'[running] = "done"
        BY <1>1, <1>2, <3>2
        DEF FinishJob, CallCutOff, LeaveJob, Settled, MemoryExhausted, Broken, Close,
            ReplyTo, SweptWith
      <4>2. QED
        BY <2>3, <4>1 DEF Kept
    <3>3. QED
      BY <2>2, <3>1, <3>2
  <2>5. CASE Close
    <3>1. queue = <<>> /\ running = NoRequest /\ running' = running /\ thread' = "gone"
      BY <2>5 DEF Close, AtTick, Kept
    <3>2. Parked' = {}
      BY <2>5 DEF Close, ReplyTo, Parked
    <3>3. QED
      BY <2>2, <2>3, <2>4, <3>1, <3>2 DEF Kept
  <2>6. CASE ~Close
    <3>1. thread = "ticking" /\ thread' = thread
      BY <1>2, <2>6
      DEF FinishJob, CallCutOff, JobReturns, LeaveJob, Settled, MemoryExhausted, Broken,
          QuietTurn, AtTick
    <3>2. QED
      BY <2>2, <2>3, <2>4, <3>1 DEF Kept
  <2>7. QED
    BY <2>5, <2>6
<1>3. ASSUME NEW r \in Requests, Submit(r) PROVE Kept'
  <2>1. status[r] = "new" /\ UNCHANGED <<running, thread>>
    BY <1>3 DEF Submit
  <2>2. CASE open
    <3>1. queue' = Append(queue, r) /\ status' = [status EXCEPT ![r] = "queued"]
          /\ thread = "ticking"
      BY <1>1, <1>3, <2>2 DEF Submit
    <3>2. /\ Len(queue') = Len(queue) + 1 /\ Len(queue') \in 1 .. Len(queue')
          /\ \A i \in 1 .. Len(queue) : queue'[i] = queue[i] /\ i \in 1 .. Len(queue')
          /\ queue'[Len(queue')] = r
      BY <1>1, <3>1
    <3>3. \A x \in Requests : status'[x] = "queued" =>
            \E i \in 1 .. Len(queue') : queue'[i] = x
      BY <1>1, <3>1, <3>2 DEF Kept
    <3>4. QED
      BY <1>1, <2>1, <3>1, <3>3 DEF Kept
  <2>3. CASE ~open
    <3>1. queue' = queue /\ status' = [status EXCEPT ![r] = "done"]
      BY <1>3, <2>3 DEF Submit
    <3>2. QED
      BY <1>1, <2>1, <3>1 DEF Kept, Parked
  <2>4. QED
    BY <2>2, <2>3
<1>4. ASSUME RefuseJob \/ GcJob \/ StartJob PROVE Kept'
  <2>1. queue # <<>> /\ queue' = Tail(queue) /\ thread = "ticking" /\ thread' = thread
        /\ running = NoRequest
    BY <1>4 DEF RefuseJob, GcJob, StartJob, TakesJob, AtTick
  <2>2. /\ Len(queue) > 0 /\ Len(queue') = Len(queue) - 1 /\ Head(queue) = queue[1]
        /\ Head(queue) \in Requests
        /\ \A i \in 1 .. Len(queue') : queue'[i] = queue[i + 1]
    BY <1>1, <2>1
  <2>3. \A i \in 1 .. Len(queue) : queue[i] # Head(queue) =>
          i - 1 \in 1 .. Len(queue') /\ queue'[i - 1] = queue[i]
    BY <1>1, <2>2
  <2>4. /\ status'[Head(queue)] # "queued"
        /\ \A x \in Requests \ {Head(queue)} : status'[x] = status[x]
    BY <1>1, <1>4, <2>2 DEF RefuseJob, GcJob, StartJob, ReplyTo, Answer
  <2>5. \A x \in Requests : status'[x] = "queued" => \E i \in 1 .. Len(queue') : queue'[i] = x
    BY <2>3, <2>4 DEF Kept
  <2>6. \A x \in Requests : status'[x] = "running" => running' = x
    <3>1. CASE StartJob
      BY <2>1, <2>4, <3>1, EngineAssumption DEF StartJob, Kept
    <3>2. CASE RefuseJob \/ GcJob
      <4>1. status'[Head(queue)] = "done"
        BY <2>2, <3>2 DEF RefuseJob, GcJob, ReplyTo, Answer
      <4>2. QED
        BY <2>1, <2>4, <4>1, EngineAssumption DEF Kept
    <3>3. QED
      BY <1>4, <3>1, <3>2
  <2>7. QED
    BY <2>1, <2>5, <2>6 DEF Kept
<1>5. CASE CallParks
  <2>1. /\ thread = "ticking" /\ thread' = thread /\ queue' = queue /\ running \in Requests
        /\ status' = [status EXCEPT ![running] = "parked"]
    BY <1>1, <1>5 DEF CallParks, JobReturns, LeaveJob
  <2>2. QED
    BY <1>1, <2>1 DEF Kept
<1>6. CASE StartFlush
  BY <1>6 DEF StartFlush, AtTick, jobVars, Kept
<1>7. ASSUME \/ \E r \in Requests : Expire(r) \/ Resolve(r)
             \/ \E g \in Requests \cup {Flush} : Fire(g)
             \/ AbandonTerminate \/ AbandonClose \/ Drop \/ OutOfMemory
             \/ UNCHANGED vars
      PROVE  Kept'
  <2>1. UNCHANGED <<queue, status, running, thread>>
    BY <1>7
    DEF Expire, Resolve, Fire, AbandonTerminate, AbandonClose, Drop, OutOfMemory, vars,
        jobVars, healthVars
  <2>2. QED
    BY <2>1 DEF Kept, Parked
<1>8. QED
  BY <1>2, <1>3, <1>4, <1>5, <1>6, <1>7 DEF Next

\* Whoever waits on the engine is held by a thread that will still look at it.
THEOREM EngineForgetsNobody == Spec => []NobodyForgotten
<1>1. Init => Kept
  BY KeptInit
<1>2. EngineInv /\ EngineInv' /\ Linked /\ Linked' /\ Kept /\ [Next]_vars => Kept'
  BY KeptNext
<1>3. EngineInv /\ Linked /\ Kept => NobodyForgotten
  <2>1. SUFFICES ASSUME EngineInv, Linked, Kept, NEW r \in Requests,
                        status[r] # "new", reply[r] = "none"
                 PROVE  \/ thread = "ticking" /\ \E i \in 1 .. Len(queue) : queue[i] = r
                        \/ thread = "ticking" /\ running = r
                        \/ thread # "gone" /\ r \in Parked
    BY DEF NobodyForgotten
  <2>2. status[r] \in {"queued", "running", "parked"}
    BY <2>1 DEF Linked, EngineInv, TypeOK
  <2>3. CASE status[r] = "queued"
    <3>1. PICK i \in 1 .. Len(queue) : queue[i] = r
      BY <2>1, <2>3 DEF Kept
    <3>2. thread = "ticking"
      BY <2>1, <3>1 DEF Kept
    <3>3. QED
      BY <3>1, <3>2
  <2>4. CASE status[r] = "running"
    BY <2>1, <2>4, EngineAssumption DEF Kept
  <2>5. CASE status[r] = "parked"
    BY <2>1, <2>5 DEF Kept, Parked
  <2>6. QED
    BY <2>2, <2>3, <2>4, <2>5
<1>4. QED
  BY <1>1, <1>2, <1>3, LinkedInvariant, PTL DEF Spec
=============================================================================
