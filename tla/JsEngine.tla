------------------------------ MODULE JsEngine ------------------------------
(***************************************************************************)
(* One embedded JavaScript engine (oj_js): callers submit jobs over a      *)
(* channel to the engine thread, whose scheduler runs one job's setup at a *)
(* time and parks a call on the promise it returned; a watchdog thread     *)
(* terminates a job that outlives its deadline, V8's heap cap terminates   *)
(* whatever runs, and both terminations are isolate-wide.                  *)
(*                                                                         *)
(* What the JavaScript does is external: a setup ends well or in an error, *)
(* may never end (Wedging) or return a promise that never settles          *)
(* (Hanging), and a parked call may wait for requests it caused itself     *)
(* (Causes), as an SSR loader that fetches from its own dev server does.   *)
(***************************************************************************)
EXTENDS Naturals, Sequences

CONSTANTS
    Requests,      \* the requests made of this engine
    Kind,          \* Job::Eval, Job::Call or Job::Gc
    HasDeadline,   \* requests with a deadline, their own or the default
    Capped,        \* memory_limit_bytes is set
    Wedging,       \* requests whose setup does not end by itself
    Hanging,       \* calls whose promise never settles by itself
    Causes,        \* <<r, s>>: s is made by r's parked call, which awaits it
    NoRequest, Flush

ASSUME EngineAssumption ==
    /\ Kind \in [Requests -> {"eval", "call", "gc"}]
    /\ HasDeadline \subseteq Requests
    /\ Capped \in BOOLEAN
    /\ Causes \subseteq Requests \X Requests
    /\ NoRequest \notin Requests
    /\ Flush \notin Requests

VARIABLES
    open,          \* JsEngine.running is Some
    abandoned,     \* JsEngine.abandon was called
    queue,         \* the job channel
    status,        \* where a request is
    reply,         \* what its caller got
    running,       \* the job the scheduler is setting up
    watched,       \* that job holds a DeadlineGuard
    armed,         \* Watchdog State.armed, by the job that armed it
    expired,       \* requests whose deadline has passed
    ready,         \* parked calls whose promise settled
    oom,           \* Isolate.oom
    terminating,   \* V8's pending terminate_execution
    condemned,     \* Isolate.condemned
    thread         \* "ticking", "flushing" or "gone"

jobVars == <<queue, status, reply, running, watched, ready>>
healthVars == <<armed, expired, oom, terminating, condemned>>
vars == <<open, abandoned, jobVars, healthVars, thread>>

Errors == {"js", "deadline", "memory", "closed"}

TypeOK ==
    /\ open \in BOOLEAN
    /\ abandoned \in BOOLEAN
    /\ queue \in Seq(Requests)
    /\ status \in [Requests -> {"new", "queued", "running", "parked", "done"}]
    /\ reply \in [Requests -> {"none", "ok"} \cup Errors]
    /\ running \in Requests \cup {NoRequest}
    /\ watched \in BOOLEAN
    /\ armed \in SUBSET (Requests \cup {Flush})
    /\ expired \in SUBSET Requests
    /\ ready \in SUBSET Requests
    /\ oom \in BOOLEAN
    /\ terminating \in BOOLEAN
    /\ condemned \in BOOLEAN
    /\ thread \in {"ticking", "flushing", "gone"}

Init ==
    /\ open = TRUE
    /\ abandoned = FALSE
    /\ queue = <<>>
    /\ status = [r \in Requests |-> "new"]
    /\ reply = [r \in Requests |-> "none"]
    /\ running = NoRequest
    /\ watched = FALSE
    /\ armed = {}
    /\ expired = {}
    /\ ready = {}
    /\ oom = FALSE
    /\ terminating = FALSE
    /\ condemned = FALSE
    /\ thread = "ticking"

Parked == {r \in Requests : status[r] = "parked"}
Done(r) == status[r] = "done"
AllDone(rs) == \A r \in rs : Done(r)
Caused(s) == \E r \in Requests : <<r, s>> \in Causes
CausedBy(r) == {s \in Requests : <<r, s>> \in Causes}

\* The scheduler is between two ticks.
AtTick == thread = "ticking" /\ running = NoRequest

-----------------------------------------------------------------------------
(* The handle.                                                             *)

\* request: refused once the running slot is empty.  A caused request is
\* made once its cause has parked (an abandoned promise runs on).
Submit(r) ==
    /\ status[r] = "new"
    /\ \A c \in Requests : <<c, r>> \in Causes => status[c] \in {"parked", "done"}
    /\ IF open /\ thread # "gone"
       THEN /\ queue' = Append(queue, r)
            /\ status' = [status EXCEPT ![r] = "queued"]
            /\ UNCHANGED reply
       ELSE /\ status' = [status EXCEPT ![r] = "done"]
            /\ reply' = [reply EXCEPT ![r] = "closed"]
            /\ UNCHANGED queue
    /\ UNCHANGED <<open, abandoned, running, watched, ready, healthVars, thread>>

\* abandon: terminate whatever runs, then close the channel and detach.
AbandonTerminate ==
    /\ ~abandoned /\ open
    /\ abandoned' = TRUE
    /\ terminating' = TRUE
    /\ UNCHANGED <<open, jobVars, armed, expired, oom, condemned, thread>>

AbandonClose ==
    /\ abandoned /\ open
    /\ open' = FALSE
    /\ UNCHANGED <<abandoned, jobVars, healthVars, thread>>

\* Drop owns the handle, so no request is outstanding; it joins the thread.
Drop ==
    /\ open /\ ~abandoned
    /\ \A r \in Requests : status[r] \in {"new", "done"}
    /\ open' = FALSE
    /\ UNCHANGED <<abandoned, jobVars, healthVars, thread>>

-----------------------------------------------------------------------------
(* The clock and the watchdog thread.                                      *)

\* The deadline counts from when the scheduler takes the job.
Expire(r) ==
    /\ r \in HasDeadline \ expired
    /\ status[r] \in {"running", "parked"}
    /\ expired' = expired \cup {r}
    /\ UNCHANGED <<open, abandoned, jobVars, armed, oom, terminating, condemned, thread>>

\* Watchdog run: the due deadline leaves the armed set and the isolate is
\* terminated under one lock.
Fire(g) ==
    /\ g \in armed
    /\ g \in expired \cup {Flush}
    /\ armed' = armed \ {g}
    /\ terminating' = TRUE
    /\ UNCHANGED <<open, abandoned, jobVars, expired, oom, condemned, thread>>

\* The near-heap-limit callback, inside whatever JavaScript is running a job.
OutOfMemory ==
    /\ Capped /\ running # NoRequest
    /\ oom' = TRUE
    /\ terminating' = TRUE
    /\ UNCHANGED <<open, abandoned, jobVars, armed, expired, condemned, thread>>

-----------------------------------------------------------------------------
(* Verdicts.                                                               *)

\* Faulty form: one verdict for both terminations.
VerdictUnnamed(guardFired, oomFired) ==
    IF oomFired \/ guardFired THEN "terminated" ELSE "clean"

\* Isolate::settle: did the guard fire (its key is gone), did the heap cap.
Verdict(guardFired, oomFired) ==
    CASE oomFired -> "memory"
      [] ~oomFired /\ guardFired -> "deadline"
      [] OTHER -> "clean"

\* Verdict::apply: an error is what the termination made of the job.
Apply(verdict, result) ==
    IF verdict # "clean" /\ result # "ok" THEN verdict ELSE result

\* Verdict::cutoff.
Cutoff(verdict) == IF verdict = "memory" THEN "memory" ELSE "deadline"

\* Reply to the requests of f; the others keep what they have.
ReplyTo(f) ==
    /\ reply' = [r \in Requests |-> IF r \in DOMAIN f THEN f[r] ELSE reply[r]]
    /\ status' = [r \in Requests |-> IF r \in DOMAIN f THEN "done" ELSE status[r]]

Answer(r, value) == [x \in {r} |-> value]

\* Faulty form: leaves the parked calls to wait.
SweptAlone(r, value, oomFired) == Answer(r, value)

\* A fired heap cap fails every parked call: their promises never settle.
SweptWith(r, value, oomFired) ==
    [x \in {r} \cup (IF oomFired THEN Parked ELSE {}) |->
        IF x = r THEN value ELSE "memory"]

-----------------------------------------------------------------------------
(* Settling: the guard is disarmed, the heap cap's flag consumed, and a    *)
(* termination either of them caused is cancelled.                         *)

\* Faulty form: cancels only what the guard fired.
SettleKeepingTermination(guardFired, oomFired) ==
    /\ terminating' = (terminating /\ ~guardFired)
    /\ oom' = FALSE
    /\ condemned' = (condemned \/ oomFired)

\* Faulty form: consumes the flag without condemning.
SettleForgiving(guardFired, oomFired) ==
    /\ terminating' = (terminating /\ ~guardFired /\ ~oomFired)
    /\ oom' = FALSE
    /\ UNCHANGED condemned

Settle(guardFired, oomFired) ==
    /\ terminating' = (terminating /\ ~guardFired /\ ~oomFired)
    /\ oom' = FALSE
    /\ condemned' = (condemned \/ oomFired)

-----------------------------------------------------------------------------
(* Jobs.  A new job comes before everything else a tick looks at.          *)

\* Faulty form: no job is taken while a call is parked.
TakesJobAlone == AtTick /\ queue # <<>> /\ Parked = {}

TakesJob == AtTick /\ queue # <<>>

\* refuse_condemned; a GC barrier still acks.
RefuseJob ==
    /\ TakesJob /\ condemned
    /\ queue' = Tail(queue)
    /\ ReplyTo(Answer(Head(queue), IF Kind[Head(queue)] = "gc" THEN "ok" ELSE "memory"))
    /\ UNCHANGED <<open, abandoned, running, watched, ready, healthVars, thread>>

GcJob ==
    /\ TakesJob /\ ~condemned /\ Kind[Head(queue)] = "gc"
    /\ queue' = Tail(queue)
    /\ ReplyTo(Answer(Head(queue), "ok"))
    /\ UNCHANGED <<open, abandoned, running, watched, ready, healthVars, thread>>

\* Faulty form: arms the watchdog beside parked calls.
ArmAlways(r) == r \in HasDeadline

\* arm_alone: the watchdog is armed only while no call is parked.
ArmAlone(r) == r \in HasDeadline /\ Parked = {}

\* Faulty form: runs jobs on a condemned isolate.
StartJobAnyway ==
    /\ TakesJob /\ Kind[Head(queue)] # "gc"
    /\ LET r == Head(queue)
       IN  /\ queue' = Tail(queue)
           /\ status' = [status EXCEPT ![r] = "running"]
           /\ running' = r
           /\ watched' = ArmAlone(r)
           /\ armed' = IF ArmAlone(r) THEN armed \cup {r} ELSE armed
    /\ UNCHANGED <<open, abandoned, reply, ready, expired, oom, terminating,
                   condemned, thread>>

StartJob ==
    /\ TakesJob /\ ~condemned /\ Kind[Head(queue)] # "gc"
    /\ LET r == Head(queue)
       IN  /\ queue' = Tail(queue)
           /\ status' = [status EXCEPT ![r] = "running"]
           /\ running' = r
           /\ watched' = ArmAlone(r)
           /\ armed' = IF ArmAlone(r) THEN armed \cup {r} ELSE armed
    /\ UNCHANGED <<open, abandoned, reply, ready, expired, oom, terminating,
                   condemned, thread>>

GuardFired == watched /\ running \notin armed

\* The running job's JavaScript comes back: with a value, or with an error,
\* its own or a termination's.  An eval also drains the event loop, which a
\* parked call's outstanding fetch keeps alive.
JobReturns(result) ==
    /\ thread = "ticking" /\ running # NoRequest
    /\ running \in Wedging => terminating /\ result = "js"
    /\ Kind[running] = "eval" /\ result = "ok"
         => \A p \in Parked : AllDone(CausedBy(p))

LeaveJob ==
    /\ running' = NoRequest
    /\ watched' = FALSE
    /\ armed' = armed \ {running}
    /\ Settle(GuardFired, oom)
    /\ UNCHANGED <<open, abandoned, queue, expired, thread>>

\* eval_job, and call_job whose setup failed.
FinishJob(result) ==
    /\ JobReturns(result)
    /\ Kind[running] = "eval" \/ result # "ok"
    /\ ReplyTo(SweptWith(running, Apply(Verdict(GuardFired, oom), result), oom))
    /\ ready' = ready \ (IF oom THEN Parked ELSE {})
    /\ LeaveJob

\* call_job: cut off, or set up past its deadline with nobody watching.
CallCutOff ==
    /\ JobReturns("ok") /\ Kind[running] = "call"
    /\ Verdict(GuardFired, oom) # "clean" \/ running \in expired
    /\ ReplyTo(SweptWith(running, Cutoff(Verdict(GuardFired, oom)), oom))
    /\ ready' = ready \ (IF oom THEN Parked ELSE {})
    /\ LeaveJob

\* call_job: parked on its promise.
CallParks ==
    /\ JobReturns("ok") /\ Kind[running] = "call"
    /\ Verdict(GuardFired, oom) = "clean" /\ running \notin expired
    /\ status' = [status EXCEPT ![running] = "parked"]
    /\ LeaveJob
    /\ UNCHANGED <<reply, ready>>

-----------------------------------------------------------------------------
(* Ticks with no job waiting: a parked call that settled or timed out,     *)
(* then a turn of the event loop.                                          *)

\* The promise wins over the deadline; turning its value into JSON runs
\* JavaScript, which may hit the heap cap.
Settled(r) ==
    /\ AtTick /\ queue = <<>> /\ open
    /\ r \in Parked /\ r \in ready \cup expired
    /\ \E oomFired \in {oom, oom \/ (Capped /\ r \in ready)}, result \in {"ok", "js"} :
         LET verdict == Verdict(FALSE, oomFired)
         IN  /\ ReplyTo(SweptWith(r, IF r \in ready THEN Apply(verdict, result)
                                                   ELSE Cutoff(verdict), oomFired))
             /\ Settle(FALSE, oomFired)
             /\ ready' = ready \ ({r} \cup (IF oomFired THEN Parked ELSE {}))
    /\ UNCHANGED <<open, abandoned, queue, running, watched, armed, expired, thread>>

\* The event loop settles a promise, in a turn of its own or while a job's
\* setup drives it.
Resolve(r) ==
    /\ thread = "ticking" /\ r \in Parked \ ready /\ r \notin Hanging
    /\ running = NoRequest => queue = <<>> /\ open
    /\ AllDone(CausedBy(r))
    /\ ready' = ready \cup {r}
    /\ UNCHANGED <<open, abandoned, queue, status, reply, running, watched,
                   healthVars, thread>>

QuietTurn ==
    /\ AtTick /\ queue = <<>> /\ open
    /\ Parked \cap (ready \cup expired) = {}

\* memory_exhausted: the heap cap fired in the turn, or is still on record.
MemoryExhausted ==
    /\ QuietTurn /\ Capped
    /\ ReplyTo([x \in Parked |-> "memory"])
    /\ ready' = ready \ Parked
    /\ condemned' = TRUE
    /\ oom' = FALSE
    /\ terminating' = FALSE
    /\ UNCHANGED <<open, abandoned, queue, running, watched, armed, expired, thread>>

\* How the last poll finds the parked calls of a broken event loop.
FinalPolls ==
    {f \in [Parked -> {"ok", "js", "late", "pending"}] :
        \A x \in Parked : /\ f[x] \in {"ok", "js"} => x \notin Hanging
                          /\ f[x] = "late" => x \in HasDeadline}

BrokenReply(poll, oomFired) ==
    IF poll \in {"ok", "js"} THEN poll
    ELSE IF oomFired THEN "memory"
    ELSE IF poll = "late" THEN "deadline" ELSE "js"

\* broken: an uncaught error, or a termination, failed the event loop; what
\* settled on the final turn is delivered, the rest fails.  The heap cap's
\* flag is read once for all of them; delivering may set it again.
Broken ==
    /\ QuietTurn
    /\ \E oomFired \in {oom, oom \/ Capped}, poll \in FinalPolls :
         /\ ReplyTo([x \in Parked |-> BrokenReply(poll[x], oomFired)])
         /\ expired' = expired \cup {x \in Parked : poll[x] = "late"}
         /\ condemned' = (condemned \/ oomFired)
         /\ oom' \in {FALSE, Capped /\ \E x \in Parked : poll[x] = "ok"}
    /\ ready' = ready \ Parked
    /\ terminating' = FALSE
    /\ UNCHANGED <<open, abandoned, queue, running, watched, armed, thread>>

-----------------------------------------------------------------------------
(* The channel is closed and empty: Tick::Closed.                          *)

\* flush_on_close arms a guard for the last poll of the event loop, unless
\* the loop had drained.
StartFlush ==
    /\ AtTick /\ queue = <<>> /\ ~open
    /\ thread' = "flushing"
    /\ armed' = armed \cup {Flush}
    /\ UNCHANGED <<open, abandoned, jobVars, expired, oom, terminating, condemned>>

\* The scheduler is dropped: the callers of parked calls read Closed.
Close ==
    /\ thread = "flushing" \/ (AtTick /\ queue = <<>> /\ ~open)
    /\ thread' = "gone"
    /\ armed' = armed \ {Flush}
    /\ ReplyTo([x \in Parked |-> "closed"])
    /\ ready' = ready \ Parked
    /\ UNCHANGED <<open, abandoned, queue, running, watched, expired, oom,
                   terminating, condemned>>

Next ==
    \/ \E r \in Requests : Submit(r) \/ Expire(r) \/ Settled(r) \/ Resolve(r)
    \/ \E g \in Requests \cup {Flush} : Fire(g)
    \/ AbandonTerminate \/ AbandonClose \/ Drop
    \/ OutOfMemory
    \/ RefuseJob \/ GcJob \/ StartJob
    \/ \E result \in {"ok", "js"} : FinishJob(result)
    \/ CallCutOff \/ CallParks
    \/ MemoryExhausted \/ Broken
    \/ StartFlush \/ Close

\* The engine thread keeps ticking, the watchdog and the clock run on, and
\* the JavaScript that is not wedged and does not hang gets done.
Fairness ==
    /\ WF_vars(RefuseJob \/ GcJob \/ StartJob \/ StartFlush \/ Close)
    /\ WF_vars(FinishJob("ok") \/ CallCutOff \/ CallParks)
    /\ WF_vars(terminating /\ FinishJob("js"))
    /\ WF_vars(AbandonClose)
    /\ \A r \in Requests : /\ WF_vars(Settled(r))
                            /\ WF_vars(Resolve(r))
                            /\ WF_vars(Expire(r))
                            /\ WF_vars(Fire(r))
                            /\ WF_vars(Caused(r) /\ Submit(r))

Spec == Init /\ [][Next]_vars /\ Fairness

-----------------------------------------------------------------------------
(* Properties.                                                             *)

\* No termination outlives the job it was meant for ("a late fire can never
\* poison the job that comes after"): one is pending only while the guarded
\* job is still running, for the heap cap until its job settles, or because
\* the engine was abandoned or is being closed.
TerminationOwned ==
    terminating => \/ GuardFired /\ running \in expired
                   \/ oom
                   \/ abandoned
                   \/ thread # "ticking"

\* The watchdog never cuts off another call's JavaScript: while it is armed,
\* or has fired and is not settled, the job it was armed for is the running
\* one and no call is parked.
WatchdogAlone ==
    thread = "ticking" =>
        /\ armed \subseteq {running}
        /\ watched => Parked = {}

\* A condemned isolate runs nothing and keeps no caller waiting on a promise
\* that can never settle.
CondemnedIdle == condemned => running = NoRequest /\ Parked = {}

\* A caller is told the truth: Deadline only after its own deadline passed,
\* MemoryLimit only of an isolate whose heap cap fired, Closed only once the
\* engine's handle is gone.
HonestReply ==
    \A r \in Requests :
        /\ reply[r] = "deadline" => r \in expired
        /\ reply[r] = "memory" => condemned
        /\ reply[r] = "closed" => ~open

\* The engine is the service that its callers count on (CSS engine, plugin
\* host, SSR): one reply a request, never taken back, with a true reason, and
\* nothing but the GC barrier once the heap cap has condemned it.
Service == INSTANCE EngineService WITH
    asked <- {r \in Requests : status[r] # "new"},
    Barriers <- {r \in Requests : Kind[r] = "gc"}

ImplementsService == Service!Spec

\* A job that no watchdog may terminate, since it was started beside parked
\* calls, and that does not end: its setup wedges, or it is an eval that drains
\* the event loop of a parked call whose own request is queued behind it.
HoldsUp ==
    /\ running # NoRequest /\ ~watched
    /\ \/ running \in Wedging
       \/ Kind[running] = "eval" /\ \E p \in Parked : ~AllDone(CausedBy(p))

\* Every request is answered: a call never waits behind the requests it
\* caused, a guarded job that wedges is cut off, a promise stranded by the
\* heap cap is failed, and the callers of a closed or abandoned engine hear
\* of it.  Only an unwatched job that does not end holds the others up.
EveryRequestAnswered ==
    \A r \in Requests : (status[r] = "queued") ~> (Done(r) \/ HoldsUp)
=============================================================================
