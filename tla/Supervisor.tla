----------------------------- MODULE Supervisor -----------------------------
(***************************************************************************)
(* The engine supervisor of core/engine/supervise: it starts, reloads,     *)
(* restarts and stops the child process that forwards the traffic, and it  *)
(* owns the routes of the TUN adapter.                                     *)
(*                                                                         *)
(* Concurrent actors: the callers of Apply, Stop and Close, one watch      *)
(* goroutine per started process, and the processes themselves.  Apply,    *)
(* Stop, Close and the two halves of watch run under the mutex             *)
(* s.lifecycle; `holder' says which of them has it.  s.mu only protects    *)
(* single reads and writes and needs no variable.  The steps of the code   *)
(* that take time (reload, stopping a child, starting one, routing) are    *)
(* separate actions, so that a child may die between any two of them.      *)
(***************************************************************************)
EXTENDS Naturals, Sequences, FiniteSets

CONSTANTS
    Callers,         \* the goroutines that call Apply, Stop and Close
    Plans,           \* the plans a caller may apply
    TunPlans,        \* those with Tun.Enabled
    ReloadOutcomes,  \* what driver.Reload may answer: see ReloadAnswers
    RestartBudget,   \* cfg.RestartBudget (5 in production)
    QueueLen,        \* events a subscriber may have waiting (128 in production)
    MaxProcs         \* bound: child processes started in one behaviour

NoPlan == "nil"
ReloadAnswers == {"ok", "error", "unsupported"}

ASSUME PlansAssumption == TunPlans \subseteq Plans /\ NoPlan \notin Plans
ASSUME ReloadAssumption == ReloadOutcomes \subseteq ReloadAnswers
ASSUME CallersAssumption == {"none", "restart"} \cap Callers = {}
ASSUME BoundsAssumption ==
    RestartBudget \in Nat /\ QueueLen \in Nat /\ MaxProcs \in Nat

Procs == 1 .. MaxProcs
NoProc == 0

VARIABLES
    state,     \* s.state
    plan,      \* s.plan
    proc,      \* s.proc
    stopping,  \* s.stopping
    routed,    \* s.routed
    canceled,  \* s.ctx is cancelled
    used,      \* attempts inside the window of the restart budget
    holder,    \* who holds s.lifecycle: "none", a caller, or "restart" (watch)
    pc,        \* how far the holder is
    jobPlan,   \* the plan the holder is starting
    job,       \* the process the holder is starting or stopping
    call,      \* what each caller's last call is doing or has returned
    closing,   \* a Close has finished its Stop and not yet cancelled s.ctx
    life,      \* the operating system's view of each process
    ran,       \* the plan each process was last configured with
    watch,     \* the watch goroutine of each process
    watchPlan, \* the plan that goroutine read before its backoff
    rules,     \* Sora's routing rules are (at least partly) in the kernel
    subscribed,\* the session listens to the event bus
    bus        \* events published and not yet handled by that subscriber

supVars == <<state, plan, proc, stopping, routed, canceled, used>>
opVars == <<holder, pc, jobPlan, job, call, closing>>
envVars == <<life, ran, watch, watchPlan, rules>>
busVars == <<subscribed, bus>>
vars == <<supVars, opVars, envVars, busVars>>

EngineStates == {"idle", "starting", "running", "applying", "recovering",
                 "stopped", "failed"}

\* A process is "live" until it is told to die or dies; "killed" when it was
\* sent SIGKILL and has not been reaped; "exited" once Process.done is closed.
Life == {"unborn", "live", "killed", "exited"}

\* The notifications the session acts on; other kinds are only journaled.
Events == {"down", "running", "fatal"}

FlagsOK ==
    /\ stopping \in BOOLEAN /\ routed \in BOOLEAN /\ canceled \in BOOLEAN
    /\ closing \in BOOLEAN /\ rules \in BOOLEAN /\ subscribed \in BOOLEAN

TypeOK ==
    /\ FlagsOK
    /\ state \in EngineStates
    /\ plan \in Plans \cup {NoPlan}
    /\ proc \in Procs \cup {NoProc}
    /\ used \in 0 .. RestartBudget
    /\ holder \in Callers \cup {"none", "restart"}
    /\ pc \in {"idle", "reload", "replace", "prepare", "spawn", "ready",
               "route", "rollback", "finish", "stop", "close"}
    /\ jobPlan \in Plans \cup {NoPlan}
    /\ job \in Procs \cup {NoProc}
    /\ call \in [Callers -> {"idle", "busy", "ok", "error"}]
    /\ life \in [Procs -> Life]
    /\ ran \in [Procs -> Plans \cup {NoPlan}]
    /\ watch \in [Procs -> {"none", "wait", "backoff", "done"}]
    /\ watchPlan \in [Procs -> Plans \cup {NoPlan}]
    /\ bus \in Seq(Events) /\ Len(bus) <= QueueLen

Init ==
    /\ state = "idle"
    /\ plan = NoPlan
    /\ proc = NoProc
    /\ stopping = FALSE /\ routed = FALSE /\ canceled = FALSE
    /\ used = 0
    /\ holder = "none" /\ pc = "idle" /\ jobPlan = NoPlan /\ job = NoProc
    /\ call = [c \in Callers |-> "idle"] /\ closing = FALSE
    /\ life = [p \in Procs |-> "unborn"]
    /\ ran = [p \in Procs |-> NoPlan]
    /\ watch = [p \in Procs |-> "none"]
    /\ watchPlan = [p \in Procs |-> NoPlan]
    /\ rules = FALSE
    /\ subscribed = FALSE /\ bus = << >>

-----------------------------------------------------------------------------
(***************************************************************************)
(* Helpers.                                                                *)
(***************************************************************************)

\* Process.Exited: nil and unborn handles never reach it.
Exited(p) == life[p] = "exited"

\* RestartBudget.Allow, after the attempts older than the window are dropped.
Allow(kept) == kept < RestartBudget

\* What watch asks when its backoff is over: is the restart still wanted?
GiveUpOnClose(p) == canceled
GiveUpIfStopped(p) == stopping \/ canceled
GiveUpTracked(p) == proc # NoProc \/ stopping \/ canceled
GiveUp(p) == proc # p \/ stopping \/ canceled

\* setState announces only a change; of the states only "running" matters to
\* the subscriber, so the events of a step are those it passes to Publish.
Announce(s) == IF s = "running" /\ state # "running" THEN <<"running">> ELSE << >>

\* EventBus.Publish: never blocks; an event that finds the queue full is lost.
Publish(events) ==
    LET all == bus \o events
    IN  /\ bus' = IF ~subscribed THEN bus
                  ELSE SubSeq(all, 1, IF Len(all) > QueueLen THEN QueueLen ELSE Len(all))
        /\ UNCHANGED subscribed

\* The operation returns and unlocks s.lifecycle; watch has no caller to tell.
Return(result) ==
    /\ holder' = "none" /\ pc' = "idle" /\ jobPlan' = NoPlan /\ job' = NoProc
    /\ call' = [c \in Callers |-> IF c = holder THEN result ELSE call[c]]

\* Process.Stop: interrupt, grace, kill, wait.  It returns nil once the child
\* is reaped.  Otherwise the child has been killed and the wait was cut short,
\* and it may or may not be gone when the caller looks again.
StopProcess(p, ok) ==
    /\ ok \/ ~Exited(p)
    /\ \E l \in IF ok THEN {"exited"} ELSE {"killed", "exited"} :
          life' = [life EXCEPT ![p] = l]

UnrouteRetained(ok) == ok /\ UNCHANGED <<routed, rules>>

\* Supervisor.unroute: a no-op unless this supervisor installed the routes;
\* ownership is kept when the driver cannot remove them.
Unroute(ok) ==
    IF ~routed THEN ok /\ UNCHANGED <<routed, rules>>
    ELSE IF ok THEN routed' = FALSE /\ rules' = FALSE
    ELSE UNCHANGED routed /\ rules' \in {FALSE, TRUE}

-----------------------------------------------------------------------------
(***************************************************************************)
(* Apply.                                                                  *)
(***************************************************************************)

\* admit or PrepareTun refuses the plan before anything is recorded.
ApplyRefused(c) ==
    /\ holder = "none" /\ call[c] # "busy"
    /\ call' = [call EXCEPT ![c] = "error"]
    /\ UNCHANGED <<supVars, holder, pc, jobPlan, job, closing, envVars, busVars>>

\* Apply up to the choice between a reload and a start.
ApplyBegin(c, p) ==
    /\ holder = "none" /\ call[c] # "busy"
    /\ plan' = p /\ stopping' = FALSE
    /\ holder' = c /\ call' = [call EXCEPT ![c] = "busy"] /\ jobPlan' = p
    /\ IF proc # NoProc /\ ~Exited(proc)
       THEN pc' = "reload" /\ state' = "applying"
       ELSE pc' = "prepare" /\ UNCHANGED state
    /\ UNCHANGED <<proc, routed, canceled, used, job, closing, envVars, busVars>>

\* reload: driver.Reload answered; the deferred setState runs in every case.
\* An engine that cannot reload is replaced: s.proc is cleared first.
Reload(answer) ==
    /\ pc = "reload"
    /\ state' = "running"
    /\ Publish(Announce("running") \o IF answer = "ok" THEN <<"running">> ELSE << >>)
    /\ IF answer = "unsupported"
       THEN /\ job' = proc /\ proc' = NoProc /\ pc' = "replace"
            /\ UNCHANGED <<holder, jobPlan, call>>
       ELSE Return(answer) /\ UNCHANGED proc
    /\ ran' = IF answer = "ok" THEN [ran EXCEPT ![proc] = jobPlan] ELSE ran
    /\ UNCHANGED <<plan, stopping, routed, canceled, used, closing,
                   life, watch, watchPlan, rules>>

ReplaceUnstopped(ok) ==
    /\ pc = "replace" /\ ok
    /\ pc' = "prepare" /\ job' = NoProc
    /\ UNCHANGED <<supVars, holder, jobPlan, call, closing, envVars, busVars>>

\* proc.Stop of the replaced engine; an error ends Apply without a start.
Replace(ok) ==
    /\ pc = "replace"
    /\ StopProcess(job, ok)
    /\ IF ok THEN pc' = "prepare" /\ job' = NoProc
                  /\ UNCHANGED <<holder, jobPlan, call>>
             ELSE Return("error")
    /\ UNCHANGED <<supVars, closing, ran, watch, watchPlan, rules, busVars>>

-----------------------------------------------------------------------------
(***************************************************************************)
(* start, called by Apply and by watch.                                    *)
(***************************************************************************)

\* What both callers do with an error of start: announce the failure.
StartFailed ==
    /\ state' = "failed"
    /\ Publish(<<"fatal">>)
    /\ Return("error")

\* reserve, Render, check and PrepareStart: nothing runs and nothing is routed.
Prepare(ok) ==
    /\ pc = "prepare"
    /\ IF ok THEN /\ state' = "starting" /\ pc' = "spawn"
                  /\ UNCHANGED <<holder, jobPlan, job, call, busVars>>
             ELSE StartFailed
    /\ UNCHANGED <<plan, proc, stopping, routed, canceled, used, closing, envVars>>

\* Start of the child.  A failed exec returns before anything must be undone.
Spawn(ok) ==
    /\ pc = "spawn"
    /\ IF ok THEN \E p \in Procs :
                    /\ life[p] = "unborn" /\ \A q \in Procs : q < p => life[q] # "unborn"
                    /\ life' = [life EXCEPT ![p] = "live"]
                    /\ ran' = [ran EXCEPT ![p] = jobPlan]
                    /\ job' = p /\ pc' = "ready"
                    /\ UNCHANGED <<state, holder, jobPlan, call, busVars>>
             ELSE StartFailed /\ UNCHANGED <<life, ran>>
    /\ UNCHANGED <<plan, proc, stopping, routed, canceled, used, closing,
                   watch, watchPlan, rules>>

\* waitReady and ConfirmStart: a handshake succeeds only with a child that is
\* there to answer it; it fails on exit, timeout or a cancelled context.
Ready(ok) ==
    /\ pc = "ready"
    /\ ok => life[job] = "live"
    /\ pc' = IF ~ok THEN "rollback" ELSE IF jobPlan \in TunPlans THEN "route" ELSE "finish"
    /\ UNCHANGED <<supVars, holder, jobPlan, job, call, closing, envVars, busVars>>

\* driver.Route.  tunroute removes a partial installation itself, ignoring the
\* error of that removal, so a failed Route may leave rules behind.
Route(ok) ==
    /\ pc = "route"
    /\ IF ok THEN rules' = TRUE /\ routed' = TRUE /\ pc' = "finish"
             ELSE rules' \in {FALSE, TRUE} /\ UNCHANGED routed /\ pc' = "rollback"
    /\ UNCHANGED <<state, plan, proc, stopping, canceled, used,
                   holder, jobPlan, job, call, closing, life, ran, watch, watchPlan, busVars>>

\* The error path of start: stop the child, keep it tracked if it will not go,
\* and remove the routes this supervisor owns.
Rollback(ok, unrouted) ==
    /\ pc = "rollback"
    /\ StopProcess(job, ok)
    /\ proc' = IF life'[job] = "exited" THEN proc ELSE job
    /\ Unroute(unrouted)
    /\ StartFailed
    /\ UNCHANGED <<plan, stopping, canceled, used, closing, ran, watch, watchPlan>>

\* The engine is up: track it, announce it and watch it.
Finish ==
    /\ pc = "finish"
    /\ proc' = job
    /\ state' = "running"
    /\ Publish(<<"running">>)
    /\ watch' = [watch EXCEPT ![job] = "wait"]
    /\ Return("ok")
    /\ UNCHANGED <<plan, stopping, routed, canceled, used, closing,
                   life, ran, watchPlan, rules>>

-----------------------------------------------------------------------------
(***************************************************************************)
(* watch.                                                                  *)
(***************************************************************************)

\* The first half of watch decides what an exit means.  RestartBudget.Allow
\* first forgets the attempts that left the window: any number of them.
WatchExit(p, unrouted) ==
    /\ watch[p] = "wait" /\ holder = "none"
    /\ Exited(p) \/ canceled
    /\ IF proc # p \/ stopping
       THEN /\ watch' = [watch EXCEPT ![p] = "done"]
            /\ unrouted
            /\ UNCHANGED <<supVars, watchPlan, rules, busVars>>
       ELSE \/ /\ canceled                     \* Wait returned ctx.Err()
               /\ unrouted
               /\ watch' = [watch EXCEPT ![p] = "done"]
               /\ state' = "stopped"
               /\ UNCHANGED <<plan, proc, stopping, routed, canceled, used,
                              watchPlan, rules, busVars>>
            \/ /\ Exited(p) /\ plan = NoPlan
               /\ unrouted
               /\ watch' = [watch EXCEPT ![p] = "done"]
               /\ state' = "stopped"
               /\ Publish(<<"down">>)
               /\ UNCHANGED <<plan, proc, stopping, routed, canceled, used,
                              watchPlan, rules>>
            \/ /\ Exited(p) /\ plan # NoPlan
               /\ \E kept \in 0 .. used :
                    IF Allow(kept)
                    THEN /\ used' = kept + 1
                         /\ unrouted
                         /\ state' = "recovering"
                         /\ Publish(<<"down">>)
                         /\ watch' = [watch EXCEPT ![p] = "backoff"]
                         /\ watchPlan' = [watchPlan EXCEPT ![p] = plan]
                         /\ UNCHANGED <<routed, rules>>
                    ELSE /\ used' = kept
                         /\ Unroute(unrouted)
                         /\ state' = "failed"
                         /\ Publish(<<"down", "fatal">>)
                         /\ watch' = [watch EXCEPT ![p] = "done"]
                         /\ UNCHANGED watchPlan
               /\ UNCHANGED <<plan, proc, stopping, canceled>>
    /\ UNCHANGED <<opVars, life, ran>>

\* The second half of watch: the backoff ends, or the context does.  The
\* restart uses the plan read before the wait.
WatchRestart(p) ==
    /\ watch[p] = "backoff"
    /\ watch' = [watch EXCEPT ![p] = "done"] /\ watchPlan' = [watchPlan EXCEPT ![p] = NoPlan]
    /\ \/ /\ canceled
          /\ UNCHANGED <<holder, pc, jobPlan>>
       \/ /\ holder = "none"
          /\ IF GiveUp(p)
             THEN UNCHANGED <<holder, pc, jobPlan>>
             ELSE holder' = "restart" /\ pc' = "prepare" /\ jobPlan' = watchPlan[p]
    /\ UNCHANGED <<supVars, job, call, closing, life, ran, rules, busVars>>

-----------------------------------------------------------------------------
(***************************************************************************)
(* Stop and Close.                                                         *)
(***************************************************************************)

StopBegin(c, op) ==
    /\ holder = "none" /\ call[c] # "busy"
    /\ stopping' = TRUE /\ plan' = NoPlan /\ proc' = NoProc
    /\ holder' = c /\ call' = [call EXCEPT ![c] = "busy"] /\ pc' = op /\ job' = proc
    /\ UNCHANGED <<state, routed, canceled, used, jobPlan, closing, envVars, busVars>>

\* A child that survives the kill stays tracked; either failure is reported.
StopEnd(ok, unrouted) ==
    /\ pc \in {"stop", "close"}
    /\ IF job = NoProc THEN ok /\ UNCHANGED <<life, proc>>
       ELSE StopProcess(job, ok) /\ proc' = IF life'[job] = "exited" THEN NoProc ELSE job
    /\ Unroute(unrouted)
    /\ state' = IF ok /\ unrouted THEN "stopped" ELSE "failed"
    /\ closing' = (closing \/ pc = "close")
    /\ Return(IF ok /\ unrouted THEN "ok" ELSE "error")
    /\ UNCHANGED <<plan, stopping, canceled, used, ran, watch, watchPlan, busVars>>

\* Close cancels s.ctx after its Stop returned, without the mutex.
CloseCancel ==
    /\ closing
    /\ closing' = FALSE /\ canceled' = TRUE
    /\ UNCHANGED <<state, plan, proc, stopping, routed, used,
                   holder, pc, jobPlan, job, call, envVars, busVars>>

-----------------------------------------------------------------------------
(***************************************************************************)
(* The children (external): they die on their own, when killed, and when   *)
(* the goroutine of Start sees s.ctx end.                                  *)
(***************************************************************************)

Crash(p) ==
    /\ life[p] = "live"
    /\ life' = [life EXCEPT ![p] = "exited"]
    /\ UNCHANGED <<supVars, opVars, ran, watch, watchPlan, rules, busVars>>

Reap(p) ==
    /\ life[p] = "killed"
    /\ life' = [life EXCEPT ![p] = "exited"]
    /\ UNCHANGED <<supVars, opVars, ran, watch, watchPlan, rules, busVars>>

\* The goroutine of Process.Start that stops the child with its context.
ContextStop(p) ==
    /\ canceled /\ life[p] = "live"
    /\ life' = [life EXCEPT ![p] = "killed"]
    /\ UNCHANGED <<supVars, opVars, ran, watch, watchPlan, rules, busVars>>

\* The subscriber of the bus is the session (Session.tla): it says when these
\* happen and what an event does.  A supervisor on its own has no subscriber.
Subscribe ==
    /\ ~subscribed /\ subscribed' = TRUE /\ bus' = << >>
    /\ UNCHANGED <<supVars, opVars, envVars>>

Unsubscribe ==
    /\ subscribed /\ subscribed' = FALSE /\ bus' = << >>
    /\ UNCHANGED <<supVars, opVars, envVars>>

Deliver ==
    /\ bus # << >>
    /\ bus' = Tail(bus)
    /\ UNCHANGED <<supVars, opVars, envVars, subscribed>>

-----------------------------------------------------------------------------
\* The holder of s.lifecycle takes its next step.
HolderStep ==
    \/ \E answer \in ReloadOutcomes : Reload(answer)
    \/ \E ok \in BOOLEAN : Replace(ok) \/ Prepare(ok) \/ Spawn(ok) \/ Ready(ok) \/ Route(ok)
    \/ \E ok, unrouted \in BOOLEAN : Rollback(ok, unrouted)
    \/ Finish
    \/ \E ok, unrouted \in BOOLEAN : StopEnd(ok, unrouted)

WatchStep(p) == (\E unrouted \in BOOLEAN : WatchExit(p, unrouted)) \/ WatchRestart(p)

ProcessStep(p) == Crash(p) \/ Reap(p) \/ ContextStop(p)

\* What the supervisor and its children do by themselves, between calls.
Internal ==
    \/ HolderStep
    \/ CloseCancel
    \/ \E p \in Procs : WatchStep(p) \/ ProcessStep(p)

Next ==
    \/ \E c \in Callers :
          \/ \E p \in Plans : ApplyBegin(c, p)
          \/ ApplyRefused(c)
          \/ \E op \in {"stop", "close"} : StopBegin(c, op)
    \/ Internal

\* A goroutine that holds the mutex goes on; one that waits for it gets it,
\* because Go's mutex hands itself to a starving waiter; a kill takes effect.
Fairness ==
    /\ WF_vars(HolderStep) /\ WF_vars(CloseCancel)
    /\ \A p \in Procs : SF_vars(WatchStep(p)) /\ WF_vars(Reap(p)) /\ WF_vars(ContextStop(p))

Spec == Init /\ [][Next]_vars
FairSpec == Spec /\ Fairness

-----------------------------------------------------------------------------
(***************************************************************************)
(* Properties.                                                             *)
(***************************************************************************)

Live == {p \in Procs : life[p] = "live"}

\* One engine at a time, and never one that nobody can stop: whatever the order
\* of Apply, Stop, exits and restarts, the running child is the one in s.proc
\* or the one the holder of s.lifecycle has in hand.
OneEngine ==
    /\ \A p, q \in Live : p = q
    /\ Live \subseteq {proc, job}

\* After Stop or Close (and before the next Apply) no child runs, although a
\* watch goroutine may have been about to restart one: the recheck of s.proc
\* and s.stopping after the backoff (supervisor.go:587-592).
StopIsFinal == stopping /\ pc \notin {"stop", "close"} => Live = {}

\* The engine runs the plan whose Apply returned nil, also after any number of
\* restarts, each of which uses a plan read before its backoff.
AckedPlanRuns ==
    \A c \in Callers :
        /\ Callers = {c} /\ call[c] = "ok" /\ holder = "none" /\ proc # NoProc
        => ran[proc] = plan

\* Stop returns nil only when the routes it owned are gone, and until the next
\* Apply nothing routes again (Supervisor.unroute, start's driver.Route).
StopReleasesRoutes == stopping /\ holder = "none" /\ state = "stopped" => ~routed

\* An engine whose exit watch has to handle is replaced, or the failure or the
\* stop is recorded: recovery never hangs half way.
EngineRecovers ==
    \A p \in Procs :
        []<>(proc = p /\ Exited(p) => state \in {"failed", "stopped"} \/ canceled)

=============================================================================
