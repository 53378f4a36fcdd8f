------------------------------ MODULE Session -------------------------------
(***************************************************************************)
(* One session of core/session: Session over its engine (Supervisor) and   *)
(* its guard (Guard).                                                      *)
(*                                                                         *)
(* Actors: the control goroutine, which the Manager lets run Start and     *)
(* then Stop, one after the other ("ctl"); the supervise loop ("loop");    *)
(* the RPC handlers SetKillSwitch and, for an engine that re-applies its   *)
(* plan to select (Xray), Select ("select"); and everything that moves     *)
(* inside the supervisor.  s.mu protects single reads and writes, except   *)
(* that Stop holds it during eng.Close: then `spc' is "closing" and the    *)
(* actions that need s.mu wait.                                            *)
(***************************************************************************)
EXTENDS Supervisor, Guard

CONSTANTS
    ThePlan,     \* s.cfg.Plan
    TheNets,     \* its tunnel networks
    KillCalls,   \* the values SetKillSwitch may be called with
    Renewals,    \* bound: network changes the loop reacts to in one behaviour
    SelectCalls  \* bound: Select calls in one behaviour (0 unless Xray)

ASSUME SessionAssumption ==
    /\ ThePlan \in Plans /\ TheNets \in Networks /\ Renewals \in Nat
    /\ SelectCalls \in Nat
    /\ KillCalls \subseteq BOOLEAN
    /\ Callers = {"ctl", "loop", "select"}

VARIABLES
    sstate,        \* s.state
    killSwitch,    \* s.status.KillSwitch
    sstopping,     \* s.stopping
    guardApplied,  \* s.guardApplied
    scanceled,     \* s.ctx is cancelled
    spc,           \* how far the control goroutine is
    stopErr,       \* Stop has met an error it will return
    again,         \* this is a repeated Stop
    loop,          \* the supervise goroutine
    renewals,      \* network changes it has reacted to
    kill,          \* a SetKillSwitch that holds s.guardMu: "idle", "on", "off"
    sel,           \* a Select that has read the plan: "idle", "ready", "busy"
    selects        \* Select calls so far

stopVars == <<sstopping, scanceled, stopErr, again>>
rpcVars == <<kill, sel, selects>>
loopVars == <<loop, renewals>>
restVars == <<killSwitch, stopVars, loopVars, rpcVars>>
ctlVars == <<guardApplied, spc, stopVars>>
sessVars == <<sstate, ctlVars, killSwitch, loopVars, rpcVars>>
allVars == <<vars, guardVars, sessVars>>

SessionStates == {"disconnected", "connecting", "connected", "reconnecting", "failed"}

SessionTypeOK ==
    /\ TypeOK /\ GuardTypeOK
    /\ sstate \in SessionStates
    /\ killSwitch \in BOOLEAN /\ sstopping \in BOOLEAN /\ guardApplied \in BOOLEAN
    /\ scanceled \in BOOLEAN /\ stopErr \in BOOLEAN /\ again \in BOOLEAN
    /\ spc \in {"new", "validate", "guard", "apply", "tun", "tunstop", "undo", "fail",
                "connect", "subscribe", "up", "down", "stop", "stopping", "restore",
                "leave", "close", "closing", "over", "left"}
    /\ loop \in {"none", "run", "renew", "apply", "ended"} /\ renewals \in 0 .. Renewals
    /\ kill \in {"idle", "on", "off"}
    /\ sel \in {"idle", "ready", "busy"} /\ selects \in 0 .. SelectCalls

SessionInit ==
    /\ Init /\ GuardInit
    /\ sstate = "disconnected" /\ killSwitch \in BOOLEAN
    /\ sstopping = FALSE /\ guardApplied = FALSE /\ scanceled = FALSE
    /\ spc = "new" /\ stopErr = FALSE /\ again = FALSE /\ loop = "none" /\ renewals = 0
    /\ kill = "idle"
    /\ sel = "idle" /\ selects = 0

AllowedTransitionsGap ==
    [disconnected |-> {"connecting"},
     connecting   |-> {"connected", "reconnecting", "failed", "disconnected"},
     connected    |-> {"reconnecting", "disconnected"},
     reconnecting |-> {"failed", "disconnected"},
     failed       |-> {"connecting", "disconnected"}]

\* allowedTransitions; setStateLocked discards any other move.
AllowedTransitions ==
    [disconnected |-> {"connecting"},
     connecting   |-> {"connected", "reconnecting", "failed", "disconnected"},
     connected    |-> {"reconnecting", "disconnected", "failed"},
     reconnecting |-> {"connected", "failed", "disconnected"},
     failed       |-> {"connecting", "disconnected"}]

SetState(next) ==
    sstate' = IF next \in AllowedTransitions[sstate] THEN next ELSE sstate

Terminal == sstate \in {"failed", "disconnected"}

\* s.mu can be taken.
MuFree == spc \notin {"close", "closing"}

CtlDone == call["ctl"] # "busy"

-----------------------------------------------------------------------------
(***************************************************************************)
(* Start, run by Manager.Connect.                                          *)
(***************************************************************************)

Start ==
    /\ spc = "new"
    /\ SetState("connecting") /\ spc' = "validate"
    /\ UNCHANGED <<restVars, guardApplied, vars, guardVars>>

\* eng.Validate; then ownership of the guard is recorded before it is used.
Validate(ok) ==
    /\ spc = "validate"
    /\ IF ok THEN guardApplied' = TRUE /\ spc' = "guard"
             ELSE UNCHANGED guardApplied /\ spc' = "fail"
    /\ UNCHANGED <<restVars, sstate, vars, guardVars>>

ArmGuardUnchecked(outcome) ==
    /\ spc = "guard"
    /\ Apply(killSwitch, TheNets, outcome)
    /\ spc' = "apply"
    /\ UNCHANGED <<restVars, sstate, guardApplied, vars>>

ArmGuard(outcome) ==
    /\ spc = "guard"
    /\ Apply(killSwitch, TheNets, outcome)
    /\ spc' = IF outcome = "ok" THEN "apply" ELSE "fail"
    /\ UNCHANGED <<restVars, sstate, guardApplied, vars>>

StartEngine ==
    /\ spc = "apply"
    /\ ApplyBegin("ctl", ThePlan) \/ ApplyRefused("ctl")
    /\ spc' = "tun"
    /\ UNCHANGED <<restVars, sstate, guardApplied, guardVars>>

\* eng.Apply returned; TunUp(up) waits for the adapter of a TUN plan.
AwaitTun(up) ==
    /\ spc = "tun" /\ CtlDone
    /\ IF call["ctl"] = "error" THEN ~up /\ spc' = "undo" /\ UNCHANGED vars
       ELSE IF up \/ ThePlan \notin TunPlans THEN up /\ spc' = "connect" /\ UNCHANGED vars
       ELSE StopBegin("ctl", "stop") /\ spc' = "tunstop"
    /\ UNCHANGED <<restVars, sstate, guardApplied, guardVars>>

\* The error of this Stop is ignored.
TunStopped ==
    /\ spc = "tunstop" /\ CtlDone /\ spc' = "undo"
    /\ UNCHANGED <<restVars, sstate, guardApplied, vars, guardVars>>

\* restoreGuard, under s.guardMu: ownership is kept when Restore fails.
RestoreGuard(outcome) ==
    /\ kill = "idle"
    /\ IF guardApplied THEN Restore(outcome) /\ guardApplied' = (outcome # "ok")
       ELSE outcome = "ok" /\ UNCHANGED <<guardVars, guardApplied>>

UndoGuard(outcome) ==
    /\ spc = "undo"
    /\ RestoreGuard(outcome)
    /\ spc' = "fail"
    /\ UNCHANGED <<restVars, sstate, vars>>

\* fail: Start returns its error.
StartFails ==
    /\ spc = "fail"
    /\ SetState("failed") /\ spc' = "down"
    /\ UNCHANGED <<restVars, guardApplied, vars, guardVars>>

Connected ==
    /\ spc = "connect"
    /\ SetState("connected") /\ spc' = "subscribe"
    /\ UNCHANGED <<restVars, guardApplied, vars, guardVars>>

\* Subscribe and start the loop; Start returns nil.
Supervise ==
    /\ spc = "subscribe"
    /\ Subscribe
    /\ loop' = "run" /\ spc' = "up"
    /\ UNCHANGED <<sstate, renewals, killSwitch, guardApplied, stopVars, rpcVars, guardVars>>

-----------------------------------------------------------------------------
(***************************************************************************)
(* Stop, run by Manager.Connect, Disconnect and Shutdown.                  *)
(***************************************************************************)

\* The first Stop marks the session and cancels its context.
Stop ==
    /\ spc \in {"up", "down"}
    /\ sstopping' = TRUE /\ scanceled' = TRUE /\ spc' = "stop"
    /\ UNCHANGED <<sstate, killSwitch, guardApplied, stopErr, again, loopVars, rpcVars,
                   vars, guardVars>>

\* A repeated Stop skips an engine that is stopped already.
StopAgain ==
    /\ spc = "left"
    /\ again' = TRUE /\ spc' = IF state = "stopped" THEN "restore" ELSE "stop"
    /\ UNCHANGED <<sstate, killSwitch, guardApplied, sstopping, scanceled, stopErr, loopVars,
                   rpcVars, vars, guardVars>>

StopEngine ==
    /\ spc = "stop"
    /\ StopBegin("ctl", "stop")
    /\ spc' = "stopping"
    /\ UNCHANGED <<restVars, sstate, guardApplied, guardVars>>

EngineStoppedUnchecked ==
    /\ spc = "stopping" /\ CtlDone
    /\ spc' = "restore"
    /\ UNCHANGED <<restVars, sstate, guardApplied, vars, guardVars>>

EngineStoppedRetried ==
    /\ spc = "stopping" /\ CtlDone
    /\ spc' = IF call["ctl"] = "error" THEN "stop" ELSE "restore"
    /\ UNCHANGED <<restVars, sstate, guardApplied, vars, guardVars>>

\* eng.Stop returned: a first Stop goes on whatever it returned.
EngineStopped ==
    /\ spc = "stopping" /\ CtlDone
    /\ spc' = IF again /\ call["ctl"] = "error" THEN "left" ELSE "restore"
    /\ stopErr' = (stopErr \/ call["ctl"] = "error")
    /\ UNCHANGED <<sstate, killSwitch, guardApplied, sstopping, scanceled, again, loopVars,
                   rpcVars, vars, guardVars>>

RestoreOnStop(outcome) ==
    /\ spc = "restore"
    /\ RestoreGuard(outcome)
    /\ spc' = IF ~again THEN "leave" ELSE IF outcome = "ok" THEN "over" ELSE "left"
    /\ stopErr' = (stopErr \/ outcome # "ok")
    /\ UNCHANGED <<sstate, killSwitch, sstopping, scanceled, again, loopVars, rpcVars, vars>>

\* The state changes whether or not the engine and the guard are gone.
Leave ==
    /\ spc = "leave"
    /\ SetState("disconnected") /\ spc' = "close"
    /\ IF subscribed THEN Unsubscribe ELSE UNCHANGED vars
    /\ UNCHANGED <<restVars, guardApplied, guardVars>>

CloseEngine ==
    /\ spc = "close"
    /\ StopBegin("ctl", "close")
    /\ spc' = "closing"
    /\ UNCHANGED <<restVars, sstate, guardApplied, guardVars>>

\* The error of Close is ignored; Stop returns stopErr.
Closed ==
    /\ spc = "closing" /\ CtlDone /\ ~closing
    /\ spc' = IF stopErr THEN "left" ELSE "over"
    /\ UNCHANGED <<restVars, sstate, guardApplied, vars, guardVars>>

-----------------------------------------------------------------------------
(***************************************************************************)
(* The supervise loop.                                                     *)
(***************************************************************************)

LoopEvent ==
    /\ loop = "run" /\ MuFree
    /\ Deliver
    /\ CASE Head(bus) = "down" -> SetState("reconnecting") /\ UNCHANGED loop
         [] Head(bus) = "running" ->
              /\ IF sstate = "reconnecting" THEN SetState("connected") ELSE UNCHANGED sstate
              /\ UNCHANGED loop
         [] Head(bus) = "fatal" -> SetState("failed") /\ loop' = "ended"
    /\ UNCHANGED <<ctlVars, killSwitch, renewals, rpcVars, guardVars>>

\* renewConnections after a network change or a sleep: the connections could
\* not be closed one by one, so the plan is applied again.
LoopRenew ==
    /\ loop = "run" /\ MuFree /\ sstate = "connected" /\ renewals < Renewals
    /\ loop' = "renew" /\ renewals' = renewals + 1
    /\ UNCHANGED <<sstate, ctlVars, killSwitch, rpcVars, vars, guardVars>>

LoopApply ==
    /\ loop = "renew"
    /\ ApplyBegin("loop", ThePlan) \/ ApplyRefused("loop")
    /\ loop' = "apply"
    /\ UNCHANGED <<sstate, ctlVars, killSwitch, renewals, rpcVars, guardVars>>

LoopApplied ==
    /\ loop = "apply" /\ call["loop"] # "busy"
    /\ loop' = "run"
    /\ UNCHANGED <<sstate, ctlVars, killSwitch, renewals, rpcVars, vars, guardVars>>

LoopEnd ==
    /\ loop = "run" /\ (scanceled \/ ~subscribed)
    /\ loop' = "ended"
    /\ UNCHANGED <<sstate, ctlVars, killSwitch, renewals, rpcVars, vars, guardVars>>

-----------------------------------------------------------------------------
(***************************************************************************)
(* RPC handlers.                                                           *)
(***************************************************************************)

\* SetKillSwitch takes s.guardMu and looks at the session.
KillSwitchBegin(on) ==
    /\ spc = "up" /\ kill = "idle"
    /\ ~sstopping /\ ~(on /\ Terminal) /\ ~(~on /\ sstate = "disconnected")
    /\ kill' = IF on THEN "on" ELSE "off"
    /\ UNCHANGED <<sstate, ctlVars, killSwitch, loopVars, sel, selects, vars, guardVars>>

KillSwitchRecorded(outcome) ==
    /\ kill # "idle"
    /\ Apply(kill = "on", TheNets, outcome)
    /\ guardApplied' = TRUE /\ killSwitch' = (kill = "on") /\ kill' = "idle"
    /\ UNCHANGED <<sstate, spc, stopVars, loopVars, sel, selects, vars>>

\* It then changes the guard and records what it did, holding s.guardMu.
KillSwitchEnd(outcome) ==
    /\ kill # "idle"
    /\ Apply(kill = "on", TheNets, outcome)
    /\ IF outcome = "ok" THEN guardApplied' = TRUE /\ killSwitch' = (kill = "on")
       ELSE UNCHANGED <<guardApplied, killSwitch>>
    /\ kill' = "idle"
    /\ UNCHANGED <<sstate, spc, stopVars, loopVars, sel, selects, vars>>

\* Select of an engine that applies its plan again: the plan is read here ...
SelectRead ==
    /\ spc = "up" /\ sel = "idle" /\ selects < SelectCalls /\ plan # NoPlan
    /\ sel' = "ready" /\ selects' = selects + 1
    /\ UNCHANGED <<sstate, ctlVars, killSwitch, loopVars, kill, vars, guardVars>>

\* ... and applied whenever the lifecycle mutex is free.
SelectApply ==
    /\ sel = "ready"
    /\ ApplyBegin("select", ThePlan)
    /\ sel' = "busy"
    /\ UNCHANGED <<sstate, ctlVars, killSwitch, loopVars, kill, selects, guardVars>>

SelectEnd ==
    /\ sel = "busy" /\ call["select"] # "busy"
    /\ sel' = "idle"
    /\ UNCHANGED <<sstate, ctlVars, killSwitch, loopVars, kill, selects, vars, guardVars>>

-----------------------------------------------------------------------------
\* The Apply of the loop runs under s.ctx: once Stop cancelled it, no check,
\* handshake, reload or route of that Apply succeeds.
CutShort ==
    holder = "loop" /\ scanceled /\ pc \in {"reload", "prepare", "ready", "route"}
        => pc' \in {pc, "idle", "replace", "rollback"} /\ call'["loop"] # "ok"

EngineStep == Internal /\ CutShort /\ UNCHANGED <<guardVars, sessVars>>

CtlStep ==
    \/ Start \/ StartEngine \/ TunStopped \/ StartFails \/ Connected \/ Supervise
    \/ \E ok \in BOOLEAN : Validate(ok) \/ AwaitTun(ok)
    \/ StopEngine \/ EngineStopped \/ Leave \/ CloseEngine \/ Closed
    \/ \E o \in Outcomes : ArmGuard(o) \/ UndoGuard(o) \/ RestoreOnStop(o)

LoopStep == LoopEvent \/ LoopApply \/ LoopApplied \/ LoopEnd

HandlerStep ==
    \/ \E o \in Outcomes : KillSwitchEnd(o)
    \/ SelectApply \/ SelectEnd

\* The session is over: nothing has to happen any more.
Over == spc = "over" /\ UNCHANGED allVars

SessionNext ==
    \/ EngineStep \/ CtlStep \/ LoopStep \/ HandlerStep
    \/ Stop \/ StopAgain \/ LoopRenew \/ SelectRead
    \/ \E on \in KillCalls : KillSwitchBegin(on)
    \/ Over

SessionSpec == SessionInit /\ [][SessionNext]_allVars

\* The goroutines that have something to do go on, and a waiter for a mutex
\* gets it; select chooses at random among the ready cases, so that an event
\* is not passed over for ever.  Nobody has to call Stop, SetKillSwitch or Select.
SessionFairness ==
    /\ SF_allVars(CtlStep) /\ SF_allVars(HandlerStep)
    /\ SF_allVars(LoopEvent) /\ SF_allVars(LoopEnd) /\ SF_allVars(LoopApply \/ LoopApplied)
    /\ WF_allVars(HolderStep /\ EngineStep)
    /\ WF_allVars(CloseCancel /\ EngineStep)
    /\ \A p \in Procs : /\ SF_allVars(WatchStep(p) /\ EngineStep)
                        /\ WF_allVars((Reap(p) \/ ContextStop(p)) /\ EngineStep)

SessionFairSpec == SessionSpec /\ SessionFairness

-----------------------------------------------------------------------------
(***************************************************************************)
(* Properties.                                                             *)
(***************************************************************************)

\* From the return of Start until Stop the firewall is what the status says,
\* through restarts, failures and kill-switch changes (SetKillSwitch, guard).
BlockHolds == spc = "up" /\ kill = "idle" => (killSwitch <=> Blocked)

\* With the kill switch on, an engine process runs only behind the block, as
\* long as the session owns the guard: from guard.Apply, which precedes the
\* first eng.Apply, until Stop has restored it, and again after a failed restore.
EngineBehindGuard == guardApplied /\ killSwitch /\ kill = "idle" /\ Live # {} => Blocked

Clean == Live = {} /\ ~routed /\ ~Blocked /\ ~guardApplied

\* A first Stop that returned nil has removed everything the session owned,
\* whatever the loop, SetKillSwitch and delayed restarts were doing meanwhile.
\* Two exceptions: a Select (see StopShutsDown), and a repeated Stop (again),
\* which trusts an engine that says it is stopped (see RepeatedStopCleans).
StopCleans == spc = "over" /\ ~again /\ selects = 0 => Clean

\* "Stop shuts down the engine, restores the guard, and transitions to
\* disconnected" (runner.go), also while a Select is on its way.
StopShutsDown == spc = "over" /\ ~again => Clean

\* A fatal engine failure published to the loop ends the connected state, also
\* when the loop is itself waiting in an Apply (supervise, EventFatal).
FailureReported ==
    (\E i \in DOMAIN bus : bus[i] = "fatal") ~> sstate \in {"failed", "disconnected"}

\* "Subscribe before returning so failures between Apply and the first poll
\* cannot be lost" (runner.go): no session stays connected to a failed engine.
NoFailureLost ==
    (spc = "up" /\ sstate = "connected" /\ state = "failed")
        ~> (sstate # "connected" \/ state # "failed")

\* A reconnecting session becomes connected, failed or stopped.
ReconnectEnds == []<>(sstate # "reconnecting")

\* Stop returns: no mutex order between s.mu, guardMu and the lifecycle mutex
\* keeps it waiting for ever.
StopReturns ==
    []<>(spc \notin {"stop", "stopping", "restore", "leave", "close", "closing"})

=============================================================================
