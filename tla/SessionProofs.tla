--------------------------- MODULE SessionProofs ----------------------------
(***************************************************************************)
(* For any plan, networks, restart budget and bounds: a session has one    *)
(* engine at most; while nft is not cut off, its firewall is what its      *)
(* status says, no engine runs outside the kill switch, and a Stop that    *)
(* returns nil leaves nothing behind.                                      *)
(*                                                                         *)
(* The engine keeps the invariant of SupervisorProofs, because whatever    *)
(* the session does to it is a step of Supervisor.  On top of it: who is   *)
(* inside the engine at each step of the control goroutine (Calls), what   *)
(* the guard holds at each of them (Guarding: the record of the guard and  *)
(* the table agree, and they differ from the status only when no engine    *)
(* was ever started), and that a stopped engine can only meet one more     *)
(* Apply, that of the loop, whose context is cancelled (Ended).            *)
(***************************************************************************)
EXTENDS Session, SupervisorProofs

-----------------------------------------------------------------------------
(***************************************************************************)
(* What Guard.Apply and Guard.Restore do to the record of the guard and to *)
(* the kernel's table, for any networks and any outcomes of nft but one:   *)
(* an nft that is cut off after the kernel has committed leaves a block    *)
(* the guard does not know of.                                             *)
(***************************************************************************)

\* The guard's record and the table agree.
GuardAgrees ==
    /\ armed \in BOOLEAN /\ table \in Seq(Networks)
    /\ armed <=> Blocked

\* Nothing armed, no table.
LEMMA EmptyAgrees ==
    ASSUME table' = << >>, armed' = FALSE
    PROVE  GuardAgrees' /\ ~armed'
<1>1. << >> \in Seq(Networks)
  OBVIOUS
<1> QED BY <1>1, Zenon DEF GuardAgrees, Blocked

\* A new guard finds no table.
LEMMA InitAgrees == GuardInit => GuardAgrees
<1>1. << >> \in Seq(Networks)
  OBVIOUS
<1> QED BY <1>1, Zenon DEF GuardInit, GuardAgrees, Blocked

\* Guard.Apply records what the kernel did, and nothing if nft was refused.
LEMMA ApplyAgrees ==
    ASSUME "cut" \notin Outcomes, GuardAgrees, NEW on \in BOOLEAN, NEW n \in Networks,
           NEW o \in Outcomes, Apply(on, n, o)
    PROVE  /\ GuardAgrees'
           /\ o = "ok" => armed' = on
           /\ o # "ok" => armed' = armed
<1>0. o = "ok" \/ o = "refused"
  BY OutcomesAssumption, Zenon DEF NftOutcomes
<1>1. armed' = IF o = "ok" THEN on ELSE armed
  BY Zenon DEF Apply
<1>2. GuardAgrees'
  <2>1. CASE on = armed
    <3>1. UNCHANGED <<armed, table>>
      BY <2>1, Zenon DEF Apply
    <3> QED BY <3>1, Zenon DEF GuardAgrees, Blocked
  <2>2. CASE on # armed /\ o = "refused"
    <3>1. UNCHANGED <<armed, table>>
      BY <2>2, Zenon DEF Apply, NftAdd, NftDelete
    <3> QED BY <3>1, Zenon DEF GuardAgrees, Blocked
  <2>3. CASE on # armed /\ o = "ok" /\ on = TRUE
    <3>1. table' = Append(table, n) /\ armed' = TRUE
      BY <2>3, Zenon DEF Apply, NftAdd
    <3>2. table' \in Seq(Networks) /\ table' # << >>
      BY <3>1 DEF GuardAgrees
    <3> QED BY <3>1, <3>2, Zenon DEF GuardAgrees, Blocked
  <2>4. CASE on # armed /\ o = "ok" /\ on = FALSE
    <3>1. table' = << >> /\ armed' = FALSE
      BY <2>4, Zenon DEF Apply, NftDelete
    <3> QED BY <3>1, EmptyAgrees, Zenon
  <2> QED BY <1>0, <2>1, <2>2, <2>3, <2>4, Zenon
<1> QED BY <1>1, <1>2, Zenon

\* So does Guard.Restore.
LEMMA RestoreAgrees ==
    ASSUME "cut" \notin Outcomes, GuardAgrees, NEW o \in Outcomes, Restore(o)
    PROVE  /\ GuardAgrees'
           /\ o = "ok" => ~armed'
           /\ o # "ok" => armed' = armed
<1>0. o = "ok" \/ o = "refused"
  BY OutcomesAssumption, Zenon DEF NftOutcomes
<1>1. CASE ~armed
  <2>1. armed' = FALSE /\ UNCHANGED table
    BY <1>1, Zenon DEF Restore, GuardAgrees
  <2> QED BY <1>1, <2>1, Zenon DEF GuardAgrees, Blocked
<1>2. CASE armed /\ o = "ok"
  <2>1. table' = << >> /\ armed' = FALSE
    BY <1>2, Zenon DEF Restore, NftDelete
  <2> QED BY <1>2, <2>1, EmptyAgrees, Zenon
<1>3. CASE armed /\ o = "refused"
  <2>1. UNCHANGED <<armed, table>>
    BY <1>3, Zenon DEF Restore, NftDelete
  <2> QED BY <1>3, <2>1, Zenon DEF GuardAgrees, Blocked
<1> QED BY <1>0, <1>1, <1>2, <1>3, Zenon

-----------------------------------------------------------------------------

Serving == {"apply", "tun", "tunstop", "undo", "connect", "subscribe", "up"}
Halts == {"stop", "stopping", "restore", "leave", "close", "closing", "over", "left"}

\* The engine as the control goroutine, the loop and Select leave it.
Calls ==
    /\ holder = "ctl" => spc \in {"tun", "tunstop", "stopping", "closing"}
    /\ holder = "ctl" /\ spc = "stopping" => pc = "stop"
    /\ holder = "ctl" /\ spc = "closing" => pc = "close"
    /\ holder = "select" => sel = "busy"
    /\ selects \in Nat /\ (sel # "idle" => selects # 0)
    /\ kill # "idle" => ~again /\ spc \in {"up", "stop", "stopping", "restore"}
    /\ spc = "over" /\ ~again => ~stopErr
    /\ again => spc \in {"stop", "stopping", "restore", "left", "over"}
    /\ spc = "stopping" => call["ctl"] # "idle"
    /\ spc \in Halts => scanceled

\* No engine was ever started, and nobody is about to start one.
Unstarted ==
    /\ \A p \in Procs : life[p] = "unborn"
    /\ pc \in {"idle", "stop", "close"}
    /\ loop = "none" /\ sel = "idle"

Switched == killSwitch <=> armed

\* What the firewall is at each step of Start and Stop.
Guarding ==
    /\ GuardAgrees /\ killSwitch \in BOOLEAN
    /\ armed => guardApplied
    /\ spc \in {"new", "validate", "guard"} => ~armed /\ Unstarted
    /\ spc = "guard" => guardApplied
    /\ spc \in Serving => Switched
    /\ guardApplied => Switched \/ (Unstarted /\ spc \notin Serving)
    /\ spc \in {"leave", "close", "closing", "over"} /\ ~again /\ ~stopErr => ~guardApplied

\* The engine is gone, and all that may still come is an Apply of the loop,
\* which its context ends before it starts anything.
Quiet ==
    /\ proc = NoProc /\ ~routed /\ Live = {}
    /\ holder \notin {"select", "restart"}
    /\ holder = "loop" => pc = "prepare"
    /\ holder = "ctl" => pc = "close" /\ job = NoProc

\* The first Stop of a session without a Select, once its engine has stopped.
Stopped ==
    /\ ~again /\ ~stopErr /\ selects = 0
    /\ \/ spc \in {"restore", "leave", "close", "closing", "over"}
       \/ spc = "stopping" /\ call["ctl"] = "ok"

Ended == Stopped => Quiet

-----------------------------------------------------------------------------
(***************************************************************************)
(* The engine of a session is a supervisor: all of its steps are steps of  *)
(* Supervisor, or those of the session as the subscriber of its events.    *)
(***************************************************************************)

BusStep == Subscribe \/ Unsubscribe \/ Deliver

EngineInv == IInv /\ Born /\ Working

\* What a step of the session does to the engine.
LEMMA EngineIsSupervisor ==
    ASSUME [SessionNext]_allVars
    PROVE  [Next]_vars \/ BusStep
<1>1. CASE EngineStep
  BY <1>1, Zenon DEF EngineStep, Next
<1>2. CASE Start
  BY <1>2, Zenon DEF Start
<1>3. ASSUME NEW ok \in BOOLEAN, Validate(ok) PROVE [Next]_vars \/ BusStep
  BY <1>3, Zenon DEF Validate
<1>4. ASSUME NEW o \in Outcomes, ArmGuard(o) PROVE [Next]_vars \/ BusStep
  BY <1>4, Zenon DEF ArmGuard
<1>5. CASE StartEngine
  BY <1>5, SessionAssumption, Zenon DEF StartEngine, Next
<1>6. ASSUME NEW ok \in BOOLEAN, AwaitTun(ok) PROVE [Next]_vars \/ BusStep
  BY <1>6, SessionAssumption, Zenon DEF AwaitTun, Next
<1>7. CASE TunStopped
  BY <1>7, Zenon DEF TunStopped
<1>8. ASSUME NEW o \in Outcomes, UndoGuard(o) PROVE [Next]_vars \/ BusStep
  BY <1>8, Zenon DEF UndoGuard
<1>9. CASE StartFails
  BY <1>9, Zenon DEF StartFails
<1>10. CASE Connected
  BY <1>10, Zenon DEF Connected
<1>11. CASE Supervise
  BY <1>11, Zenon DEF Supervise, BusStep
<1>12. CASE Stop
  BY <1>12, Zenon DEF Stop
<1>13. CASE StopAgain
  BY <1>13, Zenon DEF StopAgain
<1>14. CASE StopEngine
  BY <1>14, SessionAssumption, Zenon DEF StopEngine, Next
<1>15. CASE EngineStopped
  BY <1>15, Zenon DEF EngineStopped
<1>16. ASSUME NEW o \in Outcomes, RestoreOnStop(o) PROVE [Next]_vars \/ BusStep
  BY <1>16, Zenon DEF RestoreOnStop
<1>17. CASE Leave
  BY <1>17, Zenon DEF Leave, BusStep
<1>18. CASE CloseEngine
  BY <1>18, SessionAssumption, Zenon DEF CloseEngine, Next
<1>19. CASE Closed
  BY <1>19, Zenon DEF Closed
<1>20. CASE LoopEvent
  BY <1>20, Zenon DEF LoopEvent, BusStep
<1>21. CASE LoopRenew
  BY <1>21, Zenon DEF LoopRenew
<1>22. CASE LoopApply
  BY <1>22, SessionAssumption, Zenon DEF LoopApply, Next
<1>23. CASE LoopApplied
  BY <1>23, Zenon DEF LoopApplied
<1>24. CASE LoopEnd
  BY <1>24, Zenon DEF LoopEnd
<1>25. ASSUME NEW on \in KillCalls, KillSwitchBegin(on) PROVE [Next]_vars \/ BusStep
  BY <1>25, Zenon DEF KillSwitchBegin
<1>26. ASSUME NEW o \in Outcomes, KillSwitchEnd(o) PROVE [Next]_vars \/ BusStep
  BY <1>26, Zenon DEF KillSwitchEnd
<1>27. CASE SelectRead
  BY <1>27, Zenon DEF SelectRead
<1>28. CASE SelectApply
  BY <1>28, SessionAssumption, Zenon DEF SelectApply, Next
<1>29. CASE SelectEnd
  BY <1>29, Zenon DEF SelectEnd
<1>30. CASE UNCHANGED allVars
  BY <1>30, Zenon DEF allVars
<1> QED
  BY <1>1, <1>2, <1>3, <1>4, <1>5, <1>6, <1>7, <1>8, <1>9, <1>10, <1>11, <1>12, <1>13,
     <1>14, <1>15, <1>16, <1>17, <1>18, <1>19, <1>20, <1>21, <1>22, <1>23, <1>24, <1>25,
     <1>26, <1>27, <1>28, <1>29, <1>30, Zenon DEF SessionNext, CtlStep, LoopStep,
     HandlerStep, Over

LEMMA BusType ==
    ASSUME TypeOK, BusStep
    PROVE  bus' \in Seq(Events) /\ Len(bus') <= QueueLen /\ subscribed' \in BOOLEAN
<1>0. << >> \in Seq(Events) /\ Len(<< >>) <= QueueLen
  BY BoundsAssumption
<1>1. CASE Subscribe
  BY <1>0, <1>1, Zenon DEF Subscribe
<1>2. CASE Unsubscribe
  BY <1>0, <1>2, Zenon DEF Unsubscribe
<1>3. CASE Deliver
  <2>1. bus' \in Seq(Events) /\ Len(bus') <= QueueLen
    BY <1>3, BoundsAssumption DEF Deliver, TypeOK
  <2> QED BY <1>3, <2>1, Zenon DEF Deliver, TypeOK, FlagsOK
<1> QED BY <1>1, <1>2, <1>3, Zenon DEF BusStep

LEMMA EngineInvStep ==
    ASSUME EngineInv, [SessionNext]_allVars
    PROVE  EngineInv'
<1>0. TypeOK /\ Lock /\ Tracked /\ Halted /\ Waiting /\ IInv
  BY Zenon DEF EngineInv, IInv
<1>1. CASE [Next]_vars
  <2>1. TypeOK' BY <1>0, <1>1, TypeStep, Zenon
  <2>2. Lock' /\ Tracked' /\ Halted' /\ Waiting' BY <1>0, <1>1, OwnershipStep, Zenon
  <2>3. Born' BY <1>0, <1>1, BornStep, Zenon DEF EngineInv
  <2>4. Working' BY <1>0, <1>1, WorkingStep, Zenon DEF EngineInv
  <2> QED BY <2>1, <2>2, <2>3, <2>4, Zenon DEF EngineInv, IInv
<1>2. CASE BusStep
  <2>1. UNCHANGED <<supVars, opVars, envVars>>
    BY <1>2, Zenon DEF BusStep, Subscribe, Unsubscribe, Deliver
  <2>2. TypeOK'
    <3>1. FlagsOK'
      BY <1>0, <1>2, <2>1, BusType, Zenon DEF TypeOK, FlagsOK, supVars, opVars, envVars
    <3>2. bus' \in Seq(Events) /\ Len(bus') <= QueueLen
      BY <1>0, <1>2, BusType, Zenon
    <3> QED BY <1>0, <2>1, <3>1, <3>2, Zenon DEF TypeOK, supVars, opVars, envVars
  <2>3. Lock' /\ Tracked' /\ Halted' /\ Waiting'
    BY <1>0, <2>1, Zenon DEF Lock, Tracked, Halted, Waiting, Live, Exited, supVars,
       opVars, envVars
  <2>4. Born' /\ Working'
    BY <2>1, Zenon DEF EngineInv, Born, Working, supVars, opVars, envVars
  <2> QED BY <2>2, <2>3, <2>4, Zenon DEF EngineInv, IInv
<1> QED BY <1>1, <1>2, EngineIsSupervisor, Zenon

-----------------------------------------------------------------------------
(***************************************************************************)
(* What the engine does between two calls.                                 *)
(***************************************************************************)

\* No step of its own gives the lifecycle mutex to a caller.
LEMMA HolderKeeps ==
    ASSUME TypeOK, Lock, NEW c \in Callers, Internal
    PROVE  /\ holder' = c => holder = c
           /\ holder' = c /\ pc \in {"stop", "close"} => pc' = pc
           /\ call[c] # "idle" => call'[c] # "idle"
<1> DEFINE Goal == /\ holder' = c => holder = c
                   /\ holder' = c /\ pc \in {"stop", "close"} => pc' = pc
                   /\ call[c] # "idle" => call'[c] # "idle"
<1>1. ASSUME NEW answer \in ReloadOutcomes, Reload(answer) PROVE Goal
  BY <1>1, ShapeHolds, CallersAssumption, ReloadAssumption, Zenon DEF Reload, Return,
     Shape, ReloadAnswers
<1>2. ASSUME NEW ok \in BOOLEAN, Replace(ok) PROVE Goal
  BY <1>2, ShapeHolds, CallersAssumption, Zenon DEF Replace, StopProcess, Return, supVars,
     Shape
<1>3. ASSUME NEW ok \in BOOLEAN, Prepare(ok) PROVE Goal
  BY <1>3, ShapeHolds, CallersAssumption, Zenon DEF Prepare, StartFailed, Return, envVars,
     Shape
<1>4. ASSUME NEW ok \in BOOLEAN, Spawn(ok) PROVE Goal
  BY <1>4, ShapeHolds, CallersAssumption, Zenon DEF Spawn, StartFailed, Return, Shape
<1>5. ASSUME NEW ok \in BOOLEAN, Ready(ok) PROVE Goal
  BY <1>5, ShapeHolds, CallersAssumption, Zenon DEF Ready, supVars, envVars, Shape
<1>6. ASSUME NEW ok \in BOOLEAN, Route(ok) PROVE Goal
  BY <1>6, ShapeHolds, CallersAssumption, Zenon DEF Route, Shape
<1>7. ASSUME NEW ok \in BOOLEAN, NEW unrouted \in BOOLEAN, Rollback(ok, unrouted)
      PROVE  Goal
  BY <1>7, ShapeHolds, CallersAssumption, Zenon DEF Rollback, StopProcess, StartFailed,
     Return, Shape
<1>8. CASE Finish
  BY <1>8, ShapeHolds, CallersAssumption, Zenon DEF Finish, Return, Shape
<1>9. ASSUME NEW p \in Procs, NEW unrouted \in BOOLEAN, WatchExit(p, unrouted)
      PROVE  Goal
  BY <1>9, ShapeHolds, CallersAssumption, Zenon DEF WatchExit, supVars, opVars, Shape
<1>10. ASSUME NEW p \in Procs, WatchRestart(p) PROVE Goal
  BY <1>10, ShapeHolds, CallersAssumption, Zenon DEF WatchRestart, supVars, Shape
<1>11. ASSUME NEW ok \in BOOLEAN, NEW unrouted \in BOOLEAN, StopEnd(ok, unrouted)
      PROVE  Goal
  BY <1>11, ShapeHolds, CallersAssumption, Zenon DEF StopEnd, StopProcess, Return, Shape
<1>12. CASE CloseCancel
  BY <1>12, ShapeHolds, CallersAssumption, Zenon DEF CloseCancel, envVars, Shape
<1>13. ASSUME NEW p \in Procs, ProcessStep(p) PROVE Goal
  BY <1>13, ShapeHolds, CallersAssumption, Zenon DEF ProcessStep, Crash, Reap,
     ContextStop, supVars, opVars, Shape
<1> QED
  BY <1>1, <1>2, <1>3, <1>4, <1>5, <1>6, <1>7, <1>8, <1>9, <1>10, <1>11, <1>12, <1>13,
     Zenon DEF Internal, HolderStep, WatchStep

\* An engine that was never started starts only in an Apply.
LEMMA NothingStarts ==
    ASSUME TypeOK, Born, Internal, \A q \in Procs : life[q] = "unborn", pc \in {"idle",
           "stop", "close"}
    PROVE  (\A q \in Procs : life'[q] = "unborn") /\ pc' \in {"idle", "stop", "close"}
<1>1. ASSUME NEW answer \in ReloadOutcomes, Reload(answer)
      PROVE  (\A q \in Procs : life'[q] = "unborn") /\ pc' \in {"idle", "stop", "close"}
  BY <1>1, ShapeHolds, Zenon DEF Reload, Return, Shape, Born
<1>2. ASSUME NEW ok \in BOOLEAN, Replace(ok)
      PROVE  (\A q \in Procs : life'[q] = "unborn") /\ pc' \in {"idle", "stop", "close"}
  BY <1>2, ShapeHolds, Zenon DEF Replace, StopProcess, Return, supVars, Shape, Born
<1>3. ASSUME NEW ok \in BOOLEAN, Prepare(ok)
      PROVE  (\A q \in Procs : life'[q] = "unborn") /\ pc' \in {"idle", "stop", "close"}
  BY <1>3, ShapeHolds, Zenon DEF Prepare, StartFailed, Return, envVars, Shape, Born
<1>4. ASSUME NEW ok \in BOOLEAN, Spawn(ok)
      PROVE  (\A q \in Procs : life'[q] = "unborn") /\ pc' \in {"idle", "stop", "close"}
  BY <1>4, ShapeHolds, Zenon DEF Spawn, StartFailed, Return, Shape, Born
<1>5. ASSUME NEW ok \in BOOLEAN, Ready(ok)
      PROVE  (\A q \in Procs : life'[q] = "unborn") /\ pc' \in {"idle", "stop", "close"}
  BY <1>5, ShapeHolds, Zenon DEF Ready, supVars, envVars, Shape, Born
<1>6. ASSUME NEW ok \in BOOLEAN, Route(ok)
      PROVE  (\A q \in Procs : life'[q] = "unborn") /\ pc' \in {"idle", "stop", "close"}
  BY <1>6, ShapeHolds, Zenon DEF Route, Shape, Born
<1>7. ASSUME NEW ok \in BOOLEAN, NEW unrouted \in BOOLEAN, Rollback(ok, unrouted)
      PROVE  (\A q \in Procs : life'[q] = "unborn") /\ pc' \in {"idle", "stop", "close"}
  BY <1>7, ShapeHolds, Zenon DEF Rollback, StopProcess, StartFailed, Return, Shape, Born
<1>8. CASE Finish
  BY <1>8, ShapeHolds, Zenon DEF Finish, Return, Shape, Born
<1>9. ASSUME NEW p \in Procs, NEW unrouted \in BOOLEAN, WatchExit(p, unrouted)
      PROVE  (\A q \in Procs : life'[q] = "unborn") /\ pc' \in {"idle", "stop", "close"}
  BY <1>9, ShapeHolds, Zenon DEF WatchExit, supVars, opVars, Shape, Born
<1>10. ASSUME NEW p \in Procs, WatchRestart(p)
      PROVE  (\A q \in Procs : life'[q] = "unborn") /\ pc' \in {"idle", "stop", "close"}
  BY <1>10, ShapeHolds, Zenon DEF WatchRestart, supVars, Shape, Born
<1>11. ASSUME NEW ok \in BOOLEAN, NEW unrouted \in BOOLEAN, StopEnd(ok, unrouted)
      PROVE  (\A q \in Procs : life'[q] = "unborn") /\ pc' \in {"idle", "stop", "close"}
  BY <1>11, ShapeHolds, Zenon DEF StopEnd, StopProcess, Return, Shape, Born
<1>12. CASE CloseCancel
  BY <1>12, ShapeHolds, Zenon DEF CloseCancel, envVars, Shape, Born
<1>13. ASSUME NEW p \in Procs, ProcessStep(p)
      PROVE  (\A q \in Procs : life'[q] = "unborn") /\ pc' \in {"idle", "stop", "close"}
  BY <1>13, ShapeHolds, Zenon DEF ProcessStep, Crash, Reap, ContextStop, supVars, opVars,
     Shape, Born
<1> QED
  BY <1>1, <1>2, <1>3, <1>4, <1>5, <1>6, <1>7, <1>8, <1>9, <1>10, <1>11, <1>12, <1>13,
     Zenon DEF Internal, HolderStep, WatchStep

LEMMA CallsStep ==
    ASSUME TypeOK, Lock, Working, Calls, [SessionNext]_allVars
    PROVE  Calls'
<1>1. CASE EngineStep
  <2>1. Internal /\ UNCHANGED <<spc, sel, selects, kill, scanceled, again, stopErr>>
    BY <1>1, Zenon DEF EngineStep, sessVars, stopVars, rpcVars, ctlVars
  <2>2. "ctl" \in Callers /\ "select" \in Callers
    BY SessionAssumption, Zenon
  <2>3. /\ holder' = "ctl" => holder = "ctl" /\ (pc \in {"stop", "close"} => pc' = pc)
        /\ holder' = "select" => holder = "select"
        /\ call["ctl"] # "idle" => call'["ctl"] # "idle"
    BY <2>1, <2>2, HolderKeeps, Zenon
  <2> QED BY <2>1, <2>3, Zenon DEF Calls
<1>2. CASE Start
  BY <1>2, ShapeHolds, SessionAssumption, Zenon DEF Start, guardVars, restVars, stopVars,
     loopVars, rpcVars, Shape, Working, Calls, Halts, vars, opVars
<1>3. ASSUME NEW ok \in BOOLEAN, Validate(ok) PROVE Calls'
  BY <1>3, ShapeHolds, SessionAssumption, Zenon DEF Validate, guardVars, restVars, stopVars,
     loopVars, rpcVars, Shape, Working, Calls, Halts, vars, opVars
<1>4. ASSUME NEW o \in Outcomes, ArmGuard(o) PROVE Calls'
  BY <1>4, ShapeHolds, SessionAssumption, Zenon DEF ArmGuard, restVars, stopVars, loopVars,
     rpcVars, Shape, Working, Calls, Halts, vars, opVars
<1>5. CASE StartEngine
  BY <1>5, ShapeHolds, SessionAssumption, Zenon DEF StartEngine, guardVars, restVars, stopVars,
     loopVars, rpcVars, Shape, Working, Calls, Halts, ApplyBegin, ApplyRefused
<1>6. ASSUME NEW ok \in BOOLEAN, AwaitTun(ok) PROVE Calls'
  BY <1>6, ShapeHolds, SessionAssumption, Zenon DEF AwaitTun, CtlDone, guardVars, restVars,
     stopVars, loopVars, rpcVars, Shape, Working, Calls, Halts, StopBegin, vars, opVars
<1>7. CASE TunStopped
  BY <1>7, ShapeHolds, SessionAssumption, Zenon DEF TunStopped, CtlDone, guardVars, restVars,
     stopVars, loopVars, rpcVars, Shape, Working, Calls, Halts, vars, opVars
<1>8. ASSUME NEW o \in Outcomes, UndoGuard(o) PROVE Calls'
  BY <1>8, ShapeHolds, SessionAssumption, Zenon DEF UndoGuard, restVars, stopVars, loopVars,
     rpcVars, Shape, Working, Calls, Halts, RestoreGuard, vars, opVars
<1>9. CASE StartFails
  BY <1>9, ShapeHolds, SessionAssumption, Zenon DEF StartFails, guardVars, restVars, stopVars,
     loopVars, rpcVars, Shape, Working, Calls, Halts, vars, opVars
<1>10. CASE Connected
  BY <1>10, ShapeHolds, SessionAssumption, Zenon DEF Connected, guardVars, restVars, stopVars,
     loopVars, rpcVars, Shape, Working, Calls, Halts, vars, opVars
<1>11. CASE Supervise
  BY <1>11, ShapeHolds, SessionAssumption, Zenon DEF Supervise, guardVars, stopVars, rpcVars,
     Shape, Working, Calls, Halts, Subscribe, opVars
<1>12. CASE Stop
  BY <1>12, ShapeHolds, SessionAssumption, Zenon DEF Stop, guardVars, loopVars, rpcVars, Shape,
     Working, Calls, Halts, vars, opVars
<1>13. CASE StopAgain
  BY <1>13, ShapeHolds, SessionAssumption, Zenon DEF StopAgain, guardVars, loopVars, rpcVars,
     Shape, Working, Calls, Halts, vars, opVars
<1>14. CASE StopEngine
  BY <1>14, ShapeHolds, SessionAssumption, Zenon DEF StopEngine, guardVars, restVars, stopVars,
     loopVars, rpcVars, Shape, Working, Calls, Halts, StopBegin
<1>15. CASE EngineStopped
  BY <1>15, ShapeHolds, SessionAssumption, Zenon DEF EngineStopped, CtlDone, guardVars, loopVars,
     rpcVars, Shape, Working, Calls, Halts, vars, opVars
<1>16. ASSUME NEW o \in Outcomes, RestoreOnStop(o) PROVE Calls'
  BY <1>16, ShapeHolds, SessionAssumption, Zenon DEF RestoreOnStop, loopVars, rpcVars, Shape,
     Working, Calls, Halts, RestoreGuard, vars, opVars
<1>17. CASE Leave
  BY <1>17, ShapeHolds, SessionAssumption, Zenon DEF Leave, guardVars, restVars, stopVars,
     loopVars, rpcVars, Shape, Working, Calls, Halts, Unsubscribe, vars, opVars
<1>18. CASE CloseEngine
  BY <1>18, ShapeHolds, SessionAssumption, Zenon DEF CloseEngine, guardVars, restVars, stopVars,
     loopVars, rpcVars, Shape, Working, Calls, Halts, StopBegin
<1>19. CASE Closed
  BY <1>19, ShapeHolds, SessionAssumption, Zenon DEF Closed, CtlDone, guardVars, restVars,
     stopVars, loopVars, rpcVars, Shape, Working, Calls, Halts, vars, opVars
<1>20. CASE LoopEvent
  BY <1>20, ShapeHolds, SessionAssumption, Zenon DEF LoopEvent, guardVars, stopVars, rpcVars,
     ctlVars, Shape, Working, Calls, Halts, Deliver, opVars
<1>21. CASE LoopRenew
  BY <1>21, ShapeHolds, SessionAssumption, Zenon DEF LoopRenew, guardVars, stopVars, rpcVars,
     ctlVars, Shape, Working, Calls, Halts, vars, opVars
<1>22. CASE LoopApply
  BY <1>22, ShapeHolds, SessionAssumption, Zenon DEF LoopApply, guardVars, stopVars, rpcVars,
     ctlVars, Shape, Working, Calls, Halts, ApplyBegin, ApplyRefused
<1>23. CASE LoopApplied
  BY <1>23, ShapeHolds, SessionAssumption, Zenon DEF LoopApplied, guardVars, stopVars, rpcVars,
     ctlVars, Shape, Working, Calls, Halts, vars, opVars
<1>24. CASE LoopEnd
  BY <1>24, ShapeHolds, SessionAssumption, Zenon DEF LoopEnd, guardVars, stopVars, rpcVars,
     ctlVars, Shape, Working, Calls, Halts, vars, opVars
<1>25. ASSUME NEW on \in KillCalls, KillSwitchBegin(on) PROVE Calls'
  BY <1>25, ShapeHolds, SessionAssumption, Zenon DEF KillSwitchBegin, guardVars, stopVars,
     loopVars, ctlVars, Shape, Working, Calls, Halts, vars, opVars
<1>26. ASSUME NEW o \in Outcomes, KillSwitchEnd(o) PROVE Calls'
  BY <1>26, ShapeHolds, SessionAssumption, Zenon DEF KillSwitchEnd, stopVars, loopVars, Shape,
     Working, Calls, Halts, vars, opVars
<1>27. CASE SelectRead
  BY <1>27, ShapeHolds, SessionAssumption DEF SelectRead, guardVars, stopVars, loopVars,
     ctlVars, Shape, Working, Calls, Halts, vars, opVars
<1>28. CASE SelectApply
  BY <1>28, ShapeHolds, SessionAssumption, Zenon DEF SelectApply, guardVars, stopVars, loopVars,
     ctlVars, Shape, Working, Calls, Halts, ApplyBegin, ApplyRefused
<1>29. CASE SelectEnd
  BY <1>29, ShapeHolds, SessionAssumption, Zenon DEF SelectEnd, guardVars, stopVars, loopVars,
     ctlVars, Shape, Working, Calls, Halts, vars, opVars
<1>30. CASE UNCHANGED allVars
  BY <1>30, ShapeHolds, SessionAssumption, Zenon DEF allVars, sessVars, vars, opVars, stopVars,
     loopVars, rpcVars, ctlVars, Shape, Working, Calls, Halts
<1> QED
  BY <1>1, <1>2, <1>3, <1>4, <1>5, <1>6, <1>7, <1>8, <1>9, <1>10, <1>11, <1>12, <1>13,
     <1>14, <1>15, <1>16, <1>17, <1>18, <1>19, <1>20, <1>21, <1>22, <1>23, <1>24, <1>25,
     <1>26, <1>27, <1>28, <1>29, <1>30, Zenon DEF SessionNext, CtlStep, LoopStep,
     HandlerStep, Over

\* A step that leaves the firewall alone and starts no engine.
LEMMA GuardRests ==
    ASSUME Guarding, UNCHANGED <<armed, table, killSwitch, guardApplied>>,
           spc' \in {"new", "validate", "guard"} => spc \in {"new", "validate", "guard"},
           spc' = "guard" => spc = "guard", spc' \in Serving => spc \in Serving,
           Unstarted /\ spc \notin Serving => Unstarted',
           spc' \in {"leave", "close", "closing", "over"} /\ ~again' /\ ~stopErr' =>
              spc \in {"leave", "close", "closing", "over"} /\ ~again /\ ~stopErr
    PROVE  Guarding'
<1>1. GuardAgrees' /\ (Switched => Switched')
  BY Zenon DEF Guarding, GuardAgrees, Blocked, Switched
<1>2. CASE spc \in {"new", "validate", "guard"}
  BY <1>1, <1>2, Zenon DEF Guarding, Serving
<1>3. CASE spc \notin {"new", "validate", "guard"}
  BY <1>1, <1>3, Zenon DEF Guarding
<1> QED BY <1>2, <1>3, Zenon

\* The kill switch is what the status says wherever an engine may run.
LEMMA GuardingStep ==
    ASSUME "cut" \notin Outcomes, TypeOK, Born, Calls, Guarding, [SessionNext]_allVars
    PROVE  Guarding'
<1>1. CASE EngineStep
  <2>1. Internal /\ UNCHANGED <<armed, table, killSwitch, guardApplied, spc, again, stopErr,
                              loop, sel>>
    BY <1>1, Zenon DEF EngineStep, sessVars, guardVars, stopVars, rpcVars, ctlVars,
       loopVars
  <2>2. Unstarted => Unstarted'
    BY <2>1, NothingStarts, Zenon DEF Unstarted
  <2> QED BY <2>1, <2>2, GuardRests, Zenon
<1>2. CASE Start
  <2>1. UNCHANGED <<armed, table, killSwitch, guardApplied>>
    BY <1>2, Zenon DEF Start, guardVars, restVars, stopVars, loopVars, rpcVars
  <2>2. Unstarted /\ spc \notin Serving => Unstarted'
    BY <1>2, Zenon DEF Start, guardVars, restVars, stopVars, loopVars, rpcVars, vars,
       opVars, envVars, Unstarted, Serving
  <2>3. /\ spc' \in {"new", "validate", "guard"} => spc \in {"new", "validate", "guard"}
        /\ (spc' = "guard" => spc = "guard") /\ (spc' \in Serving => spc \in Serving)
        /\ spc' \in {"leave", "close", "closing", "over"} /\ ~again' /\ ~stopErr' =>
              spc \in {"leave", "close", "closing", "over"} /\ ~again /\ ~stopErr
    BY <1>2, Zenon DEF Start, guardVars, restVars, stopVars, loopVars, rpcVars, Serving
  <2> QED BY <2>1, <2>2, <2>3, GuardRests, Zenon
<1>3. ASSUME NEW ok \in BOOLEAN, Validate(ok) PROVE Guarding'
  <2>1. ~armed /\ Unstarted /\ spc' \in {"guard", "fail"}
    BY <1>3, Zenon DEF Validate, Guarding
  <2>2. /\ UNCHANGED <<armed, table, killSwitch, again, stopErr, vars, loop, sel>>
        /\ spc' = "fail" => guardApplied' = guardApplied
        /\ spc' = "guard" => guardApplied'
    BY <1>3, Zenon DEF Validate, guardVars, restVars, stopVars, loopVars, rpcVars
  <2>3. Unstarted' /\ GuardAgrees'
    BY <2>1, <2>2, Zenon DEF Unstarted, Guarding, GuardAgrees, Blocked, vars, opVars,
       envVars
  <2> QED BY <2>1, <2>2, <2>3, Zenon DEF Guarding, Serving
<1>4. ASSUME NEW o \in Outcomes, ArmGuard(o) PROVE Guarding'
  <2>1. /\ spc = "guard" /\ ~armed /\ Unstarted
        /\ killSwitch \in BOOLEAN /\ TheNets \in Networks
    BY <1>4, SessionAssumption, Zenon DEF ArmGuard, Guarding
  <2>2. GuardAgrees' /\ (o = "ok" => armed' = killSwitch) /\ (o # "ok" => armed' = armed)
    BY <1>4, <2>1, ApplyAgrees, Zenon DEF ArmGuard, Guarding
  <2>3. UNCHANGED <<killSwitch, guardApplied, vars, loop, sel>>
    BY <1>4, Zenon DEF ArmGuard, restVars, loopVars, rpcVars
  <2>4. Unstarted'
    BY <2>1, <2>3, Zenon DEF Unstarted, vars, opVars, envVars
  <2>5. spc' = IF o = "ok" THEN "apply" ELSE "fail"
    BY <1>4, Zenon DEF ArmGuard
  <2>6. armed' => guardApplied'
    BY <2>1, <2>2, <2>3, Zenon DEF Guarding
  <2> QED BY <2>1, <2>2, <2>3, <2>4, <2>5, <2>6 DEF Guarding, Serving, Switched
<1>5. CASE StartEngine
  <2>1. UNCHANGED <<armed, table, killSwitch, guardApplied>>
    BY <1>5, Zenon DEF StartEngine, guardVars, restVars, stopVars, loopVars, rpcVars
  <2>2. Unstarted /\ spc \notin Serving => Unstarted'
    BY <1>5, Zenon DEF StartEngine, guardVars, restVars, stopVars, loopVars, rpcVars,
       Serving, Unstarted
  <2>3. /\ spc' \in {"new", "validate", "guard"} => spc \in {"new", "validate", "guard"}
        /\ (spc' = "guard" => spc = "guard") /\ (spc' \in Serving => spc \in Serving)
        /\ spc' \in {"leave", "close", "closing", "over"} /\ ~again' /\ ~stopErr' =>
              spc \in {"leave", "close", "closing", "over"} /\ ~again /\ ~stopErr
    BY <1>5, Zenon DEF StartEngine, guardVars, restVars, stopVars, loopVars, rpcVars,
       Serving
  <2> QED BY <2>1, <2>2, <2>3, GuardRests, Zenon
<1>6. ASSUME NEW ok \in BOOLEAN, AwaitTun(ok) PROVE Guarding'
  <2>1. UNCHANGED <<armed, table, killSwitch, guardApplied>>
    BY <1>6, Zenon DEF AwaitTun, CtlDone, guardVars, restVars, stopVars, loopVars, rpcVars
  <2>2. Unstarted /\ spc \notin Serving => Unstarted'
    BY <1>6, Zenon DEF AwaitTun, CtlDone, guardVars, restVars, stopVars, loopVars,
       rpcVars, vars, opVars, envVars, Unstarted, Serving
  <2>3. /\ spc' \in {"new", "validate", "guard"} => spc \in {"new", "validate", "guard"}
        /\ (spc' = "guard" => spc = "guard") /\ (spc' \in Serving => spc \in Serving)
        /\ spc' \in {"leave", "close", "closing", "over"} /\ ~again' /\ ~stopErr' =>
              spc \in {"leave", "close", "closing", "over"} /\ ~again /\ ~stopErr
    BY <1>6, Zenon DEF AwaitTun, CtlDone, guardVars, restVars, stopVars, loopVars,
       rpcVars, Serving
  <2> QED BY <2>1, <2>2, <2>3, GuardRests, Zenon
<1>7. CASE TunStopped
  <2>1. UNCHANGED <<armed, table, killSwitch, guardApplied>>
    BY <1>7, Zenon DEF TunStopped, CtlDone, guardVars, restVars, stopVars, loopVars,
       rpcVars
  <2>2. Unstarted /\ spc \notin Serving => Unstarted'
    BY <1>7, Zenon DEF TunStopped, CtlDone, guardVars, restVars, stopVars, loopVars,
       rpcVars, vars, opVars, envVars, Unstarted, Serving
  <2>3. /\ spc' \in {"new", "validate", "guard"} => spc \in {"new", "validate", "guard"}
        /\ (spc' = "guard" => spc = "guard") /\ (spc' \in Serving => spc \in Serving)
        /\ spc' \in {"leave", "close", "closing", "over"} /\ ~again' /\ ~stopErr' =>
              spc \in {"leave", "close", "closing", "over"} /\ ~again /\ ~stopErr
    BY <1>7, Zenon DEF TunStopped, CtlDone, guardVars, restVars, stopVars, loopVars,
       rpcVars, Serving
  <2> QED BY <2>1, <2>2, <2>3, GuardRests, Zenon
<1>8. ASSUME NEW o \in Outcomes, UndoGuard(o) PROVE Guarding'
  <2>1. CASE ~guardApplied
    <3>1. /\ UNCHANGED <<armed, table, guardApplied, killSwitch, vars, loop, sel>>
          /\ spc = "undo"
      BY <1>8, <2>1, Zenon DEF UndoGuard, RestoreGuard, guardVars, restVars, loopVars,
         rpcVars
    <3>2. GuardAgrees'
      BY <3>1, Zenon DEF Guarding, GuardAgrees, Blocked
    <3>3. spc' \notin Serving /\ spc' \notin {"new", "validate", "guard"}
      BY <1>8, Zenon DEF UndoGuard, Serving
    <3> QED BY <2>1, <3>1, <3>2, <3>3, Zenon DEF Guarding
  <2>2. CASE guardApplied
    <3>1. Restore(o) /\ (guardApplied' <=> o # "ok")
      BY <1>8, <2>2, Zenon DEF UndoGuard, RestoreGuard
    <3>2. GuardAgrees' /\ (o = "ok" => ~armed') /\ (o # "ok" => armed' = armed)
      BY <3>1, RestoreAgrees, Zenon DEF Guarding
    <3>3. UNCHANGED <<killSwitch, vars, loop, sel>>
      BY <1>8, Zenon DEF UndoGuard, restVars, loopVars, rpcVars
    <3>4. Unstarted => Unstarted'
      BY <3>3, Zenon DEF Unstarted, vars, opVars, envVars
    <3>5. /\ spc' \notin Serving /\ spc' \notin {"new", "validate", "guard"}
          /\ spc' \in {"leave", "close", "closing", "over"} /\ ~again' /\ ~stopErr' =>
                o = "ok"
      BY <1>8, Zenon DEF UndoGuard, Serving, restVars, stopVars
    <3>6. ASSUME o # "ok" PROVE Switched' \/ Unstarted
      <4>1. UNCHANGED <<armed, killSwitch>>
        BY <3>2, <3>3, <3>6, Zenon
      <4> QED BY <2>2, <4>1, Zenon DEF Guarding, Switched
    <3> QED BY <3>1, <3>2, <3>3, <3>4, <3>5, <3>6, Zenon DEF Guarding
  <2> QED BY <2>1, <2>2, Zenon
<1>9. CASE StartFails
  <2>1. UNCHANGED <<armed, table, killSwitch, guardApplied>>
    BY <1>9, Zenon DEF StartFails, guardVars, restVars, stopVars, loopVars, rpcVars
  <2>2. Unstarted /\ spc \notin Serving => Unstarted'
    BY <1>9, Zenon DEF StartFails, guardVars, restVars, stopVars, loopVars, rpcVars, vars,
       opVars, envVars, Unstarted, Serving
  <2>3. /\ spc' \in {"new", "validate", "guard"} => spc \in {"new", "validate", "guard"}
        /\ (spc' = "guard" => spc = "guard") /\ (spc' \in Serving => spc \in Serving)
        /\ spc' \in {"leave", "close", "closing", "over"} /\ ~again' /\ ~stopErr' =>
              spc \in {"leave", "close", "closing", "over"} /\ ~again /\ ~stopErr
    BY <1>9, Zenon DEF StartFails, guardVars, restVars, stopVars, loopVars, rpcVars,
       Serving
  <2> QED BY <2>1, <2>2, <2>3, GuardRests, Zenon
<1>10. CASE Connected
  <2>1. UNCHANGED <<armed, table, killSwitch, guardApplied>>
    BY <1>10, Zenon DEF Connected, guardVars, restVars, stopVars, loopVars, rpcVars
  <2>2. Unstarted /\ spc \notin Serving => Unstarted'
    BY <1>10, Zenon DEF Connected, guardVars, restVars, stopVars, loopVars, rpcVars, vars,
       opVars, envVars, Unstarted, Serving
  <2>3. /\ spc' \in {"new", "validate", "guard"} => spc \in {"new", "validate", "guard"}
        /\ (spc' = "guard" => spc = "guard") /\ (spc' \in Serving => spc \in Serving)
        /\ spc' \in {"leave", "close", "closing", "over"} /\ ~again' /\ ~stopErr' =>
              spc \in {"leave", "close", "closing", "over"} /\ ~again /\ ~stopErr
    BY <1>10, Zenon DEF Connected, guardVars, restVars, stopVars, loopVars, rpcVars,
       Serving
  <2> QED BY <2>1, <2>2, <2>3, GuardRests, Zenon
<1>11. CASE Supervise
  <2>1. UNCHANGED <<armed, table, killSwitch, guardApplied>>
    BY <1>11, Zenon DEF Supervise, guardVars, stopVars, rpcVars
  <2>2. Unstarted /\ spc \notin Serving => Unstarted'
    BY <1>11, Zenon DEF Supervise, guardVars, stopVars, rpcVars, opVars, envVars,
       Subscribe, Unstarted, Serving
  <2>3. /\ spc' \in {"new", "validate", "guard"} => spc \in {"new", "validate", "guard"}
        /\ (spc' = "guard" => spc = "guard") /\ (spc' \in Serving => spc \in Serving)
        /\ spc' \in {"leave", "close", "closing", "over"} /\ ~again' /\ ~stopErr' =>
              spc \in {"leave", "close", "closing", "over"} /\ ~again /\ ~stopErr
    BY <1>11, Zenon DEF Supervise, guardVars, stopVars, rpcVars, Serving
  <2> QED BY <2>1, <2>2, <2>3, GuardRests, Zenon
<1>12. CASE Stop
  <2>1. UNCHANGED <<armed, table, killSwitch, guardApplied>>
    BY <1>12, Zenon DEF Stop, guardVars, loopVars, rpcVars
  <2>2. Unstarted /\ spc \notin Serving => Unstarted'
    BY <1>12, Zenon DEF Stop, guardVars, loopVars, rpcVars, vars, opVars, envVars,
       Unstarted, Serving
  <2>3. /\ spc' \in {"new", "validate", "guard"} => spc \in {"new", "validate", "guard"}
        /\ (spc' = "guard" => spc = "guard") /\ (spc' \in Serving => spc \in Serving)
        /\ spc' \in {"leave", "close", "closing", "over"} /\ ~again' /\ ~stopErr' =>
              spc \in {"leave", "close", "closing", "over"} /\ ~again /\ ~stopErr
    BY <1>12, Zenon DEF Stop, guardVars, loopVars, rpcVars, Serving
  <2> QED BY <2>1, <2>2, <2>3, GuardRests, Zenon
<1>13. CASE StopAgain
  <2>1. UNCHANGED <<armed, table, killSwitch, guardApplied>>
    BY <1>13, Zenon DEF StopAgain, guardVars, loopVars, rpcVars
  <2>2. Unstarted /\ spc \notin Serving => Unstarted'
    BY <1>13, Zenon DEF StopAgain, guardVars, loopVars, rpcVars, vars, opVars, envVars,
       Unstarted, Serving
  <2>3. /\ spc' \in {"new", "validate", "guard"} => spc \in {"new", "validate", "guard"}
        /\ (spc' = "guard" => spc = "guard") /\ (spc' \in Serving => spc \in Serving)
        /\ spc' \in {"leave", "close", "closing", "over"} /\ ~again' /\ ~stopErr' =>
              spc \in {"leave", "close", "closing", "over"} /\ ~again /\ ~stopErr
    BY <1>13, Zenon DEF StopAgain, guardVars, loopVars, rpcVars, Serving
  <2> QED BY <2>1, <2>2, <2>3, GuardRests, Zenon
<1>14. CASE StopEngine
  <2>1. UNCHANGED <<armed, table, killSwitch, guardApplied>>
    BY <1>14, Zenon DEF StopEngine, guardVars, restVars, stopVars, loopVars, rpcVars
  <2>2. Unstarted /\ spc \notin Serving => Unstarted'
    BY <1>14, Zenon DEF StopEngine, guardVars, restVars, stopVars, loopVars, rpcVars,
       StopBegin, envVars, Unstarted, Serving
  <2>3. /\ spc' \in {"new", "validate", "guard"} => spc \in {"new", "validate", "guard"}
        /\ (spc' = "guard" => spc = "guard") /\ (spc' \in Serving => spc \in Serving)
        /\ spc' \in {"leave", "close", "closing", "over"} /\ ~again' /\ ~stopErr' =>
              spc \in {"leave", "close", "closing", "over"} /\ ~again /\ ~stopErr
    BY <1>14, Zenon DEF StopEngine, guardVars, restVars, stopVars, loopVars, rpcVars,
       Serving
  <2> QED BY <2>1, <2>2, <2>3, GuardRests, Zenon
<1>15. CASE EngineStopped
  <2>1. UNCHANGED <<armed, table, killSwitch, guardApplied>>
    BY <1>15, Zenon DEF EngineStopped, CtlDone, guardVars, loopVars, rpcVars
  <2>2. Unstarted /\ spc \notin Serving => Unstarted'
    BY <1>15, Zenon DEF EngineStopped, CtlDone, guardVars, loopVars, rpcVars, vars,
       opVars, envVars, Unstarted, Serving
  <2>3. /\ spc' \in {"new", "validate", "guard"} => spc \in {"new", "validate", "guard"}
        /\ (spc' = "guard" => spc = "guard") /\ (spc' \in Serving => spc \in Serving)
        /\ spc' \in {"leave", "close", "closing", "over"} /\ ~again' /\ ~stopErr' =>
              spc \in {"leave", "close", "closing", "over"} /\ ~again /\ ~stopErr
    BY <1>15, Zenon DEF EngineStopped, CtlDone, guardVars, loopVars, rpcVars, Serving
  <2> QED BY <2>1, <2>2, <2>3, GuardRests, Zenon
<1>16. ASSUME NEW o \in Outcomes, RestoreOnStop(o) PROVE Guarding'
  <2>1. CASE ~guardApplied
    <3>1. /\ UNCHANGED <<armed, table, guardApplied, killSwitch, vars, loop, sel>>
          /\ spc = "restore"
      BY <1>16, <2>1, Zenon DEF RestoreOnStop, RestoreGuard, guardVars, restVars,
         loopVars, rpcVars
    <3>2. GuardAgrees'
      BY <3>1, Zenon DEF Guarding, GuardAgrees, Blocked
    <3>3. spc' \notin Serving /\ spc' \notin {"new", "validate", "guard"}
      BY <1>16, Zenon DEF RestoreOnStop, Serving
    <3> QED BY <2>1, <3>1, <3>2, <3>3, Zenon DEF Guarding
  <2>2. CASE guardApplied
    <3>1. Restore(o) /\ (guardApplied' <=> o # "ok")
      BY <1>16, <2>2, Zenon DEF RestoreOnStop, RestoreGuard
    <3>2. GuardAgrees' /\ (o = "ok" => ~armed') /\ (o # "ok" => armed' = armed)
      BY <3>1, RestoreAgrees, Zenon DEF Guarding
    <3>3. UNCHANGED <<killSwitch, vars, loop, sel>>
      BY <1>16, Zenon DEF RestoreOnStop, loopVars, rpcVars
    <3>4. Unstarted => Unstarted'
      BY <3>3, Zenon DEF Unstarted, vars, opVars, envVars
    <3>5. /\ spc' \notin Serving /\ spc' \notin {"new", "validate", "guard"}
          /\ spc' \in {"leave", "close", "closing", "over"} /\ ~again' /\ ~stopErr' =>
                o = "ok"
      BY <1>16, Zenon DEF RestoreOnStop, Serving
    <3>6. ASSUME o # "ok" PROVE Switched' \/ Unstarted
      <4>1. UNCHANGED <<armed, killSwitch>>
        BY <3>2, <3>3, <3>6, Zenon
      <4> QED BY <2>2, <4>1, Zenon DEF Guarding, Switched
    <3> QED BY <3>1, <3>2, <3>3, <3>4, <3>5, <3>6, Zenon DEF Guarding
  <2> QED BY <2>1, <2>2, Zenon
<1>17. CASE Leave
  <2>1. UNCHANGED <<armed, table, killSwitch, guardApplied>>
    BY <1>17, Zenon DEF Leave, guardVars, restVars, stopVars, loopVars, rpcVars
  <2>2. Unstarted /\ spc \notin Serving => Unstarted'
    BY <1>17, Zenon DEF Leave, guardVars, restVars, stopVars, loopVars, rpcVars, vars,
       opVars, envVars, Unsubscribe, Unstarted, Serving
  <2>3. /\ spc' \in {"new", "validate", "guard"} => spc \in {"new", "validate", "guard"}
        /\ (spc' = "guard" => spc = "guard") /\ (spc' \in Serving => spc \in Serving)
        /\ spc' \in {"leave", "close", "closing", "over"} /\ ~again' /\ ~stopErr' =>
              spc \in {"leave", "close", "closing", "over"} /\ ~again /\ ~stopErr
    BY <1>17, Zenon DEF Leave, guardVars, restVars, stopVars, loopVars, rpcVars, Serving
  <2> QED BY <2>1, <2>2, <2>3, GuardRests, Zenon
<1>18. CASE CloseEngine
  <2>1. UNCHANGED <<armed, table, killSwitch, guardApplied>>
    BY <1>18, Zenon DEF CloseEngine, guardVars, restVars, stopVars, loopVars, rpcVars
  <2>2. Unstarted /\ spc \notin Serving => Unstarted'
    BY <1>18, Zenon DEF CloseEngine, guardVars, restVars, stopVars, loopVars, rpcVars,
       StopBegin, envVars, Unstarted, Serving
  <2>3. /\ spc' \in {"new", "validate", "guard"} => spc \in {"new", "validate", "guard"}
        /\ (spc' = "guard" => spc = "guard") /\ (spc' \in Serving => spc \in Serving)
        /\ spc' \in {"leave", "close", "closing", "over"} /\ ~again' /\ ~stopErr' =>
              spc \in {"leave", "close", "closing", "over"} /\ ~again /\ ~stopErr
    BY <1>18, Zenon DEF CloseEngine, guardVars, restVars, stopVars, loopVars, rpcVars,
       Serving
  <2> QED BY <2>1, <2>2, <2>3, GuardRests, Zenon
<1>19. CASE Closed
  <2>1. UNCHANGED <<armed, table, killSwitch, guardApplied>>
    BY <1>19, Zenon DEF Closed, CtlDone, guardVars, restVars, stopVars, loopVars, rpcVars
  <2>2. Unstarted /\ spc \notin Serving => Unstarted'
    BY <1>19, Zenon DEF Closed, CtlDone, guardVars, restVars, stopVars, loopVars, rpcVars,
       vars, opVars, envVars, Unstarted, Serving
  <2>3. /\ spc' \in {"new", "validate", "guard"} => spc \in {"new", "validate", "guard"}
        /\ (spc' = "guard" => spc = "guard") /\ (spc' \in Serving => spc \in Serving)
        /\ spc' \in {"leave", "close", "closing", "over"} /\ ~again' /\ ~stopErr' =>
              spc \in {"leave", "close", "closing", "over"} /\ ~again /\ ~stopErr
    BY <1>19, Zenon DEF Closed, CtlDone, guardVars, restVars, stopVars, loopVars, rpcVars,
       Serving
  <2> QED BY <2>1, <2>2, <2>3, GuardRests, Zenon
<1>20. CASE LoopEvent
  <2>1. UNCHANGED <<armed, table, killSwitch, guardApplied>>
    BY <1>20, Zenon DEF LoopEvent, guardVars, stopVars, rpcVars, ctlVars
  <2>2. Unstarted /\ spc \notin Serving => Unstarted'
    BY <1>20, Zenon DEF LoopEvent, guardVars, stopVars, rpcVars, ctlVars, opVars, envVars,
       Deliver, Unstarted, Serving
  <2>3. /\ spc' \in {"new", "validate", "guard"} => spc \in {"new", "validate", "guard"}
        /\ (spc' = "guard" => spc = "guard") /\ (spc' \in Serving => spc \in Serving)
        /\ spc' \in {"leave", "close", "closing", "over"} /\ ~again' /\ ~stopErr' =>
              spc \in {"leave", "close", "closing", "over"} /\ ~again /\ ~stopErr
    BY <1>20, Zenon DEF LoopEvent, guardVars, stopVars, rpcVars, ctlVars, Serving
  <2> QED BY <2>1, <2>2, <2>3, GuardRests, Zenon
<1>21. CASE LoopRenew
  <2>1. UNCHANGED <<armed, table, killSwitch, guardApplied>>
    BY <1>21, Zenon DEF LoopRenew, guardVars, stopVars, rpcVars, ctlVars
  <2>2. Unstarted /\ spc \notin Serving => Unstarted'
    BY <1>21, Zenon DEF LoopRenew, guardVars, stopVars, rpcVars, ctlVars, vars, opVars,
       envVars, Unstarted, Serving
  <2>3. /\ spc' \in {"new", "validate", "guard"} => spc \in {"new", "validate", "guard"}
        /\ (spc' = "guard" => spc = "guard") /\ (spc' \in Serving => spc \in Serving)
        /\ spc' \in {"leave", "close", "closing", "over"} /\ ~again' /\ ~stopErr' =>
              spc \in {"leave", "close", "closing", "over"} /\ ~again /\ ~stopErr
    BY <1>21, Zenon DEF LoopRenew, guardVars, stopVars, rpcVars, ctlVars, Serving
  <2> QED BY <2>1, <2>2, <2>3, GuardRests, Zenon
<1>22. CASE LoopApply
  <2>1. UNCHANGED <<armed, table, killSwitch, guardApplied>>
    BY <1>22, Zenon DEF LoopApply, guardVars, stopVars, rpcVars, ctlVars
  <2>2. Unstarted /\ spc \notin Serving => Unstarted'
    BY <1>22, Zenon DEF LoopApply, guardVars, stopVars, rpcVars, ctlVars, ApplyBegin,
       ApplyRefused, envVars, Unstarted, Serving
  <2>3. /\ spc' \in {"new", "validate", "guard"} => spc \in {"new", "validate", "guard"}
        /\ (spc' = "guard" => spc = "guard") /\ (spc' \in Serving => spc \in Serving)
        /\ spc' \in {"leave", "close", "closing", "over"} /\ ~again' /\ ~stopErr' =>
              spc \in {"leave", "close", "closing", "over"} /\ ~again /\ ~stopErr
    BY <1>22, Zenon DEF LoopApply, guardVars, stopVars, rpcVars, ctlVars, Serving
  <2> QED BY <2>1, <2>2, <2>3, GuardRests, Zenon
<1>23. CASE LoopApplied
  <2>1. UNCHANGED <<armed, table, killSwitch, guardApplied>>
    BY <1>23, Zenon DEF LoopApplied, guardVars, stopVars, rpcVars, ctlVars
  <2>2. Unstarted /\ spc \notin Serving => Unstarted'
    BY <1>23, Zenon DEF LoopApplied, guardVars, stopVars, rpcVars, ctlVars, vars, opVars,
       envVars, Unstarted, Serving
  <2>3. /\ spc' \in {"new", "validate", "guard"} => spc \in {"new", "validate", "guard"}
        /\ (spc' = "guard" => spc = "guard") /\ (spc' \in Serving => spc \in Serving)
        /\ spc' \in {"leave", "close", "closing", "over"} /\ ~again' /\ ~stopErr' =>
              spc \in {"leave", "close", "closing", "over"} /\ ~again /\ ~stopErr
    BY <1>23, Zenon DEF LoopApplied, guardVars, stopVars, rpcVars, ctlVars, Serving
  <2> QED BY <2>1, <2>2, <2>3, GuardRests, Zenon
<1>24. CASE LoopEnd
  <2>1. UNCHANGED <<armed, table, killSwitch, guardApplied>>
    BY <1>24, Zenon DEF LoopEnd, guardVars, stopVars, rpcVars, ctlVars
  <2>2. Unstarted /\ spc \notin Serving => Unstarted'
    BY <1>24, Zenon DEF LoopEnd, guardVars, stopVars, rpcVars, ctlVars, vars, opVars,
       envVars, Unstarted, Serving
  <2>3. /\ spc' \in {"new", "validate", "guard"} => spc \in {"new", "validate", "guard"}
        /\ (spc' = "guard" => spc = "guard") /\ (spc' \in Serving => spc \in Serving)
        /\ spc' \in {"leave", "close", "closing", "over"} /\ ~again' /\ ~stopErr' =>
              spc \in {"leave", "close", "closing", "over"} /\ ~again /\ ~stopErr
    BY <1>24, Zenon DEF LoopEnd, guardVars, stopVars, rpcVars, ctlVars, Serving
  <2> QED BY <2>1, <2>2, <2>3, GuardRests, Zenon
<1>25. ASSUME NEW on \in KillCalls, KillSwitchBegin(on) PROVE Guarding'
  <2>1. UNCHANGED <<armed, table, killSwitch, guardApplied>>
    BY <1>25, Zenon DEF KillSwitchBegin, guardVars, stopVars, loopVars, ctlVars
  <2>2. Unstarted /\ spc \notin Serving => Unstarted'
    BY <1>25, Zenon DEF KillSwitchBegin, guardVars, stopVars, loopVars, ctlVars, vars,
       opVars, envVars, Unstarted, Serving
  <2>3. /\ spc' \in {"new", "validate", "guard"} => spc \in {"new", "validate", "guard"}
        /\ (spc' = "guard" => spc = "guard") /\ (spc' \in Serving => spc \in Serving)
        /\ spc' \in {"leave", "close", "closing", "over"} /\ ~again' /\ ~stopErr' =>
              spc \in {"leave", "close", "closing", "over"} /\ ~again /\ ~stopErr
    BY <1>25, Zenon DEF KillSwitchBegin, guardVars, stopVars, loopVars, ctlVars, Serving
  <2> QED BY <2>1, <2>2, <2>3, GuardRests, Zenon
<1>26. ASSUME NEW o \in Outcomes, KillSwitchEnd(o) PROVE Guarding'
  <2>1. GuardAgrees' /\ (o = "ok" => armed' = (kill = "on")) /\ (o # "ok" => armed' = armed)
    <3>1. (kill = "on") \in BOOLEAN /\ TheNets \in Networks
      BY SessionAssumption, Zenon
    <3> QED BY <1>26, <3>1, ApplyAgrees, Zenon DEF KillSwitchEnd, Guarding
  <2>2. spc \in {"up", "stop", "stopping", "restore"} /\ UNCHANGED <<spc, vars, loop, sel>>
    BY <1>26, Zenon DEF KillSwitchEnd, Calls, loopVars
  <2>3. Unstarted => Unstarted'
    BY <2>2, Zenon DEF Unstarted, vars, opVars, envVars
  <2>4. CASE o = "ok"
    <3>1. guardApplied' = TRUE /\ killSwitch' = (kill = "on")
      BY <1>26, <2>4, Zenon DEF KillSwitchEnd
    <3> QED BY <2>1, <2>2, <2>4, <3>1, Zenon DEF Guarding, Switched
  <2>5. CASE o # "ok"
    <3>1. UNCHANGED <<guardApplied, killSwitch>>
      BY <1>26, <2>5, Zenon DEF KillSwitchEnd
    <3>2. UNCHANGED <<armed, guardApplied, killSwitch>>
      BY <2>1, <2>5, <3>1, Zenon
    <3>3. (Switched => Switched') /\ (armed' => guardApplied')
      BY <3>2, Zenon DEF Guarding, Switched
    <3>4. guardApplied' => Switched' \/ (Unstarted' /\ spc' \notin Serving)
      BY <2>2, <2>3, <3>2, <3>3, Zenon DEF Guarding
    <3>5. killSwitch' \in BOOLEAN /\ (spc' \in Serving => Switched')
      BY <2>2, <3>2, <3>3, Zenon DEF Guarding
    <3> QED BY <2>1, <2>2, <3>3, <3>4, <3>5, Zenon DEF Guarding
  <2> QED BY <2>4, <2>5, Zenon
<1>27. CASE SelectRead
  <2>1. UNCHANGED <<armed, table, killSwitch, guardApplied>>
    BY <1>27, Zenon DEF SelectRead, guardVars, stopVars, loopVars, ctlVars
  <2>2. Unstarted /\ spc \notin Serving => Unstarted'
    BY <1>27, Zenon DEF SelectRead, guardVars, stopVars, loopVars, ctlVars, vars, opVars,
       envVars, Unstarted, Serving
  <2>3. /\ spc' \in {"new", "validate", "guard"} => spc \in {"new", "validate", "guard"}
        /\ (spc' = "guard" => spc = "guard") /\ (spc' \in Serving => spc \in Serving)
        /\ spc' \in {"leave", "close", "closing", "over"} /\ ~again' /\ ~stopErr' =>
              spc \in {"leave", "close", "closing", "over"} /\ ~again /\ ~stopErr
    BY <1>27, Zenon DEF SelectRead, guardVars, stopVars, loopVars, ctlVars, Serving
  <2> QED BY <2>1, <2>2, <2>3, GuardRests, Zenon
<1>28. CASE SelectApply
  <2>1. UNCHANGED <<armed, table, killSwitch, guardApplied>>
    BY <1>28, Zenon DEF SelectApply, guardVars, stopVars, loopVars, ctlVars
  <2>2. Unstarted /\ spc \notin Serving => Unstarted'
    BY <1>28, Zenon DEF SelectApply, guardVars, stopVars, loopVars, ctlVars, ApplyBegin,
       envVars, Unstarted, Serving
  <2>3. /\ spc' \in {"new", "validate", "guard"} => spc \in {"new", "validate", "guard"}
        /\ (spc' = "guard" => spc = "guard") /\ (spc' \in Serving => spc \in Serving)
        /\ spc' \in {"leave", "close", "closing", "over"} /\ ~again' /\ ~stopErr' =>
              spc \in {"leave", "close", "closing", "over"} /\ ~again /\ ~stopErr
    BY <1>28, Zenon DEF SelectApply, guardVars, stopVars, loopVars, ctlVars, Serving
  <2> QED BY <2>1, <2>2, <2>3, GuardRests, Zenon
<1>29. CASE SelectEnd
  <2>1. UNCHANGED <<armed, table, killSwitch, guardApplied>>
    BY <1>29, Zenon DEF SelectEnd, guardVars, stopVars, loopVars, ctlVars
  <2>2. Unstarted /\ spc \notin Serving => Unstarted'
    BY <1>29, Zenon DEF SelectEnd, guardVars, stopVars, loopVars, ctlVars, vars, opVars,
       envVars, Unstarted, Serving
  <2>3. /\ spc' \in {"new", "validate", "guard"} => spc \in {"new", "validate", "guard"}
        /\ (spc' = "guard" => spc = "guard") /\ (spc' \in Serving => spc \in Serving)
        /\ spc' \in {"leave", "close", "closing", "over"} /\ ~again' /\ ~stopErr' =>
              spc \in {"leave", "close", "closing", "over"} /\ ~again /\ ~stopErr
    BY <1>29, Zenon DEF SelectEnd, guardVars, stopVars, loopVars, ctlVars, Serving, Calls
  <2> QED BY <2>1, <2>2, <2>3, GuardRests, Zenon
<1>30. CASE UNCHANGED allVars
  BY <1>30, Zenon DEF allVars, sessVars, vars, opVars, envVars, guardVars, Unstarted,
     GuardAgrees, Blocked, Switched, stopVars, loopVars, rpcVars, ctlVars, Guarding
<1> QED
  BY <1>1, <1>2, <1>3, <1>4, <1>5, <1>6, <1>7, <1>8, <1>9, <1>10, <1>11, <1>12, <1>13,
     <1>14, <1>15, <1>16, <1>17, <1>18, <1>19, <1>20, <1>21, <1>22, <1>23, <1>24, <1>25,
     <1>26, <1>27, <1>28, <1>29, <1>30, Zenon DEF SessionNext, CtlStep, LoopStep,
     HandlerStep, Over

\* A quiet engine stays quiet: the context of the loop's Apply is cancelled.
LEMMA QuietStep ==
    ASSUME TypeOK, Lock, Tracked, Quiet, scanceled, Internal, CutShort
    PROVE  Quiet'
<1>a. /\ pc \in {"idle", "prepare", "close"} /\ (pc = "idle" <=> holder = "none")
      /\ pc = "prepare" => holder = "loop"
      /\ pc = "close" => holder = "ctl" /\ job = NoProc
  BY ShapeHolds, SessionAssumption, Zenon DEF Shape, Lock, Quiet
<1>b. NoProc \notin Procs
  BY BoundsAssumption DEF Procs, NoProc
<1>1. ASSUME NEW answer \in ReloadOutcomes, Reload(answer) PROVE Quiet'
  BY <1>1, <1>a, Zenon DEF Reload, Return, Quiet, Live
<1>2. ASSUME NEW ok \in BOOLEAN, Replace(ok) PROVE Quiet'
  BY <1>2, <1>a, Zenon DEF Replace, StopProcess, Return, supVars, Quiet, Live
<1>3. ASSUME NEW ok \in BOOLEAN, Prepare(ok) PROVE Quiet'
  BY <1>3, <1>a, Zenon DEF Prepare, StartFailed, Return, envVars, Quiet, Live, CutShort
<1>4. ASSUME NEW ok \in BOOLEAN, Spawn(ok) PROVE Quiet'
  BY <1>4, <1>a, Zenon DEF Spawn, StartFailed, Return, Quiet, Live
<1>5. ASSUME NEW ok \in BOOLEAN, Ready(ok) PROVE Quiet'
  BY <1>5, <1>a, Zenon DEF Ready, supVars, envVars, Quiet, Live
<1>6. ASSUME NEW ok \in BOOLEAN, Route(ok) PROVE Quiet'
  BY <1>6, <1>a, Zenon DEF Route, Quiet, Live
<1>7. ASSUME NEW ok \in BOOLEAN, NEW unrouted \in BOOLEAN, Rollback(ok, unrouted)
      PROVE  Quiet'
  BY <1>7, <1>a, Zenon DEF Rollback, StopProcess, StartFailed, Return, Quiet, Live
<1>8. CASE Finish
  BY <1>8, <1>a, Zenon DEF Finish, Return, Quiet, Live
<1>9. ASSUME NEW p \in Procs, NEW unrouted \in BOOLEAN, WatchExit(p, unrouted)
      PROVE  Quiet'
  BY <1>9, <1>a, <1>b, Zenon DEF WatchExit, supVars, opVars, Quiet, Live
<1>10. ASSUME NEW p \in Procs, WatchRestart(p) PROVE Quiet'
  BY <1>10, <1>a, <1>b, Zenon DEF WatchRestart, supVars, Quiet, Live, GiveUp
<1>11. ASSUME NEW ok \in BOOLEAN, NEW unrouted \in BOOLEAN, StopEnd(ok, unrouted)
      PROVE  Quiet'
  BY <1>11, <1>a, Zenon DEF StopEnd, StopProcess, Return, Quiet, Live, Unroute
<1>12. CASE CloseCancel
  BY <1>12, <1>a, Zenon DEF CloseCancel, envVars, Quiet, Live
<1>13. ASSUME NEW p \in Procs, ProcessStep(p) PROVE Quiet'
  <2>1. UNCHANGED <<supVars, opVars>>
    BY <1>13, Zenon DEF ProcessStep, Crash, Reap, ContextStop
  <2>2. Live' \subseteq Live
    BY <1>13, ShapeHolds, Zenon DEF ProcessStep, Crash, Reap, ContextStop, Live, Shape
  <2> QED BY <2>1, <2>2, Zenon DEF Quiet, supVars, opVars
<1> QED
  BY <1>1, <1>2, <1>3, <1>4, <1>5, <1>6, <1>7, <1>8, <1>9, <1>10, <1>11, <1>12, <1>13,
     Zenon DEF Internal, HolderStep, WatchStep

\* eng.Stop returned nil: the process is gone and so are its routes.
LEMMA StopQuiet ==
    ASSUME TypeOK, Lock, Tracked, Working, Internal, holder = "ctl", pc = "stop",
           call'["ctl"] = "ok"
    PROVE  Quiet'
<1>1. PICK ok \in BOOLEAN, unrouted \in BOOLEAN : StopEnd(ok, unrouted)
  <2>1. call["ctl"] = "busy"
    BY SessionAssumption, Zenon DEF Working
  <2>2. ASSUME NEW p \in Procs, WatchStep(p) \/ ProcessStep(p) PROVE call' = call
    BY <2>2, Zenon DEF WatchStep, WatchExit, WatchRestart, ProcessStep, Crash, Reap,
       ContextStop, opVars
  <2>3. CloseCancel => call' = call
    BY Zenon DEF CloseCancel
  <2>4. HolderStep
    BY <2>1, <2>2, <2>3, Zenon DEF Internal
  <2> QED BY <2>4, Zenon DEF HolderStep, Reload, Replace, Prepare, Spawn, Ready, Route,
       Rollback, Finish
<1>2. ok /\ unrouted /\ holder' = "none" /\ proc = NoProc /\ "ctl" \in Callers
  <2>1. "ctl" \in Callers /\ call' = [c \in Callers |-> IF c = holder
                 THEN IF ok /\ unrouted THEN "ok" ELSE "error" ELSE call[c]]
    BY <1>1, SessionAssumption, Zenon DEF StopEnd, Return
  <2>2. call'["ctl"] = IF ok /\ unrouted THEN "ok" ELSE "error"
    BY <2>1, Zenon
  <2> QED BY <1>1, <2>1, <2>2, Zenon DEF StopEnd, Return, Working
<1>3. ~routed'
  BY <1>1, <1>2, Zenon DEF StopEnd, Unroute
<1>4. proc' = NoProc /\ Live' = {}
  <2>1. CASE job = NoProc
    BY <1>1, <1>2, <2>1, BoundsAssumption DEF StopEnd, Tracked, Live, Procs, NoProc
  <2>2. CASE job # NoProc
    BY <1>1, <1>2, <2>2, ShapeHolds, Zenon DEF StopEnd, StopProcess, Tracked, Live, Shape
  <2> QED BY <2>1, <2>2, Zenon
<1> QED BY <1>2, <1>3, <1>4, Zenon DEF Quiet

\* Only the holder of the mutex gets an answer.
LEMMA CallerOnly ==
    ASSUME TypeOK, NEW c \in Callers, Internal, holder # c
    PROVE  call'[c] = call[c]
<1>1. ASSUME NEW answer \in ReloadOutcomes, Reload(answer) PROVE call'[c] = call[c]
  BY <1>1, ShapeHolds, Zenon DEF Reload, Return, Shape
<1>2. ASSUME NEW ok \in BOOLEAN, Replace(ok) PROVE call'[c] = call[c]
  BY <1>2, ShapeHolds, Zenon DEF Replace, StopProcess, Return, supVars, Shape
<1>3. ASSUME NEW ok \in BOOLEAN, Prepare(ok) PROVE call'[c] = call[c]
  BY <1>3, ShapeHolds, Zenon DEF Prepare, StartFailed, Return, envVars, Shape
<1>4. ASSUME NEW ok \in BOOLEAN, Spawn(ok) PROVE call'[c] = call[c]
  BY <1>4, ShapeHolds, Zenon DEF Spawn, StartFailed, Return, Shape
<1>5. ASSUME NEW ok \in BOOLEAN, Ready(ok) PROVE call'[c] = call[c]
  BY <1>5, ShapeHolds, Zenon DEF Ready, supVars, envVars, Shape
<1>6. ASSUME NEW ok \in BOOLEAN, Route(ok) PROVE call'[c] = call[c]
  BY <1>6, ShapeHolds, Zenon DEF Route, Shape
<1>7. ASSUME NEW ok \in BOOLEAN, NEW unrouted \in BOOLEAN, Rollback(ok, unrouted)
      PROVE  call'[c] = call[c]
  BY <1>7, ShapeHolds, Zenon DEF Rollback, StopProcess, StartFailed, Return, Shape
<1>8. CASE Finish
  BY <1>8, ShapeHolds, Zenon DEF Finish, Return, Shape
<1>9. ASSUME NEW p \in Procs, NEW unrouted \in BOOLEAN, WatchExit(p, unrouted)
      PROVE  call'[c] = call[c]
  BY <1>9, ShapeHolds, Zenon DEF WatchExit, supVars, opVars, Shape
<1>10. ASSUME NEW p \in Procs, WatchRestart(p) PROVE call'[c] = call[c]
  BY <1>10, ShapeHolds, Zenon DEF WatchRestart, supVars, Shape
<1>11. ASSUME NEW ok \in BOOLEAN, NEW unrouted \in BOOLEAN, StopEnd(ok, unrouted)
      PROVE  call'[c] = call[c]
  BY <1>11, ShapeHolds, Zenon DEF StopEnd, StopProcess, Return, Shape
<1>12. CASE CloseCancel
  BY <1>12, ShapeHolds, Zenon DEF CloseCancel, envVars, Shape
<1>13. ASSUME NEW p \in Procs, ProcessStep(p) PROVE call'[c] = call[c]
  BY <1>13, ShapeHolds, Zenon DEF ProcessStep, Crash, Reap, ContextStop, supVars, opVars,
     Shape
<1> QED
  BY <1>1, <1>2, <1>3, <1>4, <1>5, <1>6, <1>7, <1>8, <1>9, <1>10, <1>11, <1>12, <1>13,
     Zenon DEF Internal, HolderStep, WatchStep

\* Once the engine of a stopping session is gone, nothing brings it back.
LEMMA EndedStep ==
    ASSUME TypeOK, Lock, Tracked, Working, Calls, Ended, [SessionNext]_allVars
    PROVE  Ended'
<1>1. CASE EngineStep
  <2>1. Internal /\ CutShort /\ UNCHANGED <<spc, again, stopErr, selects>>
    BY <1>1, Zenon DEF EngineStep, sessVars, stopVars, rpcVars, ctlVars
  <2> SUFFICES ASSUME Stopped' PROVE Quiet'
    BY Zenon DEF Ended
  <2>2. CASE Stopped
    <3>1. Quiet /\ scanceled
      BY <2>2, Zenon DEF Ended, Stopped, Calls, Halts
    <3> QED BY <2>1, <3>1, QuietStep, Zenon
  <2>3. CASE ~Stopped
    <3>1. spc = "stopping" /\ call'["ctl"] = "ok" /\ call["ctl"] # "ok"
      BY <2>1, <2>3, Zenon DEF Stopped
    <3>2. holder = "ctl"
      BY <2>1, <3>1, CallerOnly, SessionAssumption, Zenon
    <3> QED BY <2>1, <3>1, <3>2, StopQuiet, Zenon DEF Calls
  <2> QED BY <2>2, <2>3, Zenon
<1>2. CASE Start
  BY <1>2, Zenon DEF Start, guardVars, restVars, stopVars, loopVars, rpcVars, Ended,
     Stopped, Calls, Halts, Quiet, vars, supVars, opVars, envVars, Live
<1>3. ASSUME NEW ok \in BOOLEAN, Validate(ok) PROVE Ended'
  BY <1>3, Zenon DEF Validate, guardVars, restVars, stopVars, loopVars, rpcVars, Ended,
     Stopped, Calls, Halts, Quiet, vars, supVars, opVars, envVars, Live
<1>4. ASSUME NEW o \in Outcomes, ArmGuard(o) PROVE Ended'
  BY <1>4, Zenon DEF ArmGuard, restVars, stopVars, loopVars, rpcVars, Ended, Stopped,
     Calls, Halts, Quiet, vars, supVars, opVars, envVars, Live
<1>5. CASE StartEngine
  BY <1>5, Zenon DEF StartEngine, guardVars, restVars, stopVars, loopVars, rpcVars, Ended,
     Stopped
<1>6. ASSUME NEW ok \in BOOLEAN, AwaitTun(ok) PROVE Ended'
  BY <1>6, Zenon DEF AwaitTun, CtlDone, guardVars, restVars, stopVars, loopVars, rpcVars,
     Ended, Stopped
<1>7. CASE TunStopped
  BY <1>7, Zenon DEF TunStopped, CtlDone, guardVars, restVars, stopVars, loopVars,
     rpcVars, Ended, Stopped, Calls, Halts, Quiet, vars, supVars, opVars, envVars, Live
<1>8. ASSUME NEW o \in Outcomes, UndoGuard(o) PROVE Ended'
  BY <1>8, Zenon DEF UndoGuard, restVars, stopVars, loopVars, rpcVars, Ended, Stopped,
     Calls, Halts, Quiet, vars, supVars, opVars, envVars, Live
<1>9. CASE StartFails
  BY <1>9, Zenon DEF StartFails, guardVars, restVars, stopVars, loopVars, rpcVars, Ended,
     Stopped, Calls, Halts, Quiet, vars, supVars, opVars, envVars, Live
<1>10. CASE Connected
  BY <1>10, Zenon DEF Connected, guardVars, restVars, stopVars, loopVars, rpcVars, Ended,
     Stopped, Calls, Halts, Quiet, vars, supVars, opVars, envVars, Live
<1>11. CASE Supervise
  BY <1>11, Zenon DEF Supervise, guardVars, stopVars, rpcVars, Ended, Stopped, Calls,
     Halts, Quiet, Subscribe, opVars
<1>12. CASE Stop
  BY <1>12, Zenon DEF Stop, guardVars, loopVars, rpcVars, Ended, Stopped, Calls, Halts,
     Quiet, vars, supVars, opVars, envVars, Live
<1>13. CASE StopAgain
  BY <1>13, Zenon DEF StopAgain, guardVars, loopVars, rpcVars, Ended, Stopped, Calls,
     Halts, Quiet, vars, supVars, opVars, envVars, Live
<1>14. CASE StopEngine
  BY <1>14, SessionAssumption, ShapeHolds, Zenon DEF StopEngine, guardVars, restVars,
     stopVars, loopVars, rpcVars, Ended, Stopped, StopBegin, Shape
<1>15. CASE EngineStopped
  <2>1. UNCHANGED <<again, selects, vars>> /\ spc = "stopping" /\ call["ctl"] # "idle"
    BY <1>15, Zenon DEF EngineStopped, Calls, rpcVars
  <2>2. call["ctl"] \in {"idle", "busy", "ok", "error"}
    BY SessionAssumption, Zenon DEF TypeOK
  <2>3. Stopped' => Stopped
    <3>1. ~stopErr' => ~stopErr /\ call["ctl"] # "error"
      BY <1>15, Zenon DEF EngineStopped
    <3>2. call["ctl"] # "busy"
      BY <1>15, Zenon DEF EngineStopped, CtlDone
    <3> QED BY <2>1, <2>2, <3>1, <3>2, Zenon DEF Stopped
  <2>4. Quiet => Quiet'
    BY <2>1, Zenon DEF Quiet, Live, vars, supVars, opVars, envVars
  <2> QED BY <2>3, <2>4, Zenon DEF Ended
<1>16. ASSUME NEW o \in Outcomes, RestoreOnStop(o) PROVE Ended'
  BY <1>16, Zenon DEF RestoreOnStop, loopVars, rpcVars, Ended, Stopped, Calls, Halts,
     Quiet, vars, supVars, opVars, envVars, Live
<1>17. CASE Leave
  BY <1>17, Zenon DEF Leave, guardVars, restVars, stopVars, loopVars, rpcVars, Ended,
     Stopped, Calls, Halts, Quiet, vars, supVars, opVars, envVars, Live, Unsubscribe
<1>18. CASE CloseEngine
  BY <1>18, SessionAssumption, ShapeHolds, Zenon DEF CloseEngine, guardVars, restVars,
     stopVars, loopVars, rpcVars, Ended, Stopped, StopBegin, Shape, Quiet, Live, envVars
<1>19. CASE Closed
  BY <1>19, Zenon DEF Closed, CtlDone, guardVars, restVars, stopVars, loopVars, rpcVars,
     Ended, Stopped, Calls, Halts, Quiet, vars, supVars, opVars, envVars, Live
<1>20. CASE LoopEvent
  BY <1>20, Zenon DEF LoopEvent, guardVars, stopVars, rpcVars, ctlVars, Ended, Stopped,
     Calls, Halts, Quiet, Deliver, supVars, opVars, envVars, Live
<1>21. CASE LoopRenew
  BY <1>21, Zenon DEF LoopRenew, guardVars, stopVars, rpcVars, ctlVars, Ended, Stopped,
     Calls, Halts, Quiet, vars, supVars, opVars, envVars, Live
<1>22. CASE LoopApply
  BY <1>22, SessionAssumption, ShapeHolds, Zenon DEF LoopApply, guardVars, stopVars,
     rpcVars, ctlVars, Ended, Stopped, ApplyBegin, ApplyRefused, Shape, Quiet, Live,
     supVars, envVars
<1>23. CASE LoopApplied
  BY <1>23, Zenon DEF LoopApplied, guardVars, stopVars, rpcVars, ctlVars, Ended, Stopped,
     Calls, Halts, Quiet, vars, supVars, opVars, envVars, Live
<1>24. CASE LoopEnd
  BY <1>24, Zenon DEF LoopEnd, guardVars, stopVars, rpcVars, ctlVars, Ended, Stopped,
     Calls, Halts, Quiet, vars, supVars, opVars, envVars, Live
<1>25. ASSUME NEW on \in KillCalls, KillSwitchBegin(on) PROVE Ended'
  BY <1>25, Zenon DEF KillSwitchBegin, guardVars, stopVars, loopVars, ctlVars, Ended,
     Stopped, Calls, Halts, Quiet, vars, supVars, opVars, envVars, Live
<1>26. ASSUME NEW o \in Outcomes, KillSwitchEnd(o) PROVE Ended'
  BY <1>26, Zenon DEF KillSwitchEnd, stopVars, loopVars, Ended, Stopped, Calls, Halts,
     Quiet, vars, supVars, opVars, envVars, Live
<1>27. CASE SelectRead
  BY <1>27, Zenon DEF SelectRead, guardVars, stopVars, loopVars, ctlVars, Ended, Stopped,
     Calls
<1>28. CASE SelectApply
  BY <1>28, Zenon DEF SelectApply, guardVars, stopVars, loopVars, ctlVars, Ended, Stopped,
     Calls
<1>29. CASE SelectEnd
  BY <1>29, Zenon DEF SelectEnd, guardVars, stopVars, loopVars, ctlVars, Ended, Stopped,
     Calls, Halts, Quiet, vars, supVars, opVars, envVars, Live
<1>30. CASE UNCHANGED allVars
  BY <1>30, Zenon DEF allVars, sessVars, vars, supVars, opVars, envVars, Ended, Stopped,
     Quiet, Live, stopVars, loopVars, rpcVars, ctlVars
<1> QED
  BY <1>1, <1>2, <1>3, <1>4, <1>5, <1>6, <1>7, <1>8, <1>9, <1>10, <1>11, <1>12, <1>13,
     <1>14, <1>15, <1>16, <1>17, <1>18, <1>19, <1>20, <1>21, <1>22, <1>23, <1>24, <1>25,
     <1>26, <1>27, <1>28, <1>29, <1>30, Zenon DEF SessionNext, CtlStep, LoopStep,
     HandlerStep, Over

-----------------------------------------------------------------------------
(***************************************************************************)
(* The results.                                                            *)
(***************************************************************************)

LEMMA InitEngine == SessionInit => EngineInv /\ Calls /\ Ended
<1> SUFFICES ASSUME SessionInit PROVE EngineInv /\ Calls /\ Ended BY Zenon
<1>0. Init
  BY Zenon DEF SessionInit
<1>1. IInv
  BY <1>0, InitIInv, Zenon
<1>2. Born /\ Working
  BY <1>0, PlanInit, Zenon
<1>3. Calls
  BY <1>0, SMT DEF SessionInit, Init, Calls, Halts
<1>4. Ended
  BY Zenon DEF SessionInit, Ended, Stopped
<1> QED BY <1>1, <1>2, <1>3, <1>4, Zenon DEF EngineInv

LEMMA InitGuarding == SessionInit => Guarding
<1> SUFFICES ASSUME SessionInit PROVE Guarding BY Zenon
<1>1. GuardAgrees /\ killSwitch \in BOOLEAN /\ spc = "new" /\ ~armed /\ ~guardApplied
  BY InitAgrees, Zenon DEF SessionInit, GuardInit
<1>2. Unstarted
  BY SMT DEF SessionInit, Init, Unstarted
<1> QED BY <1>1, <1>2, Zenon DEF Guarding, Serving

\* The supervisor's invariant, with what the session adds to it.
LEMMA SessionInductive == SessionSpec => [](EngineInv /\ Calls /\ Ended)
<1>1. EngineInv /\ Calls /\ Ended /\ [SessionNext]_allVars => (EngineInv /\ Calls /\ Ended)'
  <2> SUFFICES ASSUME EngineInv, Calls, Ended, [SessionNext]_allVars
               PROVE  (EngineInv /\ Calls /\ Ended)'
    BY Zenon
  <2>1. TypeOK /\ Lock /\ Tracked /\ Working
    BY Zenon DEF EngineInv, IInv
  <2> QED BY <2>1, EngineInvStep, CallsStep, EndedStep, Zenon
<1> QED BY InitEngine, <1>1, PTL DEF SessionSpec

LEMMA GuardingInductive ==
    ASSUME "cut" \notin Outcomes
    PROVE  SessionSpec => []Guarding
<1>1. EngineInv /\ Calls /\ Guarding /\ [SessionNext]_allVars => Guarding'
  BY GuardingStep, Zenon DEF EngineInv, IInv
<1> QED BY InitGuarding, SessionInductive, <1>1, PTL DEF SessionSpec

\* A session has at most one engine process and never loses its handle, whatever
\* Start, Stop, the supervise loop, Select and the watch goroutines do.
THEOREM SessionHasOneEngine == SessionSpec => []OneEngine
<1>1. EngineInv => OneEngine
  BY TrackedIsOne, Zenon DEF EngineInv
<1> QED BY SessionInductive, <1>1, PTL

\* From the return of Start until Stop the firewall is what the status says, as
\* long as nft is not cut off after the kernel has committed.
THEOREM BlockIsShown ==
    ASSUME "cut" \notin Outcomes
    PROVE  SessionSpec => []BlockHolds
<1>1. Guarding => BlockHolds
  BY Zenon DEF Guarding, GuardAgrees, Serving, Switched, BlockHolds
<1> QED BY GuardingInductive, <1>1, PTL

\* With the kill switch on, no engine process of a session that owns the guard
\* runs without the block: not while Start is under way, not during a restart,
\* not in a Stop that could not end the engine or restore the guard.
THEOREM EngineIsGuarded ==
    ASSUME "cut" \notin Outcomes
    PROVE  SessionSpec => []EngineBehindGuard
<1>1. Guarding => EngineBehindGuard
  <2> SUFFICES ASSUME Guarding, guardApplied, killSwitch, Live # {} PROVE Blocked
    BY Zenon DEF EngineBehindGuard
  <2>1. ~Unstarted
    BY Zenon DEF Unstarted, Live
  <2> QED BY <2>1, Zenon DEF Guarding, GuardAgrees, Switched
<1> QED BY GuardingInductive, <1>1, PTL

\* A first Stop that returned nil left no engine, no routes, no block and nothing
\* owned, whatever the loop, SetKillSwitch and delayed restarts were doing.
THEOREM StopLeavesClean ==
    ASSUME "cut" \notin Outcomes
    PROVE  SessionSpec => []StopCleans
<1>1. Calls /\ Ended /\ Guarding => StopCleans
  BY Zenon DEF Calls, Ended, Stopped, Quiet, Guarding, GuardAgrees, StopCleans, Clean
<1> QED BY SessionInductive, GuardingInductive, <1>1, PTL

=============================================================================
