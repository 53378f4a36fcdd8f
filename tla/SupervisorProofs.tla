-------------------------- MODULE SupervisorProofs --------------------------
(***************************************************************************)
(* For any callers, plans, restart budget and number of processes: the     *)
(* supervisor is type correct, never has two live engines, never loses     *)
(* track of one, and runs none and routes nothing after Stop; and a plan   *)
(* that Apply acknowledged is the plan that runs, across restarts.         *)
(*                                                                         *)
(* OneEngine is not inductive.  What makes it so is where the one live     *)
(* process may be at each step of the holder of s.lifecycle, and that a    *)
(* watch goroutine in its backoff belongs to a process that has exited.    *)
(* AckedPlanRuns further needs the plan each holder and each waiting watch *)
(* carries, and that a handle is watched only once it is the current one.  *)
(***************************************************************************)
EXTENDS Supervisor, TLAPS

StartSteps == {"prepare", "spawn", "ready", "route", "rollback", "finish"}

Lock ==
    /\ holder = "none" <=> pc = "idle"
    /\ holder = "restart" => pc \in StartSteps

Tracked ==
    /\ pc \in {"idle", "reload"} => Live \subseteq {proc}
    /\ pc \in {"prepare", "spawn"} => Live = {}
    /\ pc \notin {"idle", "reload", "prepare", "spawn"} => Live \subseteq {job}
    /\ pc = "reload" => proc \in Procs
    /\ pc \in {"replace", "ready", "route", "rollback", "finish"} => job \in Procs

Halted ==
    stopping => \/ pc \in {"stop", "close"}
                \/ pc = "idle" /\ Live = {}

Waiting == \A p \in Procs : watch[p] = "backoff" => Exited(p)

IInv == TypeOK /\ Lock /\ Tracked /\ Halted /\ Waiting

-----------------------------------------------------------------------------
(***************************************************************************)
(* What the helpers do to the type of the state.                           *)
(***************************************************************************)

LEMMA PublishType ==
    ASSUME TypeOK, NEW events \in Seq(Events), Publish(events)
    PROVE  bus' \in Seq(Events) /\ Len(bus') <= QueueLen
<1> DEFINE all == bus \o events
           n == IF Len(all) > QueueLen THEN QueueLen ELSE Len(all)
<1>1. all \in Seq(Events) /\ n \in 0 .. Len(all) /\ n <= QueueLen
  BY BoundsAssumption DEF TypeOK
<1>2. /\ SubSeq(all, 1, n) \in Seq(Events)
      /\ Len(SubSeq(all, 1, n)) <= QueueLen
  <2> HIDE DEF all, n
  <2> QED BY <1>1
<1> QED BY <1>1, <1>2, Zenon DEF TypeOK, Publish

LEMMA ReturnType ==
    ASSUME TypeOK, NEW result \in {"ok", "error"}, Return(result)
    PROVE  /\ holder' \in Callers \cup {"none", "restart"}
           /\ pc' = "idle" /\ jobPlan' = NoPlan /\ job' = NoProc
           /\ call' \in [Callers -> {"idle", "busy", "ok", "error"}]
BY Zenon DEF TypeOK, Return

LEMMA StopProcessType ==
    ASSUME TypeOK, NEW p, NEW ok \in BOOLEAN, StopProcess(p, ok)
    PROVE  life' \in [Procs -> Life]
BY Zenon DEF TypeOK, StopProcess, Life

-----------------------------------------------------------------------------
(***************************************************************************)
(* Type correctness, one action at a time.  The flags have a lemma of      *)
(* their own, because they need propositional and no other reasoning.      *)
(***************************************************************************)

LEMMA FlagsStep ==
    ASSUME FlagsOK, [Next]_vars
    PROVE  FlagsOK'
<1> USE DEF FlagsOK
<1>1. ASSUME NEW c \in Callers, ApplyRefused(c) PROVE FlagsOK'
  BY <1>1, Zenon DEF ApplyRefused, supVars, envVars, busVars
<1>2. ASSUME NEW c \in Callers, NEW p \in Plans, ApplyBegin(c, p) PROVE FlagsOK'
  BY <1>2, Zenon DEF ApplyBegin, envVars, busVars
<1>3. ASSUME NEW answer \in ReloadOutcomes, Reload(answer) PROVE FlagsOK'
  BY <1>3, Zenon DEF Reload, Publish, Return
<1>4. ASSUME NEW ok \in BOOLEAN, Replace(ok) PROVE FlagsOK'
  BY <1>4, Zenon DEF Replace, StopProcess, Return, supVars, busVars
<1>5. ASSUME NEW ok \in BOOLEAN, Prepare(ok) PROVE FlagsOK'
  BY <1>5, Zenon DEF Prepare, StartFailed, Publish, Return, envVars, busVars
<1>6. ASSUME NEW ok \in BOOLEAN, Spawn(ok) PROVE FlagsOK'
  BY <1>6, Zenon DEF Spawn, StartFailed, Publish, Return, busVars
<1>7. ASSUME NEW ok \in BOOLEAN, Ready(ok) PROVE FlagsOK'
  BY <1>7, Zenon DEF Ready, supVars, envVars, busVars
<1>8. ASSUME NEW ok \in BOOLEAN, Route(ok) PROVE FlagsOK'
  BY <1>8, Zenon DEF Route, busVars
<1>9. ASSUME NEW ok \in BOOLEAN, NEW unrouted \in BOOLEAN, Rollback(ok, unrouted)
      PROVE  FlagsOK'
  BY <1>9, Zenon DEF Rollback, Unroute, StartFailed, Publish, Return
<1>10. CASE Finish
  BY <1>10, Zenon DEF Finish, Publish, Return
<1>11. ASSUME NEW p \in Procs, NEW unrouted \in BOOLEAN, WatchExit(p, unrouted)
      PROVE  FlagsOK'
  BY <1>11, Zenon DEF WatchExit, Unroute, Publish, supVars, opVars, busVars
<1>12. ASSUME NEW p \in Procs, WatchRestart(p) PROVE FlagsOK'
  BY <1>12, Zenon DEF WatchRestart, supVars, busVars
<1>13. ASSUME NEW c \in Callers, NEW op \in {"stop", "close"}, StopBegin(c, op)
      PROVE  FlagsOK'
  BY <1>13, Zenon DEF StopBegin, envVars, busVars
<1>14. ASSUME NEW ok \in BOOLEAN, NEW unrouted \in BOOLEAN, StopEnd(ok, unrouted)
      PROVE  FlagsOK'
  BY <1>14, Zenon DEF StopEnd, Unroute, Return, busVars
<1>15. CASE CloseCancel
  BY <1>15, Zenon DEF CloseCancel, envVars, busVars
<1>16. ASSUME NEW p \in Procs, ProcessStep(p) PROVE FlagsOK'
  BY <1>16, Zenon DEF ProcessStep, Crash, Reap, ContextStop, supVars, opVars, busVars
<1>17. CASE UNCHANGED vars
  BY <1>17, Zenon DEF vars, supVars, opVars, envVars, busVars
<1> QED
  BY <1>1, <1>2, <1>3, <1>4, <1>5, <1>6, <1>7, <1>8, <1>9, <1>10, <1>11, <1>12, <1>13,
     <1>14, <1>15, <1>16, <1>17, Zenon DEF Next, Internal, HolderStep, WatchStep

LEMMA TypeStep ==
    ASSUME TypeOK, [Next]_vars
    PROVE  TypeOK'
<1> USE FlagsStep, PlansAssumption, CallersAssumption, BoundsAssumption
    DEF NoPlan, NoProc, Procs
<1>0. FlagsOK' BY Zenon DEF TypeOK
<1>1. ASSUME NEW c \in Callers, ApplyRefused(c) PROVE TypeOK'
  BY <1>0, <1>1, Zenon DEF TypeOK, ApplyRefused, supVars, envVars, busVars
<1>2. ASSUME NEW c \in Callers, NEW p \in Plans, ApplyBegin(c, p) PROVE TypeOK'
  BY <1>0, <1>2, Zenon DEF TypeOK, ApplyBegin, EngineStates, envVars, busVars
<1>3. ASSUME NEW answer \in ReloadOutcomes, Reload(answer) PROVE TypeOK'
  <2> DEFINE events == Announce("running") \o IF answer = "ok" THEN <<"running">> ELSE << >>
  <2>1. events \in Seq(Events)
    <3>1. << >> \in Seq(Events) /\ <<"running">> \in Seq(Events) BY DEF Events
    <3>2. Announce("running") \in Seq(Events) BY <3>1, Zenon DEF Announce
    <3> QED BY <3>1, <3>2
  <2>2. bus' \in Seq(Events) /\ Len(bus') <= QueueLen
    BY <1>3, <2>1, PublishType, Zenon DEF Reload
  <2>3. CASE answer = "unsupported"
    BY <1>0, <1>3, <2>2, <2>3, Zenon DEF TypeOK, Reload, EngineStates
  <2>4. CASE answer # "unsupported"
    <3>1. answer \in {"ok", "error"} BY <2>4, ReloadAssumption, Zenon DEF ReloadAnswers
    <3>2. Return(answer) /\ proc' = proc BY <1>3, <2>4, Zenon DEF Reload
    <3> QED
      BY <1>0, <1>3, <2>2, <3>1, <3>2, ReturnType, Zenon DEF TypeOK, Reload,
         EngineStates
  <2> QED BY <2>3, <2>4, Zenon
<1>4. ASSUME NEW ok \in BOOLEAN, Replace(ok) PROVE TypeOK'
  <2>1. life' \in [Procs -> Life] BY <1>4, StopProcessType, Zenon DEF Replace
  <2>2. CASE ok BY <1>0, <1>4, <2>1, <2>2, Zenon DEF TypeOK, Replace, supVars, busVars
  <2>3. CASE ~ok
    BY <1>0, <1>4, <2>1, <2>3, ReturnType, Zenon DEF TypeOK, Replace, supVars, busVars
  <2> QED BY <2>2, <2>3, Zenon
<1>5. ASSUME NEW ok \in BOOLEAN, Prepare(ok) PROVE TypeOK'
  <2>1. <<"fatal">> \in Seq(Events) BY DEF Events
  <2> QED
    BY <1>0, <1>5, <2>1, PublishType, ReturnType, Zenon DEF TypeOK, Prepare,
       StartFailed, EngineStates, envVars, busVars
<1>6. ASSUME NEW ok \in BOOLEAN, Spawn(ok) PROVE TypeOK'
  <2>1. <<"fatal">> \in Seq(Events) BY DEF Events
  <2>2. CASE ok BY <1>0, <1>6, <2>2 DEF TypeOK, Spawn, Life, busVars
  <2>3. CASE ~ok
    BY <1>0, <1>6, <2>1, <2>3, PublishType, ReturnType, Zenon DEF TypeOK, Spawn,
       StartFailed, EngineStates
  <2> QED BY <2>2, <2>3, Zenon
<1>7. ASSUME NEW ok \in BOOLEAN, Ready(ok) PROVE TypeOK'
  BY <1>0, <1>7, Zenon DEF TypeOK, Ready, supVars, envVars, busVars
<1>8. ASSUME NEW ok \in BOOLEAN, Route(ok) PROVE TypeOK'
  BY <1>0, <1>8, Zenon DEF TypeOK, Route, busVars
<1>9. ASSUME NEW ok \in BOOLEAN, NEW unrouted \in BOOLEAN, Rollback(ok, unrouted)
      PROVE  TypeOK'
  <2>1. <<"fatal">> \in Seq(Events) BY DEF Events
  <2>2. life' \in [Procs -> Life] BY <1>9, StopProcessType, Zenon DEF Rollback
  <2> QED
    BY <1>0, <1>9, <2>1, <2>2, PublishType, ReturnType, Zenon DEF TypeOK, Rollback,
       StartFailed, EngineStates
<1>10. CASE Finish
  <2>1. <<"running">> \in Seq(Events) BY DEF Events
  <2> QED
    BY <1>0, <1>10, <2>1, PublishType, ReturnType, Zenon DEF TypeOK, Finish,
       EngineStates
<1>11. ASSUME NEW p \in Procs, NEW unrouted \in BOOLEAN, WatchExit(p, unrouted)
      PROVE  TypeOK'
  <2>1. <<"down">> \in Seq(Events) /\ <<"down", "fatal">> \in Seq(Events) BY DEF Events
  <2>2. bus' \in Seq(Events) /\ Len(bus') <= QueueLen
    BY <1>11, <2>1, PublishType, Zenon DEF TypeOK, WatchExit, busVars
  <2>3. /\ watch' \in [Procs -> {"none", "wait", "backoff", "done"}]
        /\ watchPlan' \in [Procs -> Plans \cup {NoPlan}]
        /\ used' \in 0 .. RestartBudget
        /\ state' \in EngineStates
    <3>1. CASE proc # p \/ stopping BY <1>11, <3>1, Zenon DEF TypeOK, WatchExit, supVars
    <3>2. CASE ~(proc # p \/ stopping) /\ used' = used /\ watchPlan' = watchPlan
      BY <1>11, <3>2, ZenonT(30) DEF TypeOK, WatchExit, EngineStates
    <3>3. CASE ~(proc # p \/ stopping) /\ ~(used' = used /\ watchPlan' = watchPlan)
      <4>1. PICK kept \in 0 .. used :
              IF Allow(kept)
              THEN /\ used' = kept + 1 /\ state' = "recovering"
                   /\ watch' = [watch EXCEPT ![p] = "backoff"]
                   /\ watchPlan' = [watchPlan EXCEPT ![p] = plan]
              ELSE /\ used' = kept /\ state' = "failed"
                   /\ watch' = [watch EXCEPT ![p] = "done"] /\ watchPlan' = watchPlan
        BY <1>11, <3>3, Zenon DEF WatchExit
      <4> QED BY <4>1 DEF TypeOK, Allow, EngineStates
    <3> QED BY <3>1, <3>2, <3>3, Zenon
  <2> QED BY <1>0, <1>11, <2>2, <2>3 DEF TypeOK, WatchExit, supVars, opVars
<1>12. ASSUME NEW p \in Procs, WatchRestart(p) PROVE TypeOK'
  BY <1>0, <1>12 DEF TypeOK, WatchRestart, supVars, busVars
<1>13. ASSUME NEW c \in Callers, NEW op \in {"stop", "close"}, StopBegin(c, op)
      PROVE  TypeOK'
  BY <1>0, <1>13, Zenon DEF TypeOK, StopBegin, envVars, busVars
<1>14. ASSUME NEW ok \in BOOLEAN, NEW unrouted \in BOOLEAN, StopEnd(ok, unrouted)
      PROVE  TypeOK'
  BY <1>0, <1>14, ReturnType DEF TypeOK, StopEnd, StopProcess, EngineStates, Life, busVars
<1>15. CASE CloseCancel
  BY <1>0, <1>15 DEF TypeOK, CloseCancel, envVars, busVars
<1>16. ASSUME NEW p \in Procs, ProcessStep(p) PROVE TypeOK'
  BY <1>0, <1>16 DEF TypeOK, ProcessStep, Crash, Reap, ContextStop, Life, supVars,
     opVars, busVars
<1>17. CASE UNCHANGED vars
  BY <1>0, <1>17 DEF TypeOK, vars, supVars, opVars, envVars, busVars
<1> QED
  BY <1>1, <1>2, <1>3, <1>4, <1>5, <1>6, <1>7, <1>8, <1>9, <1>10, <1>11, <1>12, <1>13,
     <1>14, <1>15, <1>16, <1>17, Zenon DEF Next, Internal, HolderStep, WatchStep

-----------------------------------------------------------------------------
(***************************************************************************)
(* The inductive invariant.                                                *)
(***************************************************************************)

LEMMA OwnershipStep ==
    ASSUME IInv, [Next]_vars
    PROVE  Lock' /\ Tracked' /\ Halted' /\ Waiting'
<1> DEFINE Own == Lock /\ Tracked /\ Halted /\ Waiting
<1> SUFFICES Own' BY Zenon
<1> USE CallersAssumption DEF IInv, TypeOK, Lock, Tracked, Halted, Waiting, Live, Exited,
        StartSteps, NoProc, Procs
<1>1. ASSUME NEW c \in Callers, ApplyRefused(c) PROVE Own'
  BY <1>1, Zenon DEF ApplyRefused, supVars, envVars, busVars
<1>2. ASSUME NEW c \in Callers, NEW p \in Plans, ApplyBegin(c, p) PROVE Own'
  BY <1>2 DEF ApplyBegin, envVars, busVars
<1>3. ASSUME NEW answer \in ReloadOutcomes, Reload(answer) PROVE Own'
  BY <1>3, Zenon DEF Reload, Return
<1>4. ASSUME NEW ok \in BOOLEAN, Replace(ok) PROVE Own'
  <2>1. CASE ok BY <1>4, <2>1 DEF Replace, StopProcess, supVars
  <2>2. CASE ~ok
    <3>1. Live' = {} BY <1>4, <2>2 DEF Replace, StopProcess
    <3>2. pc' = "idle" /\ holder' = "none" BY <1>4, <2>2, Zenon DEF Replace, Return
    <3>3. Waiting' BY <1>4, <2>2, Zenon DEF Replace, StopProcess
    <3> QED BY <3>1, <3>2, <3>3, Zenon
  <2> QED BY <2>1, <2>2, Zenon
<1>5. ASSUME NEW ok \in BOOLEAN, Prepare(ok) PROVE Own'
  BY <1>5, Zenon DEF Prepare, StartFailed, Return, envVars
<1>6. ASSUME NEW ok \in BOOLEAN, Spawn(ok) PROVE Own'
  <2>1. CASE ok
    <3>1. PICK p \in Procs : /\ life[p] = "unborn" /\ life' = [life EXCEPT ![p] = "live"]
                             /\ job' = p /\ pc' = "ready"
      BY <1>6, <2>1, Zenon DEF Spawn
    <3>2. UNCHANGED <<proc, stopping, holder, watch>> BY <1>6, <2>1, Zenon DEF Spawn
    <3>3. Live' \subseteq {p} /\ \A q \in Procs : Exited(q) => Exited(q)'
      BY <1>6, <3>1, Zenon DEF Spawn
    <3>4. Halted' BY <1>6, <3>2 DEF Spawn
    <3>5. Lock' BY <1>6, <3>1, <3>2, Zenon DEF Spawn
    <3>6. Tracked' BY <3>1, <3>3, Zenon
    <3>7. Waiting' BY <3>2, <3>3, Zenon
    <3> QED BY <3>4, <3>5, <3>6, <3>7, Zenon
  <2>2. CASE ~ok BY <1>6, <2>2, Zenon DEF Spawn, StartFailed, Return
  <2> QED BY <2>1, <2>2, Zenon
<1>7. ASSUME NEW ok \in BOOLEAN, Ready(ok) PROVE Own'
  BY <1>7, Zenon DEF Ready, supVars, envVars
<1>8. ASSUME NEW ok \in BOOLEAN, Route(ok) PROVE Own'
  BY <1>8, Zenon DEF Route, busVars
<1>9. ASSUME NEW ok \in BOOLEAN, NEW unrouted \in BOOLEAN, Rollback(ok, unrouted) PROVE Own'
  BY <1>9, Zenon DEF Rollback, StopProcess, StartFailed, Return
<1>10. CASE Finish
  BY <1>10, Zenon DEF Finish, Return
<1>11. ASSUME NEW p \in Procs, NEW unrouted \in BOOLEAN, WatchExit(p, unrouted) PROVE Own'
  BY <1>11, ZenonT(30) DEF WatchExit, supVars, opVars
<1>12. ASSUME NEW p \in Procs, WatchRestart(p) PROVE Own'
  <2>1. Live' = Live /\ stopping' = stopping /\ proc' = proc /\ job' = job /\ Waiting'
    BY <1>12, Zenon DEF WatchRestart, supVars
  <2>2. CASE holder' = holder /\ pc' = pc BY <2>1, <2>2, Zenon
  <2>3. CASE ~(holder' = holder /\ pc' = pc)
    <3>1. holder = "none" /\ holder' = "restart" /\ pc' = "prepare" /\ proc = p /\ ~stopping
      BY <1>12, <2>3, Zenon DEF WatchRestart, GiveUp
    <3>2. Live = {} BY <1>12, <3>1, Zenon DEF WatchRestart
    <3> QED BY <2>1, <3>1, <3>2, Zenon
  <2> QED BY <2>2, <2>3, Zenon
<1>13. ASSUME NEW c \in Callers, NEW op \in {"stop", "close"}, StopBegin(c, op) PROVE Own'
  BY <1>13, Zenon DEF StopBegin, envVars
<1>14. ASSUME NEW ok \in BOOLEAN, NEW unrouted \in BOOLEAN, StopEnd(ok, unrouted) PROVE Own'
  <2>1. pc' = "idle" /\ holder' = "none" BY <1>14, Zenon DEF StopEnd, Return
  <2>2. Live' = {}
    <3>1. CASE job = NoProc BY <1>14, <3>1 DEF StopEnd
    <3>2. CASE job # NoProc BY <1>14, <3>2, Zenon DEF StopEnd, StopProcess
    <3> QED BY <3>1, <3>2, Zenon
  <2>3. Waiting'
    <3>1. CASE job = NoProc BY <1>14, <3>1, Zenon DEF StopEnd
    <3>2. CASE job # NoProc BY <1>14, <3>2, Zenon DEF StopEnd, StopProcess
    <3> QED BY <3>1, <3>2, Zenon
  <2> QED BY <2>1, <2>2, <2>3, Zenon
<1>15. CASE CloseCancel
  BY <1>15, Zenon DEF CloseCancel, envVars
<1>16. ASSUME NEW p \in Procs, ProcessStep(p) PROVE Own'
  <2>1. UNCHANGED <<proc, stopping, holder, pc, job, watch>>
    BY <1>16, Zenon DEF ProcessStep, Crash, Reap, ContextStop, supVars, opVars
  <2>2. Live' \subseteq Live /\ \A q \in Procs : Exited(q) => Exited(q)'
    BY <1>16, Zenon DEF ProcessStep, Crash, Reap, ContextStop
  <2> QED BY <2>1, <2>2, Zenon
<1>17. CASE UNCHANGED vars
  BY <1>17, Zenon DEF vars, supVars, opVars, envVars
<1> QED
  BY <1>1, <1>2, <1>3, <1>4, <1>5, <1>6, <1>7, <1>8, <1>9, <1>10, <1>11, <1>12, <1>13,
     <1>14, <1>15, <1>16, <1>17, Zenon DEF Next, Internal, HolderStep, WatchStep

-----------------------------------------------------------------------------
(***************************************************************************)
(* Which plan the engine runs, and who owns the routes.                    *)
(***************************************************************************)

\* The part of TypeOK that the steps below need.
Shape ==
    /\ proc \in Procs \cup {NoProc} /\ job \in Procs \cup {NoProc}
    /\ holder \in Callers \cup {"none", "restart"}
    /\ DOMAIN life = Procs /\ DOMAIN ran = Procs
    /\ DOMAIN watch = Procs /\ DOMAIN watchPlan = Procs /\ DOMAIN call = Callers

\* A handle is that of a process that was started, and watch follows it.
Born ==
    /\ proc # NoProc => life[proc] # "unborn"
    /\ job # NoProc => life[job] # "unborn"
    /\ \A p \in Procs : life[p] = "unborn" => watch[p] = "none"

\* What the holder of s.lifecycle works with.
Working ==
    /\ holder \in Callers => call[holder] = "busy"
    /\ holder \in Callers /\ pc \in StartSteps \cup {"reload", "replace"} => jobPlan = plan
    /\ pc \in {"ready", "route", "rollback", "finish"} =>
          ran[job] = jobPlan /\ watch[job] = "none"
    /\ pc \in {"stop", "close"} => proc = NoProc
    /\ pc = "reload" => watch[proc] # "backoff"

\* While the one caller's Apply stands, the engine runs its plan, a watch in its
\* backoff has read that plan, and a restart starts it.
Acked ==
    \A c \in Callers : Callers = {c} /\ call[c] = "ok" =>
        /\ proc # NoProc => ran[proc] = plan
        /\ \A p \in Procs : watch[p] = "backoff" /\ proc = p => watchPlan[p] = plan
        /\ holder = "restart" => jobPlan = plan

\* A stopped supervisor that is at rest owns no routes.
Parked == stopping /\ pc = "idle" /\ state = "stopped" => ~routed

LEMMA ShapeHolds == TypeOK => Shape
BY Zenon DEF TypeOK, Shape

LEMMA BornStep ==
    ASSUME TypeOK, Tracked, Born, [Next]_vars
    PROVE  Born'
<1>1. ASSUME NEW c \in Callers, ApplyRefused(c) PROVE Born'
  BY <1>1, ShapeHolds, Zenon DEF ApplyRefused, supVars, envVars, Shape, Born
<1>2. ASSUME NEW c \in Callers, NEW p \in Plans, ApplyBegin(c, p) PROVE Born'
  BY <1>2, ShapeHolds, Zenon DEF ApplyBegin, envVars, Shape, Born
<1>3. ASSUME NEW answer \in ReloadOutcomes, Reload(answer) PROVE Born'
  BY <1>3, ShapeHolds, Zenon DEF Reload, Return, Shape, Born
<1>4. ASSUME NEW ok \in BOOLEAN, Replace(ok) PROVE Born'
  BY <1>4, ShapeHolds, Zenon DEF Replace, StopProcess, Return, supVars, Shape, Born
<1>5. ASSUME NEW ok \in BOOLEAN, Prepare(ok) PROVE Born'
  BY <1>5, ShapeHolds, Zenon DEF Prepare, StartFailed, Return, envVars, Shape, Born
<1>6. ASSUME NEW ok \in BOOLEAN, Spawn(ok) PROVE Born'
  BY <1>6, ShapeHolds, Zenon DEF Spawn, StartFailed, Return, Shape, Born
<1>7. ASSUME NEW ok \in BOOLEAN, Ready(ok) PROVE Born'
  BY <1>7, ShapeHolds, Zenon DEF Ready, supVars, envVars, Shape, Born
<1>8. ASSUME NEW ok \in BOOLEAN, Route(ok) PROVE Born'
  BY <1>8, ShapeHolds, Zenon DEF Route, Shape, Born
<1>9. ASSUME NEW ok \in BOOLEAN, NEW unrouted \in BOOLEAN, Rollback(ok, unrouted)
      PROVE  Born'
  BY <1>9, ShapeHolds, Zenon DEF Rollback, StopProcess, StartFailed, Return, Shape, Born
<1>10. CASE Finish
  BY <1>10, ShapeHolds, BoundsAssumption DEF Finish, Return, Shape, Born, Tracked,
     Procs, NoProc
<1>11. ASSUME NEW p \in Procs, NEW unrouted \in BOOLEAN, WatchExit(p, unrouted)
      PROVE  Born'
  BY <1>11, ShapeHolds, Zenon DEF WatchExit, supVars, opVars, Shape, Born
<1>12. ASSUME NEW p \in Procs, WatchRestart(p) PROVE Born'
  BY <1>12, ShapeHolds, Zenon DEF WatchRestart, supVars, Shape, Born
<1>13. ASSUME NEW c \in Callers, NEW op \in {"stop", "close"}, StopBegin(c, op)
      PROVE  Born'
  BY <1>13, ShapeHolds, Zenon DEF StopBegin, envVars, Shape, Born
<1>14. ASSUME NEW ok \in BOOLEAN, NEW unrouted \in BOOLEAN, StopEnd(ok, unrouted)
      PROVE  Born'
  BY <1>14, ShapeHolds, Zenon DEF StopEnd, StopProcess, Return, Shape, Born
<1>15. CASE CloseCancel
  BY <1>15, ShapeHolds, Zenon DEF CloseCancel, envVars, Shape, Born
<1>16. ASSUME NEW p \in Procs, ProcessStep(p) PROVE Born'
  BY <1>16, ShapeHolds, Zenon DEF ProcessStep, Crash, Reap, ContextStop, supVars,
     opVars, Shape, Born
<1>17. CASE UNCHANGED vars
  BY <1>17, Zenon DEF vars, supVars, opVars, envVars, Shape, Born
<1> QED
  BY <1>1, <1>2, <1>3, <1>4, <1>5, <1>6, <1>7, <1>8, <1>9, <1>10, <1>11, <1>12, <1>13,
     <1>14, <1>15, <1>16, <1>17, Zenon DEF Next, Internal, HolderStep, WatchStep

LEMMA WorkingStep ==
    ASSUME TypeOK, Lock, Tracked, Waiting, Born, Working, [Next]_vars
    PROVE  Working'
<1>1. ASSUME NEW c \in Callers, ApplyRefused(c) PROVE Working'
  BY <1>1, ShapeHolds, CallersAssumption, Zenon DEF ApplyRefused, supVars, envVars,
     Shape, Working, StartSteps
<1>2. ASSUME NEW c \in Callers, NEW p \in Plans, ApplyBegin(c, p) PROVE Working'
  BY <1>2, ShapeHolds, CallersAssumption, Zenon DEF ApplyBegin, envVars, Shape, Working,
     StartSteps, Waiting, Exited, Lock, Procs, NoProc
<1>3. ASSUME NEW answer \in ReloadOutcomes, Reload(answer) PROVE Working'
  BY <1>3, ShapeHolds, CallersAssumption, Zenon DEF Reload, Return, Shape, Working,
     StartSteps, Lock
<1>4. ASSUME NEW ok \in BOOLEAN, Replace(ok) PROVE Working'
  BY <1>4, ShapeHolds, CallersAssumption, Zenon DEF Replace, StopProcess, Return,
     supVars, Shape, Working, StartSteps
<1>5. ASSUME NEW ok \in BOOLEAN, Prepare(ok) PROVE Working'
  BY <1>5, ShapeHolds, CallersAssumption, Zenon DEF Prepare, StartFailed, Return,
     envVars, Shape, Working, StartSteps
<1>6. ASSUME NEW ok \in BOOLEAN, Spawn(ok) PROVE Working'
  BY <1>6, ShapeHolds, CallersAssumption DEF Spawn, StartFailed, Return, Shape, Working,
     StartSteps, Born, Lock
<1>7. ASSUME NEW ok \in BOOLEAN, Ready(ok) PROVE Working'
  BY <1>7, ShapeHolds, CallersAssumption, Zenon DEF Ready, supVars, envVars, Shape,
     Working, StartSteps
<1>8. ASSUME NEW ok \in BOOLEAN, Route(ok) PROVE Working'
  BY <1>8, ShapeHolds, CallersAssumption, Zenon DEF Route, Shape, Working, StartSteps
<1>9. ASSUME NEW ok \in BOOLEAN, NEW unrouted \in BOOLEAN, Rollback(ok, unrouted)
      PROVE  Working'
  BY <1>9, ShapeHolds, CallersAssumption, Zenon DEF Rollback, StopProcess, StartFailed,
     Return, Shape, Working, StartSteps
<1>10. CASE Finish
  BY <1>10, ShapeHolds, CallersAssumption, Zenon DEF Finish, Return, Shape, Working,
     StartSteps
<1>11. ASSUME NEW p \in Procs, NEW unrouted \in BOOLEAN, WatchExit(p, unrouted)
      PROVE  Working'
  BY <1>11, ShapeHolds, CallersAssumption, Zenon DEF WatchExit, supVars, opVars, Shape,
     Working, StartSteps, Lock
<1>12. ASSUME NEW p \in Procs, WatchRestart(p) PROVE Working'
  BY <1>12, ShapeHolds, CallersAssumption, SMTT(30) DEF WatchRestart, supVars, Shape, Working,
     StartSteps, Lock
<1>13. ASSUME NEW c \in Callers, NEW op \in {"stop", "close"}, StopBegin(c, op)
      PROVE  Working'
  BY <1>13, ShapeHolds, CallersAssumption, Zenon DEF StopBegin, envVars, Shape, Working,
     StartSteps
<1>14. ASSUME NEW ok \in BOOLEAN, NEW unrouted \in BOOLEAN, StopEnd(ok, unrouted)
      PROVE  Working'
  BY <1>14, ShapeHolds, CallersAssumption, Zenon DEF StopEnd, StopProcess, Return,
     Shape, Working, StartSteps
<1>15. CASE CloseCancel
  BY <1>15, ShapeHolds, CallersAssumption, Zenon DEF CloseCancel, envVars, Shape,
     Working, StartSteps
<1>16. ASSUME NEW p \in Procs, ProcessStep(p) PROVE Working'
  BY <1>16, ShapeHolds, CallersAssumption, Zenon DEF ProcessStep, Crash, Reap,
     ContextStop, supVars, opVars, Shape, Working, StartSteps
<1>17. CASE UNCHANGED vars
  BY <1>17, Zenon DEF vars, supVars, opVars, envVars, Shape, Working, StartSteps
<1> QED
  BY <1>1, <1>2, <1>3, <1>4, <1>5, <1>6, <1>7, <1>8, <1>9, <1>10, <1>11, <1>12, <1>13,
     <1>14, <1>15, <1>16, <1>17, Zenon DEF Next, Internal, HolderStep, WatchStep

LEMMA AckedStep ==
    ASSUME TypeOK, Lock, Tracked, Born, Working, Acked, [Next]_vars
    PROVE  Acked'
<1>1. ASSUME NEW c \in Callers, ApplyRefused(c) PROVE Acked'
  BY <1>1, ShapeHolds, CallersAssumption, Zenon DEF ApplyRefused, supVars, envVars,
     Shape, Acked
<1>2. ASSUME NEW c \in Callers, NEW p \in Plans, ApplyBegin(c, p) PROVE Acked'
  BY <1>2, ShapeHolds, CallersAssumption, Zenon DEF ApplyBegin, envVars, Shape, Acked
<1>3. ASSUME NEW answer \in ReloadOutcomes, Reload(answer) PROVE Acked'
  <2> SUFFICES ASSUME NEW d \in Callers, Callers = {d}, call'[d] = "ok"
               PROVE  /\ proc' # NoProc => ran'[proc'] = plan'
                      /\ \A q \in Procs :
                            watch'[q] = "backoff" /\ proc' = q => watchPlan'[q] = plan'
                      /\ holder' = "restart" => jobPlan' = plan'
    BY Zenon DEF Acked
  <2>1. Shape
    BY ShapeHolds, Zenon
  <2>2. holder = d /\ call[d] = "busy" /\ jobPlan = plan /\ watch[proc] # "backoff"
    BY <1>3, <2>1, Zenon DEF Reload, Shape, Lock, StartSteps, Working
  <2>3. answer = "ok"
    BY <1>3, <2>2, Zenon DEF Reload, Return
  <2>4. /\ ran' = [ran EXCEPT ![proc] = jobPlan] /\ holder' = "none" /\ proc \in Procs
        /\ UNCHANGED <<proc, plan, watch, watchPlan>>
    BY <1>3, <2>3, Zenon DEF Reload, Return, Tracked
  <2> QED BY <2>1, <2>2, <2>4, Zenon DEF Shape
<1>4. ASSUME NEW ok \in BOOLEAN, Replace(ok) PROVE Acked'
  BY <1>4, ShapeHolds, CallersAssumption, Zenon DEF Replace, StopProcess, Return,
     supVars, Shape, Acked, Lock, StartSteps
<1>5. ASSUME NEW ok \in BOOLEAN, Prepare(ok) PROVE Acked'
  BY <1>5, ShapeHolds, CallersAssumption, Zenon DEF Prepare, StartFailed, Return,
     envVars, Shape, Acked
<1>6. ASSUME NEW ok \in BOOLEAN, Spawn(ok) PROVE Acked'
  BY <1>6, ShapeHolds, CallersAssumption, Zenon DEF Spawn, StartFailed, Return, Shape, Acked,
     Born
<1>7. ASSUME NEW ok \in BOOLEAN, Ready(ok) PROVE Acked'
  BY <1>7, ShapeHolds, CallersAssumption, Zenon DEF Ready, supVars, envVars, Shape,
     Acked
<1>8. ASSUME NEW ok \in BOOLEAN, Route(ok) PROVE Acked'
  BY <1>8, ShapeHolds, CallersAssumption, Zenon DEF Route, Shape, Acked
<1>9. ASSUME NEW ok \in BOOLEAN, NEW unrouted \in BOOLEAN, Rollback(ok, unrouted)
      PROVE  Acked'
  <2> SUFFICES ASSUME NEW d \in Callers, Callers = {d}, call'[d] = "ok"
               PROVE  /\ proc' # NoProc => ran'[proc'] = plan'
                      /\ \A q \in Procs :
                            watch'[q] = "backoff" /\ proc' = q => watchPlan'[q] = plan'
                      /\ holder' = "restart" => jobPlan' = plan'
    BY Zenon DEF Acked
  <2>1. Shape
    BY ShapeHolds, Zenon
  <2>2. holder = "restart" /\ call[d] = "ok"
    BY <1>9, <2>1, Zenon DEF Rollback, StartFailed, Return, Shape, Lock
  <2>3. jobPlan = plan /\ ran[job] = plan /\ watch[job] = "none"
    BY <1>9, <2>2, Zenon DEF Rollback, Acked, Working
  <2>4. /\ proc' \in {proc, job} /\ holder' = "none"
        /\ UNCHANGED <<ran, plan, watch, watchPlan>>
    BY <1>9, Zenon DEF Rollback, StartFailed, Return
  <2> QED BY <2>2, <2>3, <2>4, Zenon DEF Acked
<1>10. CASE Finish
  <2> SUFFICES ASSUME NEW d \in Callers, Callers = {d}, call'[d] = "ok"
               PROVE  /\ proc' # NoProc => ran'[proc'] = plan'
                      /\ \A q \in Procs :
                            watch'[q] = "backoff" /\ proc' = q => watchPlan'[q] = plan'
                      /\ holder' = "restart" => jobPlan' = plan'
    BY Zenon DEF Acked
  <2>1. Shape
    BY ShapeHolds, Zenon
  <2>2. holder = d \/ (holder = "restart" /\ call[d] = "ok")
    BY <1>10, <2>1, Zenon DEF Finish, Return, Shape, Lock
  <2>3. jobPlan = plan /\ ran[job] = plan /\ job \in Procs
    BY <1>10, <2>2, Zenon DEF Finish, Acked, Working, StartSteps, Tracked
  <2>4. /\ proc' = job /\ holder' = "none" /\ watch' = [watch EXCEPT ![job] = "wait"]
        /\ UNCHANGED <<ran, plan, watchPlan>>
    BY <1>10, Zenon DEF Finish, Return
  <2> QED BY <2>1, <2>3, <2>4, Zenon DEF Shape
<1>11. ASSUME NEW p \in Procs, NEW unrouted \in BOOLEAN, WatchExit(p, unrouted)
      PROVE  Acked'
  BY <1>11, ShapeHolds, CallersAssumption, Zenon DEF WatchExit, supVars, opVars, Shape, Acked
<1>12. ASSUME NEW p \in Procs, WatchRestart(p) PROVE Acked'
  BY <1>12, ShapeHolds, CallersAssumption, Zenon DEF WatchRestart, supVars, Shape,
     Acked, GiveUp
<1>13. ASSUME NEW c \in Callers, NEW op \in {"stop", "close"}, StopBegin(c, op)
      PROVE  Acked'
  BY <1>13, ShapeHolds, CallersAssumption, Zenon DEF StopBegin, envVars, Shape, Acked
<1>14. ASSUME NEW ok \in BOOLEAN, NEW unrouted \in BOOLEAN, StopEnd(ok, unrouted)
      PROVE  Acked'
  <2> SUFFICES ASSUME NEW d \in Callers, Callers = {d}, call'[d] = "ok"
               PROVE  /\ proc' # NoProc => ran'[proc'] = plan'
                      /\ \A q \in Procs :
                            watch'[q] = "backoff" /\ proc' = q => watchPlan'[q] = plan'
                      /\ holder' = "restart" => jobPlan' = plan'
    BY Zenon DEF Acked
  <2>1. Shape
    BY ShapeHolds, Zenon
  <2>2. holder = d /\ proc = NoProc
    BY <1>14, <2>1, Zenon DEF StopEnd, Shape, Lock, StartSteps, Working
  <2>3. ok /\ holder' = "none"
    BY <1>14, <2>2, Zenon DEF StopEnd, Return
  <2>4. proc' = NoProc
    <3>1. CASE job = NoProc
      BY <1>14, <2>2, <3>1, Zenon DEF StopEnd
    <3>2. CASE job # NoProc
      BY <1>14, <2>1, <2>3, <3>2, Zenon DEF StopEnd, StopProcess, Shape
    <3> QED BY <3>1, <3>2, Zenon
  <2> QED BY <2>3, <2>4, BoundsAssumption DEF Procs, NoProc
<1>15. CASE CloseCancel
  BY <1>15, ShapeHolds, CallersAssumption, Zenon DEF CloseCancel, envVars, Shape, Acked
<1>16. ASSUME NEW p \in Procs, ProcessStep(p) PROVE Acked'
  BY <1>16, ShapeHolds, CallersAssumption, Zenon DEF ProcessStep, Crash, Reap,
     ContextStop, supVars, opVars, Shape, Acked
<1>17. CASE UNCHANGED vars
  BY <1>17, Zenon DEF vars, supVars, opVars, envVars, Shape, Acked
<1> QED
  BY <1>1, <1>2, <1>3, <1>4, <1>5, <1>6, <1>7, <1>8, <1>9, <1>10, <1>11, <1>12, <1>13,
     <1>14, <1>15, <1>16, <1>17, Zenon DEF Next, Internal, HolderStep, WatchStep

LEMMA ParkedStep ==
    ASSUME Lock, Halted, Parked, [Next]_vars
    PROVE  Parked'
<1>1. ASSUME NEW c \in Callers, ApplyRefused(c) PROVE Parked'
  BY <1>1, Zenon DEF ApplyRefused, supVars, envVars, Parked
<1>2. ASSUME NEW c \in Callers, NEW p \in Plans, ApplyBegin(c, p) PROVE Parked'
  BY <1>2, Zenon DEF ApplyBegin, envVars, Parked
<1>3. ASSUME NEW answer \in ReloadOutcomes, Reload(answer) PROVE Parked'
  BY <1>3, Zenon DEF Reload, Return, Parked
<1>4. ASSUME NEW ok \in BOOLEAN, Replace(ok) PROVE Parked'
  BY <1>4, Zenon DEF Replace, StopProcess, Return, supVars, Parked, Halted
<1>5. ASSUME NEW ok \in BOOLEAN, Prepare(ok) PROVE Parked'
  BY <1>5, Zenon DEF Prepare, StartFailed, Return, envVars, Parked
<1>6. ASSUME NEW ok \in BOOLEAN, Spawn(ok) PROVE Parked'
  BY <1>6, Zenon DEF Spawn, StartFailed, Return, Parked
<1>7. ASSUME NEW ok \in BOOLEAN, Ready(ok) PROVE Parked'
  BY <1>7, Zenon DEF Ready, supVars, envVars, Parked
<1>8. ASSUME NEW ok \in BOOLEAN, Route(ok) PROVE Parked'
  BY <1>8, Zenon DEF Route, Parked
<1>9. ASSUME NEW ok \in BOOLEAN, NEW unrouted \in BOOLEAN, Rollback(ok, unrouted)
      PROVE  Parked'
  BY <1>9, Zenon DEF Rollback, StopProcess, StartFailed, Return, Parked
<1>10. CASE Finish
  BY <1>10, Zenon DEF Finish, Return, Parked
<1>11. ASSUME NEW p \in Procs, NEW unrouted \in BOOLEAN, WatchExit(p, unrouted)
      PROVE  Parked'
  BY <1>11, Zenon DEF WatchExit, supVars, opVars, Parked, Unroute
<1>12. ASSUME NEW p \in Procs, WatchRestart(p) PROVE Parked'
  BY <1>12, Zenon DEF WatchRestart, supVars, Parked
<1>13. ASSUME NEW c \in Callers, NEW op \in {"stop", "close"}, StopBegin(c, op)
      PROVE  Parked'
  BY <1>13, Zenon DEF StopBegin, envVars, Parked
<1>14. ASSUME NEW ok \in BOOLEAN, NEW unrouted \in BOOLEAN, StopEnd(ok, unrouted)
      PROVE  Parked'
  BY <1>14, Zenon DEF StopEnd, StopProcess, Return, Parked, Unroute
<1>15. CASE CloseCancel
  BY <1>15, Zenon DEF CloseCancel, envVars, Parked
<1>16. ASSUME NEW p \in Procs, ProcessStep(p) PROVE Parked'
  BY <1>16, Zenon DEF ProcessStep, Crash, Reap, ContextStop, supVars, opVars, Parked
<1>17. CASE UNCHANGED vars
  BY <1>17, Zenon DEF vars, supVars, opVars, envVars, Parked
<1> QED
  BY <1>1, <1>2, <1>3, <1>4, <1>5, <1>6, <1>7, <1>8, <1>9, <1>10, <1>11, <1>12, <1>13,
     <1>14, <1>15, <1>16, <1>17, Zenon DEF Next, Internal, HolderStep, WatchStep

LEMMA InitIInv == Init => IInv
<1> SUFFICES ASSUME Init PROVE IInv BY Zenon
<1>1. FlagsOK BY Zenon DEF Init, FlagsOK
<1>2. TypeOK
  BY <1>1, PlansAssumption, BoundsAssumption
     DEF Init, TypeOK, EngineStates, Life, Events, NoPlan, NoProc, Procs
<1>3. Lock /\ Tracked /\ Halted /\ Waiting
  BY Zenon DEF Init, Lock, Tracked, Halted, Waiting, Live, StartSteps
<1> QED BY <1>2, <1>3, Zenon DEF IInv

LEMMA Inductive == Spec => []IInv
<1>1. IInv /\ [Next]_vars => IInv' BY TypeStep, OwnershipStep, Zenon DEF IInv
<1> QED BY InitIInv, <1>1, PTL DEF Spec

LEMMA TrackedIsOne == IInv => OneEngine
<1> SUFFICES ASSUME IInv PROVE OneEngine BY Zenon
<1>1. Live \subseteq {proc} \/ Live \subseteq {job} \/ Live = {}
  BY Zenon DEF IInv, TypeOK, Tracked
<1> QED BY <1>1, Zenon DEF OneEngine

LEMMA PlanInit == Init => Born /\ Working /\ Acked /\ Parked
<1> SUFFICES ASSUME Init PROVE Born /\ Working /\ Acked /\ Parked BY Zenon
<1>1. Born /\ Parked BY Zenon DEF Init, Born, Parked
<1>2. Working BY CallersAssumption, SMT DEF Init, Working, StartSteps
<1>3. Acked BY SMT DEF Init, Acked
<1> QED BY <1>1, <1>2, <1>3, Zenon

LEMMA PlanInductive == Spec => [](Born /\ Working /\ Acked /\ Parked)
<1> DEFINE PInv == Born /\ Working /\ Acked /\ Parked
<1>1. Init => PInv BY PlanInit, Zenon
<1>2. IInv /\ PInv /\ [Next]_vars => PInv'
  <2> SUFFICES ASSUME IInv, PInv, [Next]_vars PROVE PInv' BY Zenon
  <2>1. TypeOK /\ Lock /\ Tracked /\ Halted /\ Waiting BY Zenon DEF IInv
  <2> QED BY <2>1, BornStep, WorkingStep, AckedStep, ParkedStep, Zenon
<1> QED BY Inductive, <1>1, <1>2, PTL DEF Spec

-----------------------------------------------------------------------------
(***************************************************************************)
(* The results.                                                            *)
(***************************************************************************)

\* Every variable of the supervisor keeps its type, the restart budget is never
\* exceeded and no event queue outgrows its capacity.
THEOREM TypeCorrect == Spec => []TypeOK
<1>1. IInv => TypeOK BY Zenon DEF IInv
<1> QED BY Inductive, <1>1, PTL

\* At most one engine process runs, and s.proc or the operation in progress
\* always holds its handle: no order of Apply, Stop, Close, exits and delayed
\* restarts starts a second one or loses the first.
THEOREM SingleEngine == Spec => []OneEngine
BY Inductive, TrackedIsOne, PTL

\* After Stop or Close no engine process runs until the next Apply, whatever a
\* watch goroutine was waiting to do when they were called.
THEOREM StopHolds == Spec => []StopIsFinal
<1>1. IInv => StopIsFinal BY Zenon DEF IInv, Halted, StopIsFinal
<1> QED BY Inductive, <1>1, PTL

\* When the one caller's Apply has returned nil, the engine that runs is running
\* that plan, also after watch replaced a crashed process: the restart uses the
\* plan the watch goroutine read, and no Apply came between.
THEOREM AckedPlanHolds == Spec => []AckedPlanRuns
<1>1. Acked => AckedPlanRuns BY Zenon DEF Acked, AckedPlanRuns
<1> QED BY PlanInductive, <1>1, PTL

\* A supervisor that has stopped owns no routes: Stop records "stopped" only when
\* unroute succeeded, and no delayed restart routes after it.
THEOREM StopFreesRoutes == Spec => []StopReleasesRoutes
<1>1. IInv /\ Parked => StopReleasesRoutes
  BY Zenon DEF IInv, Lock, Parked, StopReleasesRoutes
<1> QED BY Inductive, PlanInductive, <1>1, PTL

=============================================================================
