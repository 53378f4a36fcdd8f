------------------------------ MODULE Manager -------------------------------
(***************************************************************************)
(* core/session.Manager and the RPC handlers of core/control that go       *)
(* through it: Connect, Disconnect, SetKillSwitch, and App.Close.          *)
(*                                                                         *)
(* Every client is one goroutine of the gRPC server.  Connect and          *)
(* Disconnect exclude each other by m.busy, not by a lock, so that the     *)
(* loser fails at once; SetKillSwitch does not look at m.busy.  A session  *)
(* is what its manager can tell: its state, whether it owns the guard and  *)
(* an engine (or its routes), what the engine reports, whether Stop was    *)
(* called.  Session.tla has the detail.  All sessions share one guard      *)
(* (Guard.tla).                                                            *)
(***************************************************************************)
EXTENDS Guard, FiniteSets

CONSTANTS
    Clients,      \* goroutines that serve a request
    App,          \* the goroutine that runs App.Close
    MaxSessions,  \* bound: sessions created in one behaviour
    MaxLate       \* bound: sessions whose engine is applied after their Stop

ASSUME ManagerAssumption == App \notin Clients /\ MaxSessions \in Nat /\ MaxLate \in Nat /\ Networks # {}

Sessions == 1 .. MaxSessions
None == 0       \* no session; as a name in a request: any session
Actors == Clients \cup {App}
TheNetwork == CHOOSE n \in Networks : TRUE

VARIABLES
    busy,      \* m.busy
    current,   \* m.current
    created,   \* sessions made so far
    st,        \* s.state of each session
    kill,      \* s.status.KillSwitch
    owns,      \* s.guardApplied
    eng,       \* the engine runs, or has routes or a child left
    still,     \* eng.State() is StateStopped; read once Stop was called
    ran,       \* the session was connected: its loop and its Select may Apply
    late,      \* such an Apply got the engine after the session's last eng.Stop
    halted,    \* s.stopping
    lock,      \* s.guardMu is held by a SetKillSwitch
    pc,        \* where each goroutine is
    op,        \* what it serves
    named,     \* the session its request names, or None
    target,    \* the session it works on
    failing    \* the error its Stop or Start will return

engines == <<eng, still, ran, late>>
sessions == <<created, st, kill, owns, engines, halted, lock>>
handlers == <<pc, op, named, target, failing>>
mgrVars == <<guardVars, busy, current, sessions, handlers>>

\* The program counters inside Manager.Connect and Manager.Disconnect.
Inside == {"build", "mark", "engine", "restore", "leave", "stopped", "start", "arm",
           "run", "undo", "failed", "up"}

ManagerTypeOK ==
    /\ GuardTypeOK
    /\ busy \in BOOLEAN /\ current \in 0 .. created /\ created \in 0 .. MaxSessions
    /\ st \in [Sessions -> {"disconnected", "connecting", "connected", "failed"}]
    /\ kill \in [Sessions -> BOOLEAN] /\ owns \in [Sessions -> BOOLEAN]
    /\ eng \in [Sessions -> BOOLEAN] /\ still \in [Sessions -> BOOLEAN]
    /\ ran \in [Sessions -> BOOLEAN] /\ late \in [Sessions -> BOOLEAN]
    /\ halted \in [Sessions -> BOOLEAN]
    /\ lock \in [Sessions -> BOOLEAN]
    /\ pc \in [Actors -> Inside \cup {"idle", "disconnect", "check", "kill", "killing",
                                      "drain", "exited"}]
    /\ op \in [Actors -> {"none", "connect", "cleanup", "disconnect", "on", "off", "close"}]
    /\ named \in [Actors -> Sessions \cup {None}]
    /\ target \in [Actors -> Sessions \cup {None}]
    /\ failing \in [Actors -> BOOLEAN]
    /\ busy <=> \E c \in Actors : pc[c] \in Inside
    /\ \A s \in Sessions : lock[s] <=> \E c \in Actors : pc[c] = "killing" /\ target[c] = s

ManagerInit ==
    /\ GuardInit
    /\ busy = FALSE /\ current = None /\ created = 0
    /\ st = [s \in Sessions |-> "disconnected"]
    /\ kill = [s \in Sessions |-> FALSE] /\ owns = [s \in Sessions |-> FALSE]
    /\ eng = [s \in Sessions |-> FALSE] /\ still = [s \in Sessions |-> FALSE]
    /\ ran = [s \in Sessions |-> FALSE] /\ late = [s \in Sessions |-> FALSE]
    /\ halted = [s \in Sessions |-> FALSE]
    /\ lock = [s \in Sessions |-> FALSE]
    /\ pc = [c \in Actors |-> "idle"] /\ op = [c \in Actors |-> "none"]
    /\ named = [c \in Actors |-> None] /\ target = [c \in Actors |-> None]
    /\ failing = [c \in Actors |-> FALSE]

Goto(c, label) == pc' = [pc EXCEPT ![c] = label]

\* The handler returns; App goes on with GracefulStop instead.
Reply(c) ==
    /\ pc' = [pc EXCEPT ![c] = IF c = App THEN "drain" ELSE "idle"]
    /\ op' = [op EXCEPT ![c] = "none"]
    /\ named' = [named EXCEPT ![c] = None] /\ target' = [target EXCEPT ![c] = None]
    /\ failing' = [failing EXCEPT ![c] = FALSE]

\* GracefulStop refuses new requests.
Serving == pc[App] \notin {"drain", "exited"}

Running == pc[App] # "exited"

-----------------------------------------------------------------------------
(***************************************************************************)
(* Manager.Connect.                                                        *)
(***************************************************************************)

\* The loser of m.busy gets an error and changes nothing.
Connect(c) ==
    /\ pc[c] = "idle" /\ Serving /\ ~busy
    /\ busy' = TRUE
    /\ Goto(c, "build") /\ op' = [op EXCEPT ![c] = "connect"]
    /\ target' = [target EXCEPT ![c] = current]
    /\ UNCHANGED <<guardVars, current, sessions, named, failing>>

BuildOverOld(c, ok, on) ==
    /\ pc[c] = "build" /\ ok /\ created < MaxSessions
    /\ created' = created + 1
    /\ kill' = [kill EXCEPT ![created'] = on]
    /\ Goto(c, "start")
    /\ UNCHANGED <<guardVars, busy, current, st, owns, engines, halted, lock, op, named, target, failing>>

\* PrepareTun, Factory, New, Validate and ctx.Err: the session that runs is
\* untouched until all of them have succeeded.
Build(c, ok, on) ==
    /\ pc[c] = "build"
    /\ IF ok /\ created < MaxSessions
       THEN /\ created' = created + 1
            /\ kill' = [kill EXCEPT ![created'] = on]
            /\ Goto(c, IF target[c] = None THEN "start" ELSE "mark")
            /\ UNCHANGED <<busy, op, named, target, failing>>
       ELSE ~ok /\ ~on /\ busy' = FALSE /\ Reply(c) /\ UNCHANGED <<created, kill>>
    /\ UNCHANGED <<guardVars, current, st, owns, engines, halted, lock>>

\* m.current is cleared; Session.Start begins.
StartSession(c, valid) ==
    /\ pc[c] = "start"
    /\ current' = None
    /\ target' = [target EXCEPT ![c] = created]
    /\ st' = [st EXCEPT ![created] = IF valid THEN "connecting" ELSE "failed"]
    /\ owns' = [owns EXCEPT ![created] = valid]
    /\ Goto(c, IF valid THEN "arm" ELSE "failed")
    /\ UNCHANGED <<guardVars, busy, created, kill, engines, halted, lock, op, named, failing>>

ArmSession(c, outcome) ==
    /\ pc[c] = "arm"
    /\ Apply(kill[target[c]], TheNetwork, outcome)
    /\ Goto(c, IF outcome = "ok" THEN "run" ELSE "failed")
    /\ UNCHANGED <<busy, current, sessions, op, named, target, failing>>

\* eng.Apply and TunUp; a failure may leave a child or routes behind.
RunEngine(c, ok) ==
    /\ pc[c] = "run"
    /\ \E left \in BOOLEAN : (ok => left) /\ eng' = [eng EXCEPT ![target[c]] = left]
    /\ still' = [still EXCEPT ![target[c]] = FALSE]
    /\ Goto(c, IF ok THEN "up" ELSE "undo")
    /\ UNCHANGED <<guardVars, busy, current, created, st, kill, owns, ran, late, halted, lock,
                   op, named, target, failing>>

\* restoreGuard of session s, under s.guardMu.
RestoreSession(s, outcome) ==
    /\ ~lock[s]
    /\ IF owns[s] THEN Restore(outcome) /\ owns' = [owns EXCEPT ![s] = outcome # "ok"]
       ELSE outcome = "ok" /\ UNCHANGED <<guardVars, owns>>

UndoStart(c, outcome) ==
    /\ pc[c] = "undo"
    /\ RestoreSession(target[c], outcome)
    /\ Goto(c, "failed")
    /\ UNCHANGED <<busy, current, created, st, kill, engines, halted, lock, op, named, target, failing>>

\* Start failed: it is stopped, because it may still own something.
StartFailed(c) ==
    /\ pc[c] = "failed"
    /\ st' = [st EXCEPT ![target[c]] = "failed"]
    /\ op' = [op EXCEPT ![c] = "cleanup"] /\ Goto(c, "mark")
    /\ UNCHANGED <<guardVars, busy, current, created, kill, owns, engines, halted, lock,
                   named, target, failing>>

Started(c) ==
    /\ pc[c] = "up"
    /\ st' = [st EXCEPT ![target[c]] = "connected"] /\ ran' = [ran EXCEPT ![target[c]] = TRUE]
    /\ current' = target[c] /\ busy' = FALSE
    /\ Reply(c)
    /\ UNCHANGED <<guardVars, created, kill, owns, eng, still, late, halted, lock>>

-----------------------------------------------------------------------------
(***************************************************************************)
(* Server.Disconnect, Manager.Disconnect and Session.Stop.                 *)
(***************************************************************************)

\* A request that names a session which is not the current one is rejected.
Disconnect(c, name) ==
    /\ pc[c] = "idle" /\ Serving /\ c # App
    /\ name # None => name = current
    /\ Goto(c, "disconnect") /\ op' = [op EXCEPT ![c] = "disconnect"]
    /\ named' = [named EXCEPT ![c] = name]
    /\ UNCHANGED <<guardVars, busy, current, sessions, target, failing>>

DisconnectKeepsBusy(c) ==
    /\ pc[c] = "disconnect"
    /\ busy' = TRUE
    /\ IF busy \/ current = None THEN Reply(c)
       ELSE /\ target' = [target EXCEPT ![c] = current]
            /\ Goto(c, "mark") /\ UNCHANGED <<op, named, failing>>
    /\ UNCHANGED <<guardVars, current, sessions>>

DisconnectBegin(c) ==
    /\ pc[c] = "disconnect"
    /\ IF busy \/ current = None
       THEN Reply(c) /\ UNCHANGED busy
       ELSE /\ busy' = TRUE /\ target' = [target EXCEPT ![c] = current]
            /\ Goto(c, "mark") /\ UNCHANGED <<op, named, failing>>
    /\ UNCHANGED <<guardVars, current, sessions>>

StopMarkOnce(c) ==
    /\ pc[c] = "mark"
    /\ halted' = [halted EXCEPT ![target[c]] = TRUE]
    /\ Goto(c, IF halted[target[c]] THEN "restore" ELSE "engine")
    /\ failing' = [failing EXCEPT ![c] = FALSE]
    /\ UNCHANGED <<guardVars, busy, current, created, st, kill, owns, engines, lock, op, named, target>>

\* A repeated Stop leaves an engine alone that reports it is stopped.
StopMark(c) ==
    /\ pc[c] = "mark"
    /\ halted' = [halted EXCEPT ![target[c]] = TRUE]
    /\ Goto(c, IF halted[target[c]] /\ still[target[c]] THEN "restore" ELSE "engine")
    /\ failing' = [failing EXCEPT ![c] = FALSE]
    /\ UNCHANGED <<guardVars, busy, current, created, st, kill, owns, engines, lock, op, named, target>>

\* eng.Stop, which can fail only while something is left to stop.  After an
\* error a first Stop restores the guard nevertheless, a repeated one (the
\* state is "disconnected") returns.
StopEngine(c, ok) ==
    /\ pc[c] = "engine" /\ (ok \/ eng[target[c]])
    /\ eng' = [eng EXCEPT ![target[c]] = ~ok]
    /\ still' = [still EXCEPT ![target[c]] = ok] /\ late' = [late EXCEPT ![target[c]] = FALSE]
    /\ failing' = [failing EXCEPT ![c] = ~ok]
    /\ Goto(c, IF ~ok /\ st[target[c]] = "disconnected" THEN "stopped" ELSE "restore")
    /\ UNCHANGED <<guardVars, busy, current, created, st, kill, owns, ran, halted, lock, op, named, target>>

StopRestore(c, outcome) ==
    /\ pc[c] = "restore"
    /\ RestoreSession(target[c], outcome)
    /\ failing' = [failing EXCEPT ![c] = @ \/ outcome # "ok"]
    /\ Goto(c, IF st[target[c]] = "disconnected" THEN "stopped" ELSE "leave")
    /\ UNCHANGED <<busy, current, created, st, kill, engines, halted, lock, op, named, target>>

\* Disconnected, whatever failed; eng.Close tries to stop the engine again.
StopLeave(c) ==
    /\ pc[c] = "leave"
    /\ st' = [st EXCEPT ![target[c]] = "disconnected"]
    /\ \E left \in {FALSE, eng[target[c]]} :
          eng' = [eng EXCEPT ![target[c]] = left] /\ still' = [still EXCEPT ![target[c]] = ~left]
    /\ Goto(c, "stopped")
    /\ UNCHANGED <<guardVars, busy, current, created, kill, owns, ran, late, halted, lock,
                   op, named, target, failing>>

\* What the manager does with the answer of Stop: a session that could not be
\* stopped stays the current one, so that a later request can try again.
Stopped(c) ==
    /\ pc[c] = "stopped"
    /\ IF op[c] = "connect" /\ ~failing[c]
       THEN Goto(c, "start") /\ UNCHANGED <<busy, current, op, named, target, failing>>
       ELSE /\ current' = IF op[c] = "connect" THEN current
                          ELSE IF failing[c] THEN target[c] ELSE None
            /\ busy' = FALSE /\ Reply(c)
    /\ UNCHANGED <<guardVars, sessions>>

-----------------------------------------------------------------------------
(***************************************************************************)
(* Server.SetKillSwitch: m.current is read here and again by checkSession. *)
(***************************************************************************)

SetKillSwitch(c, on, name) ==
    /\ pc[c] = "idle" /\ Serving /\ c # App /\ current # None
    /\ target' = [target EXCEPT ![c] = current] /\ named' = [named EXCEPT ![c] = name]
    /\ op' = [op EXCEPT ![c] = IF on THEN "on" ELSE "off"] /\ Goto(c, "check")
    /\ UNCHANGED <<guardVars, busy, current, sessions, failing>>

CheckSession(c) ==
    /\ pc[c] = "check"
    /\ IF named[c] \in {None, current}
       THEN Goto(c, "kill") /\ UNCHANGED <<op, named, target, failing>>
       ELSE Reply(c)
    /\ UNCHANGED <<guardVars, busy, current, sessions>>

\* Session.SetKillSwitch refuses a session that is stopping or resting.
AcceptAll(s, on) == FALSE
Refused(s, on) ==
    halted[s] \/ IF on THEN st[s] \in {"failed", "disconnected"} ELSE st[s] = "disconnected"

KillBegin(c) ==
    /\ pc[c] = "kill" /\ ~lock[target[c]]
    /\ IF Refused(target[c], op[c] = "on")
       THEN Reply(c) /\ UNCHANGED lock
       ELSE /\ lock' = [lock EXCEPT ![target[c]] = TRUE] /\ Goto(c, "killing")
            /\ UNCHANGED <<op, named, target, failing>>
    /\ UNCHANGED <<guardVars, busy, current, created, st, kill, owns, engines, halted>>

KillEnd(c, outcome) ==
    /\ pc[c] = "killing"
    /\ Apply(op[c] = "on", TheNetwork, outcome)
    /\ lock' = [lock EXCEPT ![target[c]] = FALSE]
    /\ owns' = [owns EXCEPT ![target[c]] = @ \/ outcome = "ok"]
    /\ kill' = [kill EXCEPT ![target[c]] = IF outcome = "ok" THEN op[c] = "on" ELSE @]
    /\ Reply(c)
    /\ UNCHANGED <<busy, current, created, st, engines, halted>>

-----------------------------------------------------------------------------
\* The engine of a connected session is beyond recovery (Session.fail).
SessionFails(s) ==
    /\ Running /\ st[s] = "connected"
    /\ st' = [st EXCEPT ![s] = "failed"]
    /\ \E left \in {FALSE, eng[s]} : eng' = [eng EXCEPT ![s] = left]
    /\ UNCHANGED <<guardVars, busy, current, created, kill, owns, still, ran, late, halted, lock, handlers>>

\* An Apply that a renewal of the loop or a Select began before Stop gets the
\* lifecycle after it: it clears the supervisor's stopping and may start.
LateApply(s) ==
    /\ Running /\ halted[s] /\ ran[s] /\ ~late[s]
    /\ Cardinality({t \in Sessions : late[t]}) < MaxLate
    /\ late' = [late EXCEPT ![s] = TRUE]
    /\ \E left \in BOOLEAN : eng' = [eng EXCEPT ![s] = left]
    /\ still' = [still EXCEPT ![s] = FALSE]
    /\ UNCHANGED <<guardVars, busy, current, created, st, kill, owns, ran, halted, lock, handlers>>

\* watch after Close has cancelled its context: it reports an engine it has not
\* stopped, and whose routes are left, as stopped.
WatchCancelled(s) ==
    /\ Running /\ late[s] /\ eng[s] /\ st[s] = "disconnected"
    /\ still' = [still EXCEPT ![s] = TRUE]
    /\ UNCHANGED <<guardVars, busy, current, created, st, kill, owns, eng, ran, late, halted, lock, handlers>>

\* App.Close: Shutdown first, whatever it returns; then GracefulStop waits for
\* the requests that are being served.
Close ==
    /\ pc[App] = "idle"
    /\ Goto(App, "disconnect") /\ op' = [op EXCEPT ![App] = "disconnect"]
    /\ UNCHANGED <<guardVars, busy, current, sessions, named, target, failing>>

Exit ==
    /\ pc[App] = "drain" /\ \A c \in Clients : pc[c] = "idle"
    /\ Goto(App, "exited")
    /\ UNCHANGED <<guardVars, busy, current, sessions, op, named, target, failing>>

Exited == ~Running /\ UNCHANGED mgrVars

Step(c) ==
    \/ \E ok, on \in BOOLEAN : Build(c, ok, on)
    \/ \E ok \in BOOLEAN : StartSession(c, ok) \/ RunEngine(c, ok) \/ StopEngine(c, ok)
    \/ \E o \in Outcomes : \/ ArmSession(c, o) \/ UndoStart(c, o)
                           \/ StopRestore(c, o) \/ KillEnd(c, o)
    \/ StartFailed(c) \/ Started(c) \/ DisconnectBegin(c)
    \/ StopMark(c) \/ StopLeave(c) \/ Stopped(c) \/ CheckSession(c) \/ KillBegin(c)

Request(c) ==
    \/ Connect(c)
    \/ \E name \in Sessions \cup {None} :
          Disconnect(c, name) \/ \E on \in BOOLEAN : SetKillSwitch(c, on, name)

ManagerNext ==
    \/ \E c \in Clients : Request(c)
    \/ \E c \in Actors : Step(c)
    \/ \E s \in Sessions : SessionFails(s) \/ LateApply(s) \/ WatchCancelled(s)
    \/ Close \/ Exit \/ Exited

ManagerSpec == ManagerInit /\ [][ManagerNext]_mgrVars

\* A Connect or Disconnect under way goes on, and so does a SetKillSwitch that
\* holds the mutex it may wait for.
Serve == \E c \in Actors : pc[c] \in Inside /\ Step(c)

ManagerFairSpec ==
    ManagerSpec /\ WF_pc(Serve) /\ WF_pc(\E c \in Clients, o \in Outcomes : KillEnd(c, o))

-----------------------------------------------------------------------------
(***************************************************************************)
(* Properties.                                                             *)
(***************************************************************************)

\* The sessions that own the guard, or an engine that no late Apply has taken
\* up again.
Owning == {s \in Sessions : owns[s] \/ (eng[s] /\ ~late[s])}

\* "Manager owns at most one session" (manager.go): never do two sessions own
\* the guard or an engine, although the new one is built while the old runs.
\* An engine that an Apply brought back after Stop (LateApply) is left out.
OneOwner == \A s, t \in Owning : s = t

\* The sessions a later Disconnect or Connect stops: the current one, and the
\* one that a call has in hand.
Reachable == {current} \cup {target[c] : c \in {d \in Actors : pc[d] \in Inside}}

\* What a session owns can be given back, a repeated Stop that skips the engine
\* included.  An engine that an Apply brought back after Stop is left out.
OwnerReachable == Owning \subseteq Reachable

\* The same of every engine, the ones that a late Apply brought back included.
EngineReachable == {s \in Sessions : eng[s]} \subseteq Reachable

\* No block without a session that will lift it (guard.Restore lifts the kill
\* switch "if this guard armed it").
BlockOwned == Blocked => \E s \in Sessions : owns[s]

\* A kill-switch change reaches the session its request names, although
\* m.current is read twice and sessions may be replaced in between.
KillHitsNamed == \A c \in Clients : pc[c] = "killing" => named[c] \in {None, target[c]}

\* "Requests naming another session are rejected to avoid stopping another
\* client's tunnel" (Server.Disconnect).
DisconnectHitsNamed ==
    \A c \in Clients : op[c] = "disconnect" /\ pc[c] \in Inside => named[c] \in {None, target[c]}

\* "Close restores session settings, then closes the endpoint and secret
\* store" (App.Close): the kill switch is off when the process exits.
CloseRestores == pc[App] = "exited" => ~Blocked

\* A Connect or Disconnect never leaves the manager busy for ever.
BusyEnds == busy ~> ~busy

=============================================================================
