------------------------------ MODULE Startup -------------------------------
(***************************************************************************)
(* How cores of one machine start, serve and stop on Unix: cli.go run,     *)
(* App.New, App.Serve and App.Close, with the instance lock, the socket,   *)
(* the control token on disk and the policy routes in the kernel.          *)
(*                                                                         *)
(* Several processes may be started on one data directory: service cores,  *)
(* cores started with -check (Diagnostic: no lock, no endpoint, no route   *)
(* cleanup), and a core of an older build that is already running, that    *)
(* listens at the same path and knows no lock.  Each may be killed between *)
(* any two steps.  systemd starts a service again when it failed           *)
(* (Restart=on-failure) and kills one that does not stop in time.          *)
(***************************************************************************)
EXTENDS Naturals

CONSTANTS
    Services,     \* cores that serve
    Checks,       \* cores started with -check
    Nobody,
    MaxFaults     \* bound: kills, failed calls and early cancellations

Old == "old"      \* the core of an older build
Cores == Services \cup Checks
Listeners == Services \cup {Old}

\* A core serves or checks, and no name is used for two things.
ASSUME StartupAssumption ==
    /\ Services \cap Checks = {} /\ Old \notin Cores
    /\ Nobody \notin Cores \cup {Old, "orphan", "left"}
    /\ Cores \cap {"orphan", "left"} = {} /\ MaxFaults \in Nat

VARIABLES
    stage,     \* how far each core is
    exit,      \* how its last process ended: "fresh", "clean" or "failed"
    cut,       \* the context of run is cancelled (SIGTERM)
    lock,      \* who holds the flock on <socket>.lock
    path,      \* whose socket is bound at the endpoint's path
    open,      \* who still listens on its socket
    session,   \* who believes its session's routes are installed
    kernel,    \* whose routes are in the kernel: "orphan" after a kill, "left"
               \* after an exit that could not remove them
    token,     \* the token file: who wrote it, and whether it is whole
    auth,      \* the token each core authenticates with
    faults

startVars == <<stage, exit, cut, lock, path, open, session, kernel, token, auth, faults>>
hostVars == <<lock, path, open, kernel>>      \* what the machine keeps
fileVars == <<token, auth>>

NoToken == [by |-> Nobody, whole |-> FALSE]
Stages == {"off", "lock", "dial", "remove", "bind", "token", "create", "write", "store",
           "routes", "serving", "shutdown", "drain", "unbind", "unlock"}

\* A check passes no stage that has a lock or an endpoint to give back.
StartupTypeOK ==
    /\ stage \in [Cores -> Stages]
    /\ \A p \in Checks : stage[p] \in {"off", "token", "create", "write", "store"}
    /\ exit \in [Cores -> {"fresh", "clean", "failed"}]
    /\ cut \in [Cores -> BOOLEAN] /\ faults \in 0 .. MaxFaults
    /\ path \in Listeners \cup {Nobody} /\ open \subseteq Listeners
    /\ session \in [Listeners -> BOOLEAN]
    /\ kernel \in Listeners \cup {Nobody, "orphan", "left"}
    /\ token \in [by : Cores \cup {Old, Nobody}, whole : BOOLEAN]
    /\ auth \in [Cores -> Cores \cup {Old, Nobody}]
    /\ lock \in Services \cup {Nobody}

\* A fresh machine, one where the older build runs, or one where it was killed.
StartupInit ==
    /\ stage = [p \in Cores |-> "off"] /\ exit = [p \in Cores |-> "fresh"]
    /\ cut = [p \in Cores |-> FALSE] /\ auth = [p \in Cores |-> Nobody]
    /\ lock = Nobody /\ faults = 0
    /\ \/ /\ path = Nobody /\ open = {} /\ kernel = Nobody /\ token = NoToken
          /\ session = [p \in Listeners |-> FALSE]
       \/ /\ path = Old /\ open = {Old} /\ kernel \in {Old, Nobody}
          /\ token = [by |-> Old, whole |-> TRUE]
          /\ session = [p \in Listeners |-> p = Old /\ kernel = Old]
       \/ /\ path = Old /\ open = {} /\ kernel = "orphan"
          /\ token = [by |-> Old, whole |-> TRUE]
          /\ session = [p \in Listeners |-> FALSE]

Goto(p, s) == stage' = [stage EXCEPT ![p] = s]

\* The process is gone, and with it its listener, its lock and its memory.  The
\* routes it had stay in the kernel under the given name.
Gone(p, how, routes) ==
    /\ Goto(p, "off") /\ exit' = [exit EXCEPT ![p] = how] /\ cut' = [cut EXCEPT ![p] = FALSE]
    /\ lock' = IF lock = p THEN Nobody ELSE lock
    /\ open' = open \ {p}
    /\ session' = [w \in Listeners |-> w # p /\ session[w]]
    /\ kernel' = IF kernel = p THEN routes ELSE kernel
    /\ auth' = [auth EXCEPT ![p] = Nobody]

\* A call of New fails: its deferred function closes what New has opened.
FailNew(p) == Goto(p, IF p \in Checks THEN "off" ELSE "unbind")

MayFail == faults < MaxFaults /\ faults' = faults + 1

-----------------------------------------------------------------------------
(* run and New. *)

StartCore(p) ==
    /\ stage[p] = "off"
    /\ Goto(p, IF p \in Checks THEN "token" ELSE "lock")
    /\ UNCHANGED <<exit, cut, session, hostVars, fileVars, faults>>

\* flock(LOCK_EX | LOCK_NB) on a file that is never unlinked.
LockInstance(p) ==
    /\ stage[p] = "lock"
    /\ IF lock = Nobody
         THEN Goto(p, "dial") /\ lock' = p /\ UNCHANGED exit
         ELSE Goto(p, "off") /\ exit' = [exit EXCEPT ![p] = "failed"] /\ UNCHANGED lock
    /\ UNCHANGED <<cut, session, path, open, kernel, fileVars, faults>>

\* removeLeftover: a socket somebody answers on is left alone.
DialNever(p) ==
    /\ stage[p] = "dial" /\ Goto(p, "bind")
    /\ UNCHANGED <<exit, cut, session, hostVars, fileVars, faults>>

Dial(p) ==
    /\ stage[p] = "dial"
    /\ Goto(p, IF path = Nobody \/ path \in open THEN "bind" ELSE "remove")
    /\ UNCHANGED <<exit, cut, session, hostVars, fileVars, faults>>

Remove(p) ==
    /\ stage[p] = "remove"
    /\ IF path = Nobody THEN Goto(p, "unlock") ELSE Goto(p, "bind")
    /\ path' = Nobody
    /\ UNCHANGED <<exit, cut, session, lock, open, kernel, fileVars, faults>>

\* Listen: a path that exists is an address in use, and New gives the lock back.
Bind(p) ==
    /\ stage[p] = "bind"
    /\ IF path = Nobody
         THEN path' = p /\ open' = open \cup {p} /\ Goto(p, "token")
         ELSE Goto(p, "unlock") /\ UNCHANGED <<path, open>>
    /\ UNCHANGED <<exit, cut, session, lock, kernel, fileVars, faults>>

\* LoadOrCreateToken: a file that is there but not readable is refused.
LoadTokenLenient(p) ==
    /\ stage[p] = "token"
    /\ \/ token.by = Nobody /\ Goto(p, "create") /\ UNCHANGED auth
       \/ token.whole /\ auth' = [auth EXCEPT ![p] = token.by] /\ Goto(p, "store")
       \/ token.by # Nobody /\ ~token.whole
          /\ auth' = [auth EXCEPT ![p] = p] /\ Goto(p, "store")
    /\ UNCHANGED <<exit, cut, session, hostVars, token, faults>>

LoadToken(p) ==
    /\ stage[p] = "token"
    /\ \/ token.by = Nobody /\ Goto(p, "create") /\ UNCHANGED auth
       \/ token.whole /\ auth' = [auth EXCEPT ![p] = token.by] /\ Goto(p, "store")
       \/ token.by # Nobody /\ ~token.whole /\ FailNew(p) /\ UNCHANGED auth
    /\ UNCHANGED <<exit, cut, session, hostVars, token, faults>>

\* os.WriteFile truncates the file before it writes.
CreateToken(p) ==
    /\ stage[p] = "create"
    /\ token' = [by |-> p, whole |-> FALSE] /\ Goto(p, "write")
    /\ UNCHANGED <<exit, cut, session, hostVars, auth, faults>>

WriteToken(p) ==
    /\ stage[p] = "write"
    /\ token' = [by |-> p, whole |-> TRUE] /\ auth' = [auth EXCEPT ![p] = p]
    /\ Goto(p, "store")
    /\ UNCHANGED <<exit, cut, session, hostVars, faults>>

\* secret.Open (module Vault) and what else both kinds of core do before the
\* routes.  A check is done: it reports and closes an App that holds nothing.
OpenStore(p) ==
    /\ stage[p] = "store"
    /\ IF p \in Checks THEN Gone(p, "clean", Nobody) ELSE
        Goto(p, "routes") /\ UNCHANGED <<exit, cut, session, lock, open, kernel, auth>>
    /\ UNCHANGED <<path, token, faults>>

\* tunroute.Cleanup deletes the rules of any core, and needs a live context.
Cleanup(p) ==
    /\ stage[p] = "routes"
    /\ IF cut[p] THEN FailNew(p) /\ UNCHANGED kernel
                 ELSE Goto(p, "serving") /\ kernel' = Nobody
    /\ UNCHANGED <<exit, cut, session, lock, path, open, fileVars, faults>>

\* A call of New returns an error; the last ones come after the routes.
NewFails(p) ==
    /\ stage[p] \in {"token", "store", "routes"} /\ MayFail /\ FailNew(p)
    /\ kernel' \in IF stage[p] = "routes" THEN {kernel, Nobody} ELSE {kernel}
    /\ UNCHANGED <<exit, cut, session, lock, path, open, fileVars>>

\* The deferred function: the endpoint first, the lock last.
Unbind(p) ==
    /\ stage[p] = "unbind" /\ Goto(p, "unlock")
    /\ path' = Nobody /\ open' = open \ {p}
    /\ UNCHANGED <<exit, cut, session, lock, kernel, fileVars, faults>>

\* The process leaves with the error of New.
Unlock(p) ==
    /\ stage[p] = "unlock"
    /\ Gone(p, "failed", "left")
    /\ UNCHANGED <<path, token, faults>>

-----------------------------------------------------------------------------
(* Serve, the sessions of the manager, and Close. *)

\* Route deletes what it finds and installs its own; Unroute deletes.
Connect(p) ==
    /\ stage[p] = "serving"
    /\ session' = [session EXCEPT ![p] = TRUE] /\ kernel' = p
    /\ UNCHANGED <<stage, exit, cut, lock, path, open, fileVars, faults>>

Disconnect(p) ==
    /\ stage[p] = "serving" /\ session[p]
    /\ session' = [session EXCEPT ![p] = FALSE] /\ kernel' = Nobody
    /\ UNCHANGED <<stage, exit, cut, lock, path, open, fileVars, faults>>

\* SIGTERM.  Before Serve it counts as a fault, and ends a check like a kill.
Cancel(p) ==
    /\ p \in Services /\ stage[p] \notin {"off", "shutdown", "drain"} /\ ~cut[p]
    /\ IF stage[p] = "serving" THEN UNCHANGED faults ELSE MayFail
    /\ cut' = [cut EXCEPT ![p] = TRUE]
    /\ UNCHANGED <<stage, exit, session, hostVars, fileVars>>

\* The function Serve registered closes the listener, which unlinks the path.
ServeReleases(p) ==
    /\ stage[p] = "serving" /\ cut[p]
    /\ Goto(p, "shutdown") /\ path' = Nobody /\ open' = open \ {p} /\ lock' = Nobody
    /\ UNCHANGED <<exit, cut, session, kernel, fileVars, faults>>

ServeEnds(p) ==
    /\ stage[p] = "serving" /\ cut[p]
    /\ Goto(p, "shutdown") /\ path' = Nobody /\ open' = open \ {p}
    /\ UNCHANGED <<exit, cut, session, lock, kernel, fileVars, faults>>

\* Manager.Shutdown.  Its failure is only logged.
Shutdown(p, ok) ==
    /\ stage[p] = "shutdown" /\ Goto(p, "drain")
    /\ IF ok THEN session' = [session EXCEPT ![p] = FALSE]
                    /\ kernel' = (IF session[p] THEN Nobody ELSE kernel) /\ UNCHANGED faults
             ELSE session[p] /\ MayFail /\ UNCHANGED <<session, kernel>>
    /\ UNCHANGED <<exit, cut, lock, path, open, fileVars>>

\* GracefulStop has seen the last stream end; the store and the lock follow.
Drain(p) ==
    /\ stage[p] = "drain"
    /\ Gone(p, "clean", "left")
    /\ UNCHANGED <<path, token, faults>>

-----------------------------------------------------------------------------
(* The machine. *)

KillCore(p) ==
    /\ stage[p] # "off" /\ MayFail
    /\ Gone(p, "failed", "orphan")
    /\ UNCHANGED <<path, token>>

\* TimeoutStopSec: a stop that does not end is killed, and not started again.
StopTimeout(p) ==
    /\ stage[p] \in {"shutdown", "drain"}
    /\ Gone(p, "clean", "left")
    /\ UNCHANGED <<path, token, faults>>

\* The older build leaves, cleanly or not.
OldExits(clean) ==
    /\ Old \in open /\ open' = open \ {Old}
    /\ path' = IF clean THEN Nobody ELSE path
    /\ session' = [session EXCEPT ![Old] = FALSE]
    /\ kernel' = IF ~session[Old] THEN kernel ELSE IF clean THEN Nobody ELSE "orphan"
    /\ UNCHANGED <<stage, exit, cut, lock, fileVars, faults>>

Advance(p) ==
    \/ LockInstance(p) \/ Dial(p) \/ Remove(p) \/ Bind(p)
    \/ LoadToken(p) \/ CreateToken(p) \/ WriteToken(p) \/ OpenStore(p) \/ Cleanup(p)
    \/ Unbind(p) \/ Unlock(p)
    \/ ServeEnds(p) \/ Shutdown(p, TRUE) \/ StopTimeout(p)

StartupNext ==
    \/ \E p \in Cores : \/ StartCore(p) \/ Advance(p) \/ NewFails(p) \/ KillCore(p)
                        \/ Connect(p) \/ Disconnect(p) \/ Cancel(p)
                        \/ Shutdown(p, FALSE) \/ Drain(p)
    \/ \E clean \in BOOLEAN : OldExits(clean)

\* systemd starts an enabled service, and starts it again when it failed; a
\* process that runs takes its next step.  Nothing is assumed of clients, of the
\* end of their streams, of checks that are not started and of the older build.
StartupFairness ==
    \A p \in Services : /\ WF_startVars(StartCore(p) /\ exit[p] # "clean")
                        /\ WF_startVars(Advance(p))

StartupSpec == StartupInit /\ [][StartupNext]_startVars /\ StartupFairness

-----------------------------------------------------------------------------
(* Properties. *)

\* The routes of a session that is up are never taken from it, by a core that
\* starts, that only checks or that is still closing: "Binding before recovery
\* also protects a core started by an older build" (main.go), and "unlinking it
\* would let another process lock a different inode while this service is still
\* restoring its routes" (lockInstance).
RoutesKept == \A w \in Listeners : session[w] => kernel = w

\* The endpoint of a core that serves leads to that core, whatever crashed,
\* checked or failed to start before it and beside it.
EndpointReached == \A p \in Services : p \in open /\ stage[p] = "serving" => path = p

\* A service authenticates with the token on disk, unless a -check core, which
\* takes no lock, wrote the file after it.
TokenOnDisk ==
    \A p \in Services : stage[p] = "serving" /\ auth[p] # token.by => token.by \in Checks

\* Routes that a killed core left are removed by a later start, unless the kill
\* also left a token file that every start refuses.
OrphansEnd == []<>(kernel # "orphan" \/ (token.by # Nobody /\ ~token.whole))

=============================================================================
