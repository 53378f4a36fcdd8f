------------------------------- MODULE Bypass -------------------------------
(***************************************************************************)
(* engine/bypass/bypass.go: an engine whose plan needs tpws processes, one  *)
(* per strategy, each restarted on its port by a goroutine of its own, and  *)
(* engine/supervise/process.go: a process ends with the context it was      *)
(* started in.  A session starts the engine, may renew the plan while it    *)
(* runs, stops and closes it; the renewal may overlap the stop.             *)
(*                                                                         *)
(* A proxy stands for its port.                                             *)
(***************************************************************************)
EXTENDS Naturals, FiniteSets

CONSTANTS
    Keys,           \* the strategies plans use
    MaxProxies,     \* bound on the proxies ever started
    MaxRuns,        \* bound on the processes of one proxy
    MaxMisses       \* bound on starts that fail

VARIABLES
    needed,         \* the strategies of the session's plan
    procs,          \* e.procs: the proxy of each strategy, 0 when there is none
    born,           \* proxies so far
    ended,          \* proxies whose context is cancelled
    held,           \* px.proc: the process stop would end
    keeper,         \* where keep is, for each proxy
    waits,          \* the process it waits for
    got,            \* the process it just started
    runs,           \* processes each proxy has had
    alive,          \* the processes that live
    inner,          \* the wrapped engine: "down", "up", "closed"
    ports,          \* the ports its configuration names
    applying,       \* where Apply is
    stopping,       \* where the session is: "new", "up", "stop", "stopAll", ...
    renewed, misses

bypassVars ==
    <<needed, procs, born, ended, held, keeper, waits, got, runs, alive, inner, ports, applying, stopping, renewed,
      misses>>

keepVars == <<ended, held, keeper, waits, got, runs, alive>>
callVars == <<needed, inner, ports, applying, stopping, renewed>>

Proxies == 1 .. MaxProxies

BypassInit ==
    /\ needed \in SUBSET Keys \ {{}}
    /\ procs = [k \in Keys |-> 0]
    /\ born = 0
    /\ ended = {}
    /\ held = [p \in Proxies |-> 0]
    /\ keeper = [p \in Proxies |-> "none"]
    /\ waits = [p \in Proxies |-> 0]
    /\ got = [p \in Proxies |-> 0]
    /\ runs = [p \in Proxies |-> 0]
    /\ alive = {}
    /\ inner = "down"
    /\ ports = [k \in Keys |-> 0]
    /\ applying = "idle" /\ stopping = "new" /\ renewed = FALSE /\ misses = 0

Miss == misses < MaxMisses /\ misses' = misses + 1

(* e.mu is held by the two loops over e.procs.                              *)
Mu == applying # "loop" /\ stopping \notin {"stopAll", "closeAll"}

Start(p) ==
    /\ runs[p] < MaxRuns
    /\ runs' = [runs EXCEPT ![p] = @ + 1]
    /\ alive' = alive \cup {<<p, runs[p] + 1>>}

-----------------------------------------------------------------------------
(* Apply.  A renewal applies the plan of the start again, so the loop that  *)
(* stops what the plan no longer needs finds nothing.                       *)

ApplyLock ==
    /\ applying = "idle" /\ Mu
    /\ born + Cardinality({k \in needed : procs[k] = 0}) <= MaxProxies
    /\ \/ stopping = "new" /\ stopping' = "starting" /\ renewed' = renewed
       \/ stopping \in {"up", "stop", "close", "over"} /\ ~renewed /\ renewed' = TRUE /\ stopping' = stopping
    /\ applying' = "loop"
    /\ UNCHANGED <<needed, procs, born, keepVars, inner, ports, misses>>

(* A strategy without a proxy gets one that listens.                        *)
ProxyStart(k) ==
    /\ applying = "loop" /\ k \in needed /\ procs[k] = 0
    /\ born' = born + 1
    /\ Start(born + 1)
    /\ held' = [held EXCEPT ![born + 1] = 1]
    /\ keeper' = [keeper EXCEPT ![born + 1] = "read"]
    /\ procs' = [procs EXCEPT ![k] = born + 1]
    /\ UNCHANGED <<ended, waits, got, callVars, misses>>

(* One that does not is stopped at once and ends Apply.                     *)
ApplyMisses(k) ==
    /\ applying = "loop" /\ k \in needed /\ procs[k] = 0
    /\ Miss
    /\ applying' = "failed"
    /\ UNCHANGED <<needed, procs, born, keepVars, inner, ports, stopping, renewed>>

ApplyUnlock ==
    /\ applying = "loop" /\ \A k \in needed : procs[k] # 0
    /\ applying' = "inner"
    /\ ports' = procs
    /\ UNCHANGED <<needed, procs, born, keepVars, inner, stopping, renewed, misses>>

(* The wrapped engine takes the rewritten plan.  A session that stops has   *)
(* cancelled the context of its renewal.                                    *)
ApplyInner ==
    /\ applying = "inner"
    /\ \/ stopping \in {"starting", "up"} /\ inner' = "up" /\ applying' = "done" /\ misses' = misses
       \/ inner' = inner /\ applying' = "failed" /\ (IF stopping \in {"starting", "up"} THEN Miss ELSE misses' = misses)
    /\ UNCHANGED <<needed, procs, born, keepVars, ports, stopping, renewed>>

(* A session that cannot start is closed.                                   *)
BypassReturns ==
    /\ applying \in {"done", "failed"}
    /\ applying' = "idle"
    /\ stopping' = IF stopping # "starting" THEN stopping ELSE IF applying = "done" THEN "up" ELSE "close"
    /\ UNCHANGED <<needed, procs, born, keepVars, inner, ports, renewed, misses>>

-----------------------------------------------------------------------------
(* Stop and Close: the engine first, then every tpws.                       *)

StopInner ==
    /\ \/ stopping = "up" /\ inner' = "down" /\ stopping' = "stop"
       \/ stopping = "close" /\ inner' = "closed" /\ stopping' = "closing"
    /\ UNCHANGED <<needed, procs, born, keepVars, ports, applying, renewed, misses>>

StopLock ==
    /\ Mu
    /\ \/ stopping = "stop" /\ stopping' = "stopAll"
       \/ stopping = "closing" /\ stopping' = "closeAll"
    /\ UNCHANGED <<needed, procs, born, keepVars, inner, ports, applying, renewed, misses>>

(* proxy.stop ends the context and the process the proxy holds.             *)
StopProxy(k) ==
    LET p == procs[k]
    IN  /\ stopping \in {"stopAll", "closeAll"} /\ p # 0
        /\ ended' = ended \cup {p}
        /\ alive' = alive \ {<<p, held[p]>>}
        /\ procs' = [procs EXCEPT ![k] = 0]
        /\ UNCHANGED <<born, held, keeper, waits, got, runs, callVars, misses>>

StopUnlock ==
    /\ stopping \in {"stopAll", "closeAll"} /\ \A k \in Keys : procs[k] = 0
    /\ stopping' = IF stopping = "stopAll" THEN "close" ELSE "over"
    /\ UNCHANGED <<needed, procs, born, keepVars, inner, ports, applying, renewed, misses>>

-----------------------------------------------------------------------------
(* keep, for each proxy.                                                    *)

KeepRead(p) ==
    /\ keeper[p] = "read" /\ Mu
    /\ waits' = [waits EXCEPT ![p] = held[p]]
    /\ keeper' = [keeper EXCEPT ![p] = "wait"]
    /\ UNCHANGED <<procs, born, ended, held, got, runs, alive, callVars, misses>>

(* proc.Wait, then the delay; the end of the context ends both.             *)
KeepWait(p) ==
    /\ keeper[p] \in {"wait", "delay"}
    /\ \/ p \in ended /\ keeper' = [keeper EXCEPT ![p] = "over"]
       \/ p \notin ended /\ keeper[p] = "wait" /\ <<p, waits[p]>> \notin alive /\ keeper' = [keeper EXCEPT ![p] = "delay"]
       \/ keeper[p] = "delay" /\ keeper' = [keeper EXCEPT ![p] = "start"]
    /\ UNCHANGED <<procs, born, ended, held, waits, got, runs, alive, callVars, misses>>

(* Start does not look at the context.                                      *)
KeepStart(p) ==
    /\ keeper[p] = "start"
    /\ \/ /\ Start(p)
          /\ got' = [got EXCEPT ![p] = runs[p] + 1]
          /\ keeper' = [keeper EXCEPT ![p] = "store"]
          /\ misses' = misses
       \/ /\ Miss
          /\ keeper' = [keeper EXCEPT ![p] = "read"]
          /\ UNCHANGED <<got, runs, alive>>
    /\ UNCHANGED <<procs, born, ended, held, waits, callVars>>

KeepStore(p) ==
    /\ keeper[p] = "store" /\ Mu
    /\ held' = [held EXCEPT ![p] = got[p]]
    /\ keeper' = [keeper EXCEPT ![p] = "read"]
    /\ UNCHANGED <<procs, born, ended, waits, got, runs, alive, callVars, misses>>

(* Mutant: nobody watches the context.                                      *)
ReapNever(p, n) == p \in ended /\ <<p, n>> \in alive /\ UNCHANGED bypassVars

(* The goroutine of supervise.Start stops a process when its context ends.  *)
Reap(p, n) ==
    /\ p \in ended /\ <<p, n>> \in alive
    /\ alive' = alive \ {<<p, n>>}
    /\ UNCHANGED <<procs, born, ended, held, keeper, waits, got, runs, callVars, misses>>

(* A process ends by itself, except the last one the bound allows.          *)
Dies(p, n) ==
    /\ <<p, n>> \in alive /\ n < MaxRuns
    /\ alive' = alive \ {<<p, n>>}
    /\ UNCHANGED <<procs, born, ended, held, keeper, waits, got, runs, callVars, misses>>

BypassOver == stopping = "over" /\ UNCHANGED bypassVars

KeepStep(p) == KeepRead(p) \/ KeepWait(p) \/ KeepStart(p) \/ KeepStore(p)

CallStep ==
    \/ \E k \in Keys : ProxyStart(k) \/ ApplyMisses(k) \/ StopProxy(k)
    \/ ApplyUnlock \/ ApplyInner \/ BypassReturns \/ StopLock \/ StopUnlock

BypassNext ==
    \/ ApplyLock \/ StopInner \/ CallStep
    \/ \E p \in Proxies : KeepStep(p) \/ \E n \in 1 .. MaxRuns : Reap(p, n) \/ Dies(p, n)
    \/ BypassOver

(* Goroutines run; what the session or a process does next is not promised. *)
BypassFairness ==
    /\ WF_bypassVars(CallStep)
    /\ \A p \in Proxies : WF_bypassVars(KeepStep(p)) /\ WF_bypassVars(\E n \in 1 .. MaxRuns : Reap(p, n))

BypassSpec == BypassInit /\ [][BypassNext]_bypassVars /\ BypassFairness

-----------------------------------------------------------------------------
BypassTypeOK ==
    /\ procs \in [Keys -> 0 .. MaxProxies]
    /\ alive \subseteq Proxies \X (1 .. MaxRuns)
    /\ \A k \in Keys : procs[k] # 0 => procs[k] \notin ended

(* Two tpws never compete for one port: a restart begins after the process  *)
(* it replaces is gone, however stop and keep interleave.  (keep, stop)     *)
OneListener == \A p \in Proxies : Cardinality({x \in alive : x[1] = p}) <= 1

(* As long as the engine runs, every port its configuration names belongs   *)
(* to a proxy that is kept alive, also while the session stops and a        *)
(* renewal runs.  (Apply, Stop, Close)                                      *)
PortsKept == inner = "up" => \A k \in needed : ports[k] # 0 /\ ports[k] \notin ended /\ procs[k] = ports[k]

(* A proxy that was stopped ends for good, even if keep had just started    *)
(* its next process and not yet stored it.  (stop, keep, supervise.Start)   *)
StoppedEnds == <>[](\A p \in ended, n \in 1 .. MaxRuns : <<p, n>> \notin alive)

(* A tpws that dies comes back on its port until it is stopped, whatever    *)
(* attempts to start it fail.  (keep)                                       *)
ComesBack ==
    []<>(\A p \in Proxies \ ended : keeper[p] = "none" \/ <<p, held[p]>> \in alive)
=============================================================================
