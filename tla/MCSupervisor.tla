----------------------------- MODULE MCSupervisor ----------------------------
(***************************************************************************)
(* A session's engine and its events: the supervisor, and the journal.     *)
(* They share no state, so a behaviour of this module is one of one part.  *)
(*                                                                         *)
(* The supervisor has one caller, which may apply a plan with a TUN        *)
(* adapter or one without, stop and close, in any order and repeatedly.    *)
(* The journal has two goroutines that append, and a client that reopens   *)
(* its stream while the server may still be ending the old one.            *)
(***************************************************************************)
EXTENDS Supervisor, Journal

VARIABLE part     \* the part that moves: "supervisor" or "journal"

\* The journal stops when its events and its streams are used up, or at a panic.
JournalOver ==
    \/ panicked
    \/ /\ next = MaxEvents /\ active = 0
       /\ \A a \in Appenders : pending[a] = {}
       /\ \A f \in Feeds : fpc[f] = "ended"

EngineInit == part \in {"supervisor", "journal"} /\ Init /\ JournalInit

EngineNext ==
    /\ part' = part
    /\ \/ part = "supervisor" /\ Next /\ UNCHANGED jVars
       \/ part = "journal" /\ JournalNext /\ UNCHANGED vars
       \/ part = "journal" /\ JournalOver /\ UNCHANGED <<vars, jVars>>

EngineSpec == EngineInit /\ [][EngineNext]_<<vars, jVars, part>>

-----------------------------------------------------------------------------
(***************************************************************************)
(* Statements of the code's comments that the code does not keep.  TLC     *)
(* finds a counterexample to each; README.md says on which instance.       *)
(***************************************************************************)

\* "Stopped and Failed are terminal until the engine is started again"
\* (engine.go): only a caller of Apply or Stop leaves the failed state.
FailedIsTerminal ==
    [][state = "failed" /\ state' # "failed" => {holder, holder'} \cap Callers # {}]_vars

\* "Plan returns the plan the engine runs, or nil" (Supervisor.Plan).
PlanIsWhatRuns ==
    holder = "none" /\ proc \in Live /\ plan # NoPlan => ran[proc] = plan

\* "Stop shuts the engine down and removes it from the system" (engine.go): a
\* Stop that returns nil leaves no process of this supervisor behind.
StopLeavesNothing ==
    \A c \in Callers :
        stopping /\ holder = "none" /\ call[c] = "ok" /\ state = "stopped"
            => \A p \in Procs : life[p] \in {"unborn", "exited"}

\* "unroute retains ownership on failure so shutdown can retry route cleanup"
\* (supervisor.go:632): rules that may be installed are owned.
RoutesOwned == rules /\ holder = "none" => routed

\* "Sequence deduplication prevents gaps and repeats across replay and
\* reconnects" (WatchEvents): the client has seen what its cursor passes over.
ReconnectSkipsNothing ==
    \A f \in Feeds : dropped = {} /\ next <= Capacity => 1 .. after[f] \subseteq received

=============================================================================
