------------------------------- MODULE MCHosts ------------------------------
(***************************************************************************)
(* The parts of the core that deal with the machine it runs on and the      *)
(* network, each a state machine of its own: the policy routes, the bridge  *)
(* of two engines, the bypass proxies, a measurement and a fetch.  They     *)
(* share no state, so a behaviour of this module is one of one part.        *)
(***************************************************************************)
EXTENDS PolicyRoutes, Bridge, Bypass, Measure, Fetch

VARIABLE part       \* the part that moves

hostsVars == <<policyVars, bridgeVars, bypassVars, measureVars, fetchVars, part>>

(* Rules of a WireGuard client and of a resolver, in the core's priorities, *)
(* and what a core of before its protocol mark left.                        *)
SomeOthers ==
    {[Blank EXCEPT !.prio = 33, !.oif = "wg0", !.table = "main", !.proto = "99", !.extra = TRUE, !.owner = "other"],
     [Blank EXCEPT !.prio = 38, !.iif = "lo", !.table = "main", !.suppress = "1", !.proto = "3", !.owner = "other"]}

SomeLegacy ==
    {[Blank EXCEPT !.prio = 33, !.oif = "wg0", !.table = "main", !.proto = "0"],
     [Blank EXCEPT !.prio = 38, !.iif = "lo", !.table = "main", !.suppress = "0", !.proto = "2"]}

OneFamily == <<"4">>
TwoPools == <<"pool1", "pool2">>

ClassOf(s) ==
    CASE s \in {"e1", "e2"} -> "endpoint"
      [] s \in {"x1", "x2"} -> "xray"
      [] s = "c" -> "clash"
      [] s \in {"o1", "o2"} -> "orphan"
      [] OTHER -> "bad"

BatchOf(s) == IF s = "x2" THEN 2 ELSE 1

(* What no server of the request distinguishes is not asked twice.          *)
SomeRequests ==
    {[ask |-> {"e1", "e2"}, method |-> "auto"], [ask |-> {"e1", "o1", "x1"}, method |-> "connect"]}
    \cup {[ask |-> a, method |-> m] :
            a \in {{"e1", "o1", "x1"}, {"x1", "x2", "b"}, {"o1", "o2", "c"}}, m \in {"auto", "engine"}}

Url(s, u, h) == [scheme |-> s, user |-> u, host |-> h]

SomeReferences ==
    {Url("https", FALSE, "pub"), Url("https", FALSE, "priv"), Url("https", FALSE, "name"), Url("https", TRUE, "pub"),
     Url("https", FALSE, ""), Url("http", FALSE, "pub"), Url("", FALSE, "name"), Url("", TRUE, "pub"),
     Url("?", FALSE, "pub")}

ResolvesTo(h) ==
    CASE h = "pub" -> {{"public"}}
      [] h = "priv" -> {{"private"}}
      [] OTHER -> {{}, {"public"}, {"private"}, {"public", "private"}}

-----------------------------------------------------------------------------
(* A part that does not move has one initial state.                         *)
HostsInit ==
    /\ part \in {"routes", "bridge", "bypass", "measure", "fetch"}
    /\ PolicyInit /\ BridgeInit /\ BypassInit /\ MeasureInit /\ FetchInit
    /\ part # "routes" => ~device /\ \A f \in Fams : rules[f] = <<>>
    /\ part # "bridge" => nets = {}
    /\ part # "bypass" => needed = Keys
    /\ part # "measure" => req = [ask |-> {"e1", "e2"}, method |-> "auto"]

HostsNext ==
    /\ part' = part
    /\ \/ part = "routes" /\ PolicyNext /\ UNCHANGED <<bridgeVars, bypassVars, measureVars, fetchVars>>
       \/ part = "bridge" /\ BridgeNext /\ UNCHANGED <<policyVars, bypassVars, measureVars, fetchVars>>
       \/ part = "bypass" /\ BypassNext /\ UNCHANGED <<policyVars, bridgeVars, measureVars, fetchVars>>
       \/ part = "measure" /\ MeasureNext /\ UNCHANGED <<policyVars, bridgeVars, bypassVars, fetchVars>>
       \/ part = "fetch" /\ FetchNext /\ UNCHANGED <<policyVars, bridgeVars, bypassVars, measureVars>>

(* The fairness of Bypass and of Measure, when it is the part that moves.   *)
HostsFairness ==
    /\ WF_bypassVars(part = "bypass" /\ CallStep)
    /\ \A p \in Proxies : /\ WF_bypassVars(part = "bypass" /\ KeepStep(p))
                          /\ WF_bypassVars(part = "bypass" /\ \E n \in 1 .. MaxRuns : Reap(p, n))
    /\ WF_measureVars(part = "measure" /\ Goroutine)

HostsSpec == HostsInit /\ [][HostsNext]_hostsVars /\ HostsFairness

(* A bound on the bridge: the events of the session's first start are       *)
(* relayed before anything else happens, and no relay is more than three    *)
(* events behind.                                                           *)
MaxLag == 3
RelaysKeepUp ==
    /\ \A c \in Children : Len(sent'[c]) <= MaxLag
    /\ sess = "starting" /\ (\E c \in Children : sent[c] # <<>> \/ relay[c] # Idle) => relay' # relay

-----------------------------------------------------------------------------
(* The type invariants of the parts.                                        *)
HostsTypeOK ==
    CASE part = "routes" -> PolicyTypeOK
      [] part = "bridge" -> BridgeTypeOK
      [] part = "bypass" -> BypassTypeOK
      [] part = "measure" -> MeasureTypeOK
      [] part = "fetch" -> FetchTypeOK
=============================================================================
