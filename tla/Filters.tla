------------------------------ MODULE Filters -------------------------------
(***************************************************************************)
(* What the kill switch lets out, on Linux (guard/nftables.go: one chain,  *)
(* the first rule that matches decides, installed at once) and on Windows  *)
(* (guard/firewall_windows.go: one sublayer of the filtering platform, the *)
(* heaviest matching rule decides, installed rule by rule in a session     *)
(* whose filters go when it closes).                                       *)
(*                                                                         *)
(* A packet is the answers to the questions the rules ask: who sends it,   *)
(* through which interface, from which address, to which kind of           *)
(* destination, for which service, and through which interface came the    *)
(* connection that it answers, if it answers one.  Guard.Apply and         *)
(* Guard.Restore arm and disarm the switch.                                *)
(***************************************************************************)
EXTENDS Naturals, Sequences
LOCAL INSTANCE SequencesExt

\* "engine" is the core or an engine in its own account, "sibling" another
\* program of that account, "copy" an engine executable in another account.
Senders == {"engine", "sibling", "copy", "other"}
Interfaces == {"lo", "tun", "phys"}
V4 == {"legacy", "fake", "tun4", "lan4", "net4", "broadcast"}
V6 == {"tun6", "lan6", "net6", "dhcpServers", "solicited"}
Purposes == {"dns", "dhcp", "discovery", "any"}

\* Neighbour discovery is IPv6, and a packet for lo stays on this machine.
Packets ==
    {p \in [who : Senders, via : Interfaces, src : {"tun", "own"}, dst : V4 \cup V6,
            service : Purposes, reply : {"none", "tun", "phys"}] :
        p.service = "discovery" => p.dst \in V6}

\* DefaultBypassNetworks; the pool of older builds, 172.19.0.0/16, lies in it.
DefaultBypass == {"lan4", "lan6", "legacy"}
TunNets == {"tun4", "tun6"}     \* Tun.Networks: outside private space (PrepareTun)

VARIABLES
    platform,   \* "linux" or "windows"
    bypass,     \* the networks of -bypass
    filters,    \* in force: the first count rules for an adapter's nets, or none
    switched,   \* g.applied.KillSwitch
    arming      \* a WFP session is being filled

filterVars == <<platform, bypass, filters, switched, arming>>

NoFilters == << >>

\* SetBlockedNetworks: the adapter's networks, the pool of fake addresses and, in
\* the rules, the pool of older builds.
TunnelOnly(n) == n \cup {"fake", "legacy"}

-----------------------------------------------------------------------------
(* The rules.  Each is [act, weight, match], with match a set of packets. *)

Rule(act, weight, match) == [act |-> act, weight |-> weight, match |-> match]
Where(P(_)) == {p \in Packets : P(p)}

NftRulesetBlockLast(n) == <<
    Rule("accept", 0, Where(LAMBDA p : p.via \in {"lo", "tun"})),
    Rule("accept", 0, Where(LAMBDA p : p.who \in {"engine", "sibling"})),
    Rule("drop",   0, Where(LAMBDA p : p.service = "dns")),
    Rule("accept", 0, Where(LAMBDA p : p.reply # "none")),
    Rule("accept", 0, Where(LAMBDA p : p.dst \in bypass)),
    Rule("drop",   0, Where(LAMBDA p : p.dst \in TunnelOnly(n))),
    Rule("drop",   0, Packets) >>

\* NftRuleset, in its order.
NftRuleset(n) == <<
    Rule("accept", 0, Where(LAMBDA p : p.via = "lo")),
    Rule("accept", 0, Where(LAMBDA p : p.via = "tun")),
    Rule("drop",   0, Where(LAMBDA p : p.dst \in TunnelOnly(n))),
    Rule("accept", 0, Where(LAMBDA p : p.who \in {"engine", "sibling"})),
    Rule("drop",   0, Where(LAMBDA p : p.service = "dns")),
    Rule("accept", 0, Where(LAMBDA p : p.reply # "none")),
    Rule("accept", 0, Where(LAMBDA p : p.dst \in bypass)),
    Rule("drop",   0, Packets) >>

\* WFP.rules in the order in which they are added, but for the last.  A rule with
\* an address applies in the layer of its family, which its destinations say.
\* An answer has no next hop when its flow is authorized again; what it has is
\* the interface its connection came through.
WfpExceptions(n) == <<
    Rule("accept", 30, Where(LAMBDA p : p.who = "engine")),
    Rule("accept", 30, Where(LAMBDA p : p.via = "lo")),
    Rule("accept", 50, Where(LAMBDA p : n # {} /\ p.src = "tun" /\ p.reply = "none" /\ p.via = "tun")),
    Rule("accept", 50, Where(LAMBDA p : n # {} /\ p.src = "tun" /\ p.reply = "tun")),
    Rule("drop",   40, Where(LAMBDA p : p.dst \in TunnelOnly(n))),
    Rule("drop",   20, Where(LAMBDA p : p.service = "dns")),
    Rule("accept", 10, Where(LAMBDA p : p.dst \in bypass)),
    Rule("accept", 10, Where(LAMBDA p : p.service = "dhcp"
                                          /\ p.dst \in {"broadcast", "dhcpServers"})),
    Rule("accept", 10, Where(LAMBDA p : p.service = "discovery")) >>

WfpRules(n) == WfpExceptions(n) \o <<Rule("drop", 0, Packets)>>

Matching(rules, p) == SelectSeq(rules, LAMBDA r : p \in r.match)

\* The first match; the heaviest match.  No match leaves the packet alone.
Verdict(os, rules, p) ==
    LET hits == Matching(rules, p)
        best == IF os = "linux" THEN hits[1]
                ELSE CHOOSE r \in ToSet(hits) : \A s \in ToSet(hits) : s.weight <= r.weight
    IN IF hits = << >> THEN "accept" ELSE best.act

RulesOf(os, n) == IF os = "linux" THEN NftRuleset(n) ELSE WfpRules(n)
RulesInForce == SubSeq(RulesOf(platform, filters.nets), 1, filters.count)
Passes(p) == Verdict(platform, RulesInForce, p) = "accept"
Complete(f) == f # NoFilters /\ f.count = Len(RulesOf(platform, f.nets))
Whole == Complete(filters)

-----------------------------------------------------------------------------
(* Guard.Apply and Guard.Restore over the two firewalls. *)

FilterTypeOK ==
    /\ platform \in {"linux", "windows"} /\ bypass \subseteq V4 \cup V6
    /\ switched \in BOOLEAN /\ arming \in BOOLEAN
    /\ filters # NoFilters => /\ filters.nets \in {{}, TunNets}
                              /\ filters.count \in 0 .. Len(RulesOf(platform, filters.nets))

FilterInit ==
    /\ platform \in {"linux", "windows"} /\ bypass \in {DefaultBypass, V4 \cup V6}
    /\ filters = NoFilters /\ switched = FALSE /\ arming = FALSE

\* Nftables.Arm runs nft, which commits the ruleset or refuses it; a table that
\* is there already keeps its rules in front.  WFP.Arm opens a session that
\* install then fills.
Arm(n, ok) ==
    LET opened == ok /\ filters = NoFilters
        count == IF platform = "linux" THEN Len(RulesOf(platform, n)) ELSE 0
    IN /\ filters' = IF opened THEN [nets |-> n, count |-> count] ELSE filters
       /\ arming' = (opened /\ platform = "windows")
       /\ switched' = (ok /\ ~arming')

\* An nft that is refused leaves the table; a session that closes, even with an
\* error, leaves no filter.
Disarm(ok) ==
    /\ platform = "linux" /\ filters = NoFilters => ~ok
    /\ filters' = IF ok \/ platform = "windows" THEN NoFilters ELSE filters
    /\ switched' = ~ok

ApplySettings(kill, n, ok) ==
    /\ ~arming
    /\ IF kill /\ ~switched THEN Arm(n, ok)
       ELSE UNCHANGED arming /\ IF switched /\ ~kill THEN Disarm(ok)
                                ELSE ok /\ switched' = kill /\ UNCHANGED filters
    /\ UNCHANGED <<platform, bypass>>

RestoreSettings(ok) ==
    /\ ~arming
    /\ IF switched THEN Disarm(ok) ELSE ok /\ UNCHANGED <<filters, switched>>
    /\ UNCHANGED <<platform, bypass, arming>>

\* install: a rule that is refused closes the session.
AddRule(ok) ==
    /\ arming
    /\ filters' = IF ok THEN [filters EXCEPT !.count = @ + 1] ELSE NoFilters
    /\ arming' = (ok /\ ~Complete(filters')) /\ switched' = (ok /\ Complete(filters'))
    /\ UNCHANGED <<platform, bypass>>

\* The core dies.  The table of nftables outlives it, a dynamic session does not.
Die ==
    /\ switched' = FALSE /\ arming' = FALSE
    /\ filters' = IF platform = "windows" THEN NoFilters ELSE filters
    /\ UNCHANGED <<platform, bypass>>

FilterNext ==
    \/ \E kill, ok \in BOOLEAN, n \in {{}, TunNets} : ApplySettings(kill, n, ok)
    \/ \E ok \in BOOLEAN : RestoreSettings(ok) \/ AddRule(ok)
    \/ Die

FilterSpec == FilterInit /\ [][FilterNext]_filterVars

-----------------------------------------------------------------------------
(* Properties. *)

\* What may leave while the switch is in force: packets on loopback or through
\* the tunnel; and outside it, to no destination that belongs to the tunnel, the
\* engines' own, answers to incoming connections, what -bypass names except name
\* queries, and what keeps the link itself alive.  On Windows an answer from the
\* tunnel's address to a connection through the tunnel is not asked its way.
MayLeave(p) ==
    \/ p.via \in {"lo", "tun"}
    \/ /\ p.dst \notin TunnelOnly(filters.nets)
       /\ \/ p.who \in {"engine", "sibling"} \/ p.reply # "none"
          \/ p.service # "dns" /\ p.dst \in bypass
          \/ p.service = "dhcp" /\ p.dst \in {"broadcast", "dhcpServers"}
          \/ p.service = "discovery"
    \/ platform = "windows" /\ p.src = "tun" /\ p.reply = "tun"

\* The two rule sets, one ordered and one weighted, let nothing else out: "DNS
\* outside the tunnel", "tunnel destination outside the tunnel" and the final
\* block each outrank the permits they must, also when -bypass names networks
\* that hold the tunnel's.
OnlyAllowedLeaves == Whole => \A p \in Packets : Passes(p) => MayLeave(p)

\* The engines reach their servers and resolvers at every moment, also between
\* the rules of an arming that is under way or that failed.
EnginesReach ==
    filters # NoFilters =>
        \A p \in Packets : p.who = "engine" /\ p.dst \notin TunnelOnly(filters.nets) => Passes(p)

\* No arming leaves a part of its rules behind.
NoHalfSwitch == filters # NoFilters /\ ~arming => Whole

\* The packets both platforms mean to treat alike: not those of other programs
\* of the core's account, packets through the tunnel from another address, the
\* machine's own tunnel address over loopback, answers to incoming connections
\* and what keeps the link alive.
Comparable(p) ==
    /\ p.who # "sibling" /\ p.reply = "none" /\ p.service \notin {"dhcp", "discovery"}
    /\ p.via = "tun" => p.src = "tun" /\ filters.nets # {}
    /\ p.via = "lo" => p.dst \notin TunnelOnly(filters.nets)

\* Linux and Windows decide alike on every comparable packet: the order of
\* NftRuleset and the weights of WFP.rules are two ways to say one thing.
PlatformsAgree ==
    Whole => \A p \in Packets : Comparable(p) =>
        LET On(os) == Verdict(os, RulesOf(os, filters.nets), p) IN On("linux") = On("windows")

=============================================================================
