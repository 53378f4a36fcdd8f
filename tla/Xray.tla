-------------------------------- MODULE Xray --------------------------------
(***************************************************************************)
(* engine/xray/render.go and profile.go: the configuration of Xray for a    *)
(* plan, with the members that select groups are pinned to, and             *)
(* engine/xray/engine.go: how a member is chosen and reported.              *)
(***************************************************************************)
EXTENDS Config

outboundTagPlain(i) ==
    IF i < 10 THEN <<"o", ToString(i)>> ELSE <<"o", ToString(i \div 10), ToString(i % 10)>>

(* Tags have a fixed width: no tag is the beginning of another.             *)
outboundTag(i) ==
    LET digit(n) == ToString(n % 10)
    IN  <<"o", digit(i \div 1000), digit(i \div 100), digit(i \div 10), digit(i)>>

tagsOf(p) ==
    [id \in Ids(p) |-> outboundTag(CHOOSE i \in DOMAIN p.outbounds : p.outbounds[i].id = id)]

(* One balancer for each automatic group, named after it.                   *)
balancerTag(g) == <<"b">> \o g.name

transports == {"", "tcp", "ws", "grpc", "httpupgrade", "xhttp"}

renders(o) ==
    /\ ~Unverified(o)
    /\ CASE o.protocol = "direct"    -> TRUE
         [] o.protocol = "hysteria2" -> o.obfs = ""
         [] o.protocol = "wireguard" -> o.addresses > 0 /\ o.peers > 0
         [] o.protocol \in {"vless", "vmess", "trojan", "shadowsocks", "socks5", "http"} ->
               o.transport \in transports
         [] OTHER -> FALSE

(* A login without a user is left out; obfuscation of Shadowsocks is not    *)
(* rendered.                                                                *)
outbound(o, tag) ==
    LET bare == o.protocol \in {"direct", "wireguard"}
        on == ~bare /\ (o.tls.enabled \/ o.protocol \in {"trojan", "hysteria2"})
        quic == o.protocol = "hysteria2"
        link == Link(o, on, IF bare \/ quic \/ o.transport = "tcp" THEN "" ELSE o.transport)
    IN  Proxy(tag, o, [link EXCEPT
            !.obfs = "",
            !.reality = @ /\ ~quic,
            !.login = IF o.protocol \in {"socks5", "http"} /\ o.user = "" THEN <<"", "">> ELSE @])

(* The node a target leads to: select groups are followed to their pinned   *)
(* member while the plan is rendered.  <<>> when Xray has none.             *)
RECURSIVE target(_, _, _, _)
target(p, sel, id, depth) ==
    IF id = Direct THEN <<"direct">>
    ELSE IF id = Reject THEN <<"block">>
    ELSE IF id = <<"dns">> THEN <<"dns-out">>
    ELSE IF id \in Ids(p) THEN tagsOf(p)[id]
    ELSE IF id \notin GroupNames(p) \/ depth > Len(p.groups) THEN <<>>
    ELSE LET g == GroupByName(p, id)
             pinned == g.name \in DOMAIN sel /\ sel[g.name] \in ToSet(g.members)
         IN  IF g.type = "select"
             THEN target(p, sel, IF pinned THEN sel[g.name] ELSE g.members[1], depth + 1)
             ELSE IF g.type \in {"url-test", "load-balance"} THEN balancerTag(g)
             ELSE <<>>

(* A balancer has the outbounds of its group.                               *)
balancerFor(p, g) ==
    LET own == SelectSeq(g.members, LAMBDA m : m \in Ids(p))
    IN  Node(balancerTag(g), "balancer", g.name,
             [i \in DOMAIN own |-> tagsOf(p)[own[i]]], NoLink)

(* Xray's spelling of a rule's test.                                        *)
match(rule) ==
    CASE rule.type = "domain"         -> <<"domain", "full", rule.value>>
      [] rule.type = "domain-suffix"  -> <<"domain", "domain", rule.value>>
      [] rule.type = "domain-keyword" -> <<"domain", "keyword", rule.value>>
      [] rule.type = "geosite"        -> <<"domain", "geosite", Lower(rule.value)>>
      [] rule.type = "ip-cidr"        -> <<"ip", "", rule.value>>
      [] rule.type = "geoip"          ->
            <<"ip", "geoip", IF Lower(rule.value) = "lan" THEN "private" ELSE Lower(rule.value)>>
      [] rule.type = "port"           -> <<"port", "", rule.value>>
      [] rule.type = "process"        -> <<"process", "", rule.value>>
      [] OTHER                        -> <<>>

(* Two tests no rule of a plan has: all there is, and a query to a resolver *)
(* that came in through Xray's own adapter.                                 *)
anyNetwork == <<"network", "", "tcp,udp">>
tunQuery == <<"inboundTag", "port", "53">>

(* What each of them tests.                                                 *)
tests == <<"domain", "full">> :> "domain" @@ <<"domain", "domain">> :> "domain-suffix" @@
         <<"domain", "keyword">> :> "domain-keyword" @@ <<"domain", "geosite">> :> "geosite" @@
         <<"ip", "">> :> "ip-cidr" @@ <<"ip", "geoip">> :> "geoip" @@
         <<"port", "">> :> "port" @@ <<"process", "">> :> "process"

Means(m) ==
    IF m = anyNetwork THEN <<"any">> ELSE IF m = tunQuery THEN DNSQuery
    ELSE <<tests[<<m[1], m[2]>>], m[3]>>

(* Queries through the adapter are answered by Xray's own resolver.         *)
queryRules(p) == IF p.tun.enabled THEN <<Line(tunQuery, <<"dns-out">>)>> ELSE <<>>

(* The rules up to the one that takes all; what is left goes direct.  A     *)
(* last rule says so, as Xray would use its first outbound.                 *)
routing(p, sel) ==
    LET ends == {i \in DOMAIN p.rules : p.rules[i].type = "match"}
        n == IF ends = {} THEN Len(p.rules) ELSE Min(ends) - 1
        to(i) == target(p, sel, p.rules[i].target, 0)
        final == IF ends = {} THEN <<"direct">> ELSE to(n + 1)
    IN  [ok |-> final # <<>> /\ \A i \in 1 .. n : match(p.rules[i]) # <<>> /\ to(i) # <<>>,
         rules |-> queryRules(p) \o [i \in 1 .. n |-> Line(match(p.rules[i]), to(i))]
                   \o <<Line(anyNetwork, final)>>,
         strategy |-> "IPIfNonMatch"]

builtIn == <<Node(<<"direct">>, "direct", Direct, <<>>, NoLink),
             Node(<<"block">>, "block", Reject, <<>>, NoLink),
             Node(<<"dns-out">>, "dns", <<"dns">>, <<>>, NoLink)>>

(* A provider's configuration: the session's rules that send traffic direct *)
(* or nowhere come before the provider's, which end at its first outbound.  *)
(* Its strategy is the provider's own, "AsIs" unless it states another.     *)
renderProfile(p) ==
    LET kept == SelectSeq(p.rules, LAMBDA r : r.target \in {Direct, Reject})
        to(r) == IF r.target = Direct THEN <<"direct">> ELSE <<"block">>
    IN  IF \E r \in ToSet(kept) : match(r) = <<>> THEN Refused
        ELSE [ok |-> TRUE,
              nodes |-> <<Proxy(outboundTag(1), p.outbounds[1], NoLink)>> \o builtIn,
              rules |-> [i \in DOMAIN queryRules(p) |-> Line(DNSQuery, <<"dns-out">>)]
                        \o [i \in DOMAIN kept |-> Line(Means(match(kept[i])), to(kept[i]))],
              strategy |-> "AsIs", final |-> outboundTag(1), bootstrap |-> <<>>, undeclared |-> {}]

(* Only the groups that some rule leads to become balancers.                *)
Render(p, sel) ==
    LET r == routing(p, sel)
        reached == {r.rules[i].to : i \in DOMAIN r.rules}
        auto == SelectSeq(p.groups, LAMBDA g : balancerTag(g) \in reached)
    IN  IF p.tun.enabled /\ p.tun.stack \notin {"", "gvisor"} THEN Refused
        ELSE IF Len(p.outbounds) = 1 /\ p.outbounds[1].protocol = "xray-profile" THEN renderProfile(p)
        ELSE IF \E o \in ToSet(p.outbounds) : ~renders(o) THEN Refused
        ELSE IF ~r.ok THEN Refused
        ELSE [ok |-> TRUE,
              nodes |-> [i \in DOMAIN p.outbounds |-> outbound(p.outbounds[i], outboundTag(i))]
                        \o [i \in DOMAIN auto |-> balancerFor(p, auto[i])] \o builtIn,
              rules |-> [i \in DOMAIN r.rules |-> [r.rules[i] EXCEPT !.match = Means(@)]],
              strategy |-> r.strategy, final |-> outboundTag(1),
              bootstrap |-> <<>>, undeclared |-> {}]

-----------------------------------------------------------------------------
displayName(o) == IF o.name = <<>> THEN o.id ELSE o.name

(* The member that a choice by id or by display name pins, <<>> for none:   *)
(* the first that either fits.                                              *)
resolveMember(p, group, name) ==
    LET g == GroupByName(p, group)
        fits == {i \in DOMAIN g.members :
                    \/ g.members[i] = name
                    \/ g.members[i] \in Ids(p) /\ displayName(OutboundByID(p, g.members[i])) = name}
    IN  IF group \notin GroupNames(p) THEN <<>>
        ELSE IF g.type # "select" \/ fits = {} THEN <<>>
        ELSE g.members[Min(fits)]

(* What Groups reports as the choice of a select group.                     *)
Selected(p, sel, group) ==
    LET g == GroupByName(p, group)
        pinned == IF group \in DOMAIN sel THEN sel[group] ELSE g.members[1]
    IN  IF pinned \in Ids(p) THEN displayName(OutboundByID(p, pinned)) ELSE pinned
=============================================================================
