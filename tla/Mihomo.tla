------------------------------- MODULE Mihomo -------------------------------
(***************************************************************************)
(* engine/mihomo/render.go, proxy.go and rules.go: the configuration of     *)
(* mihomo for a plan.                                                       *)
(***************************************************************************)
EXTENDS Config

(* Names keep letters, digits and a few marks.  Of the tokens of a name " " *)
(* becomes "_", "/" is dropped, and "-", "_" and "." do not stay at the ends.*)
sanitizeName(name, fallback) ==
    LET src == IF name = <<>> THEN fallback ELSE name
        kept == SelectSeq(src, LAMBDA t : t # "/")
        out == Trim([i \in DOMAIN kept |-> IF kept[i] = " " THEN "_" ELSE kept[i]], {"-", "_", "."})
    IN  IF out = <<>> THEN <<"server">> ELSE out

uniqueName(name, used) ==
    LET numbered(n) == IF n = 1 THEN name ELSE name \o <<"-", ToString(n)>>
    IN  numbered(CHOOSE n \in 1 .. Cardinality(used) + 1 :
            /\ numbered(n) \notin used
            /\ \A m \in 1 .. n - 1 : numbered(m) \in used)

transports == {"", "tcp", "raw", "ws", "httpupgrade", "grpc", "h2", "xhttp"}

(* Whether buildProxy, applyTransport and applyTLS take an outbound: REALITY *)
(* needs a public key.  The transport of WireGuard goes through the table.  *)
buildProxy(o) ==
    /\ (o.protocol \notin {"direct", "wireguard"} /\ o.tls.reality) => o.pbk # ""
    /\ CASE o.protocol = "direct" -> TRUE
         [] o.protocol \in {"socks5", "http"} -> o.server # ""
         [] o.protocol = "wireguard" -> o.addresses > 0 /\ o.peers > 0 /\ o.transport \in transports
         [] o.protocol \in {"shadowsocks", "vmess", "vless", "trojan", "hysteria2", "tuic"} ->
               o.server # "" /\ o.transport \in transports
         [] OTHER -> FALSE

applyTLSOwn(o) == Link(o, o.protocol \in {"vless", "vmess", "trojan", "hysteria2", "tuic"}, o.transport)

(* The layers applyTransport and applyTLS put around it.                    *)
applyTLS(o) ==
    LET bare == o.protocol \in {"direct", "wireguard"}
        on == ~bare /\ (o.tls.enabled \/ o.protocol \in {"trojan", "hysteria2", "tuic"})
        plain == bare \/ o.protocol \in {"socks5", "http"} \/ o.transport \in {"tcp", "raw"}
    IN  Link(o, on, IF plain THEN "" ELSE o.transport)

buildProxies(p) ==
    LET Step(acc, o) == LET name == uniqueName(sanitizeName(o.name, o.id), acc.used)
                        IN  [byID |-> (o.id :> name) @@ acc.byID, used |-> acc.used \cup {name}]
    IN  FoldLeft(Step, [byID |-> <<>>, used |-> {}], p.outbounds).byID

(* The names of the plan's outbounds and groups in mihomo.                  *)
names(p) ==
    buildProxies(p) @@ [g \in GroupNames(p) |-> sanitizeName(g, <<>>)]

buildGroup(byID, g) ==
    Node(byID[g.name], IF g.type = "select" THEN "select" ELSE "auto", g.name,
         [i \in DOMAIN g.members |-> byID[g.members[i]]], NoLink)

ruleTypes ==
    "domain" :> "DOMAIN" @@ "domain-suffix" :> "DOMAIN-SUFFIX" @@
    "domain-keyword" :> "DOMAIN-KEYWORD" @@ "ip-cidr" :> "IP-CIDR" @@ "geoip" :> "GEOIP" @@
    "geosite" :> "GEOSITE" @@ "rule-set" :> "RULE-SET" @@ "port" :> "DST-PORT" @@
    "process" :> "PROCESS-NAME"

(* What each of them tests.                                                 *)
tests ==
    "DOMAIN" :> "domain" @@ "DOMAIN-SUFFIX" :> "domain-suffix" @@
    "DOMAIN-KEYWORD" :> "domain-keyword" @@ "IP-CIDR" :> "ip-cidr" @@ "GEOIP" :> "geoip" @@
    "GEOSITE" :> "geosite" @@ "RULE-SET" :> "rule-set" @@ "DST-PORT" :> "port" @@
    "PROCESS-NAME" :> "process"

ruleTarget(byID, t) ==
    CASE t = Direct       -> <<"DIRECT">>
      [] t = Reject       -> <<"REJECT">>
      [] t = <<"pass">>   -> <<"ACCEPT">>
      [] t = <<"dns">>    -> <<"NO-ADAPT">>
      [] t \in DOMAIN byID -> byID[t]
      [] OTHER            -> <<>>

(* A rule by address has mihomo resolve a name, unless it is marked         *)
(* no-resolve.  A rule that takes all is added unless the last rule is one. *)
buildRules(rules, byID) ==
    LET line(r) == [match |-> IF r.type = "match" THEN <<"any">> ELSE <<ruleTypes[r.type], r.value>>,
                    to |-> ruleTarget(byID, r.target),
                    resolves |-> r.type \in ByAddress /\ ~r.noResolve]
        out == [i \in DOMAIN rules |-> line(rules[i])]
    IN  IF out = <<>> \/ Last(rules).type # "match"
        THEN Append(out, Line(<<"any">>, <<"DIRECT">>))
        ELSE out

Means(m) == IF m = <<"any">> THEN m ELSE Attr(tests[m[1]], m[2])

(* default-nameserver: every resolver that is not dialled through a proxy.  *)
buildDNS(d) == [i \in DOMAIN d.servers |-> d.servers[i].address]

(* dns-hijack of the adapter takes the queries before the rules see them.   *)
buildTun(p) == IF p.tun.enabled THEN <<Line(DNSQuery, <<"#dns">>)>> ELSE <<>>

Render(p) ==
    LET byID == names(p)
        known == \A g \in ToSet(p.groups) : ToSet(g.members) \subseteq DOMAIN byID
        rules == buildRules(p.rules, byID)
    IN  IF ~Validate(p) \/ (p.tun.enabled /\ ~p.dns.enabled) THEN Refused
        ELSE IF \E o \in ToSet(p.outbounds) : ~buildProxy(o) THEN Refused
        ELSE IF ~known \/ \E r \in ToSet(rules) : r.to = <<>> THEN Refused
        ELSE [ok |-> TRUE,
              nodes |-> [i \in DOMAIN p.outbounds |->
                            Proxy(byID[p.outbounds[i].id], p.outbounds[i], applyTLS(p.outbounds[i]))]
                        \o [i \in DOMAIN p.groups |-> buildGroup(byID, p.groups[i])]
                        \o <<Node(<<"DIRECT">>, "direct", Direct, <<>>, NoLink),
                             Node(<<"REJECT">>, "block", Reject, <<>>, NoLink),
                             Node(<<"#dns">>, "dns", <<"dns">>, <<>>, NoLink)>>,
              rules |-> buildTun(p) \o [i \in DOMAIN rules |-> [rules[i] EXCEPT !.match = Means(@)]],
              strategy |-> "AsIs", final |-> <<"DIRECT">>,
              bootstrap |-> IF p.dns.enabled THEN buildDNS(p.dns) ELSE <<>>,
              undeclared |-> {r.value : r \in {x \in ToSet(p.rules) : x.type = "rule-set"}}]

(* PlanNames: the name of the plan for a name of the engine.                *)
PlanNames(p) ==
    LET byID == names(p)
    IN  [t \in {byID[k] : k \in DOMAIN byID} |->
            LET same == {k \in DOMAIN byID : byID[k] = t}
            IN  IF same \cap GroupNames(p) # {} THEN CHOOSE k \in same \cap GroupNames(p) : TRUE
                ELSE CHOOSE k \in same : TRUE]
=============================================================================
