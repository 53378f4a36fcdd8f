------------------------------ MODULE SingBox ------------------------------
(***************************************************************************)
(* engine/singbox/render.go: the configuration of sing-box for a plan.      *)
(* Proxy-only resolvers, resolver policies and fake addresses are left out: *)
(* no request can ask for them (dnsFromProto sets none of them).            *)
(***************************************************************************)
EXTENDS Config

uniqueByOrder(used, name, fallback) == TrimSpace(name) \o <<"-", ToString(Cardinality(used))>>

(* Tags: the display name when it is free, else the fallback, numbered.     *)
unique(used, name, fallback) ==
    LET numbered(n) == IF n = 1 THEN fallback ELSE fallback \o <<"-", ToString(n)>>
    IN  IF TrimSpace(name) # <<>> /\ TrimSpace(name) \notin used THEN TrimSpace(name)
        ELSE numbered(CHOOSE n \in 1 .. Cardinality(used) + 1 :
                 /\ numbered(n) \notin used
                 /\ \A m \in 1 .. n - 1 : numbered(m) \in used)

assignTags(p) ==
    LET named == [i \in DOMAIN p.outbounds |->
                    [key |-> p.outbounds[i].id, name |-> p.outbounds[i].name,
                     fallback |-> p.outbounds[i].id]]
                 \o [i \in DOMAIN p.groups |->
                    [key |-> p.groups[i].name, name |-> p.groups[i].name, fallback |-> <<"group">>]]
        Step(acc, x) == LET tag == unique(acc.used, x.name, x.fallback)
                        IN  [tags |-> (x.key :> tag) @@ acc.tags, used |-> acc.used \cup {tag}]
    IN  FoldLeft(Step, [tags |-> <<>>, used |-> {Direct}], named).tags

(* The tag of a target, <<>> for one sing-box has not.                      *)
target(tags, id) ==
    IF id = Direct THEN Direct ELSE IF id \in DOMAIN tags THEN tags[id] ELSE <<>>

transports == {"", "tcp", "ws", "grpc", "h2", "httpupgrade", "xhttp"}

wireguard(o) == o.addresses > 0 /\ o.peers > 0 /\ o.amnezia # "extended"

(* Whether an outbound can be rendered, and its layers.                     *)
renders(o) ==
    CASE o.protocol \in {"direct", "socks5"} -> TRUE
      [] o.protocol = "wireguard"            -> wireguard(o)
      [] OTHER                               -> o.transport \in transports

outbound(o, tag) ==
    LET needsTLS == o.protocol \in {"trojan", "hysteria2", "tuic", "anytls"}
        bare == o.protocol \in {"direct", "socks5", "wireguard"}
    IN  Proxy(tag, o, Link(o, ~bare /\ (o.tls.enabled \/ needsTLS),
                           IF bare \/ o.transport = "tcp" THEN "" ELSE o.transport))

group(tags, g) ==
    Node(tags[g.name], IF g.type = "select" THEN "select" ELSE "auto", g.name,
         [i \in DOMAIN g.members |-> target(tags, g.members[i])], NoLink)

(* Matchers.  Rule sets are downloaded once for each address.               *)
geoSet(rule) == <<rule.type, Lower(rule.value)>>

remoteRuleSet(sets, tag, url) ==
    LET have == {i \in DOMAIN sets : sets[i].url = url}
    IN  IF have # {} THEN [tag |-> sets[CHOOSE i \in have : TRUE].tag, sets |-> sets]
        ELSE [tag |-> tag, sets |-> Append(sets, [tag |-> tag, url |-> url])]

fields ==
    "domain" :> "domain" @@ "domain-suffix" :> "domain_suffix" @@
    "domain-keyword" :> "domain_keyword" @@ "ip-cidr" :> "ip_cidr" @@
    "port" :> "port" @@ "process" :> "process_name"

(* The matcher of a rule with the rule sets after it; <<>> when refused.    *)
match(rule, sets) ==
    LET private == rule.type = "geoip" /\ Lower(rule.value) \in {"private", "lan"}
        remote(r) == [on |-> <<"rule_set", r.tag>>, sets |-> r.sets]
    IN  IF rule.type \in DOMAIN fields
        THEN [on |-> <<fields[rule.type], rule.value>>, sets |-> sets]
        ELSE IF private THEN [on |-> <<"ip_is_private", "true">>, sets |-> sets]
        ELSE IF rule.type \in {"geoip", "geosite"}
        THEN remote(remoteRuleSet(sets, geoSet(rule), geoSet(rule)))
        ELSE IF rule.type = "rule-set" /\ rule.value = "https"
        THEN remote(remoteRuleSet(sets, <<"rule-set", ToString(Len(sets) + 1)>>, <<"url", rule.value>>))
        ELSE [on |-> <<>>, sets |-> sets]

(* The rules in the order of the plan, up to the one that takes all.  What  *)
(* is sniffed comes first, which a flow's attributes include, then queries. *)
route(p, tags) ==
    LET ends == {i \in DOMAIN p.rules : p.rules[i].type = "match" /\ p.rules[i].target # Reject}
        n == IF ends = {} THEN Len(p.rules) ELSE Min(ends) - 1
        final == IF ends = {} THEN Direct ELSE target(tags, p.rules[n + 1].target)
        to(rule) == IF rule.target = Reject THEN <<"#reject">>
                    ELSE IF rule.target = <<"dns">> THEN <<"#hijack-dns">>
                    ELSE target(tags, rule.target)
        Step(acc, rule) ==
            IF rule.type = "match"
            THEN [acc EXCEPT !.rules = Append(@, Line(<<"any">>, <<"#reject">>))]
            ELSE LET m == match(rule, acc.sets)
                 IN  [rules |-> Append(acc.rules, Line(m.on, to(rule))), sets |-> m.sets,
                      ok |-> acc.ok /\ m.on # <<>> /\ to(rule) # <<>>]
        queries == Line(<<"protocol", "dns">>, <<"#hijack-dns">>)
        built == FoldLeft(Step, [ok |-> final # <<>>, rules |-> <<queries>>, sets |-> <<>>],
                          SubSeq(p.rules, 1, n))
    IN  [ok |-> built.ok, rules |-> built.rules, sets |-> built.sets, final |-> final]

(* The resolver of proxy and resolver hostnames is the first server with an *)
(* address, or the system's.                                                *)
dns(p) ==
    LET own == p.dns.servers
        known == {i \in DOMAIN own : own[i].address = "address"}
    IN  IF known = {} THEN <<"local">> ELSE <<own[Min(known)].address>>

(* What each matcher of sing-box tests.                                     *)
tests ==
    "domain" :> "domain" @@ "domain_suffix" :> "domain-suffix" @@
    "domain_keyword" :> "domain-keyword" @@ "ip_cidr" :> "ip-cidr" @@
    "port" :> "port" @@ "process_name" :> "process"

Means(sets, on) ==
    IF on[1] = "any" THEN on
    ELSE IF on[1] = "protocol" THEN DNSQuery
    ELSE IF on[1] \in DOMAIN tests THEN <<tests[on[1]], on[2]>>
    ELSE IF on[1] = "ip_is_private" THEN <<"geoip", "private">>
    ELSE LET url == sets[CHOOSE i \in DOMAIN sets : sets[i].tag = on[2]].url
         IN  IF url[1] = "url" THEN <<"rule-set", url[2]>> ELSE url

Render(p) ==
    LET tags == assignTags(p)
        r == route(p, tags)
        known == \A g \in ToSet(p.groups) : /\ g.type \in {"select", "url-test"}
                                            /\ \A m \in ToSet(g.members) : target(tags, m) # <<>>
    IN  IF ~known \/ ~r.ok \/ \E o \in ToSet(p.outbounds) : ~renders(o) THEN Refused
        ELSE [ok |-> TRUE,
              nodes |-> [i \in DOMAIN p.outbounds |->
                            outbound(p.outbounds[i], tags[p.outbounds[i].id])]
                        \o [i \in DOMAIN p.groups |-> group(tags, p.groups[i])]
                        \o <<Node(Direct, "direct", Direct, <<>>, NoLink),
                             Node(<<"#reject">>, "block", Reject, <<>>, NoLink),
                             Node(<<"#hijack-dns">>, "dns", <<"dns">>, <<>>, NoLink)>>,
              rules |-> [i \in DOMAIN r.rules |->
                            [r.rules[i] EXCEPT !.match = Means(r.sets, @)]],
              strategy |-> "AsIs", final |-> r.final, bootstrap |-> dns(p), undeclared |-> {}]

(* PlanNames: the name of the plan for a tag of the engine.                 *)
PlanNames(p) ==
    LET tags == assignTags(p)
    IN  [t \in {tags[k] : k \in DOMAIN tags} |-> CHOOSE k \in DOMAIN tags : tags[k] = t]
=============================================================================
