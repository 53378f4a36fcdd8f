------------------------------- MODULE Config -------------------------------
(***************************************************************************)
(* What the three renderers produce, to the extent that routing, selection  *)
(* and protection of a connection depend on it, and what an engine does     *)
(* with it.  A configuration is                                             *)
(*   [ok, nodes, rules, strategy, final, bootstrap, undeclared]             *)
(* where a node is an outbound, a group or a balancer, a rule sends what    *)
(* its matcher meets to a node, and "final" takes the rest; "strategy" is   *)
(* Xray's domainStrategy, "bootstrap" are the resolvers of resolver names   *)
(* and "undeclared" the rule sets it uses without saying where they come    *)
(* from.                                                                    *)
(***************************************************************************)
EXTENDS Plan, TLC

Refused == [ok |-> FALSE]

(* The layers around a connection and the login it opens with.              *)
NoLink == [tls |-> FALSE, verified |-> TRUE, reality |-> FALSE, obfs |-> "", transport |-> "",
           encryption |-> "", login |-> <<>>]

Node(tag, type, id, members, link) ==
    [tag |-> tag, type |-> type, id |-> id, members |-> members, link |-> link]

Proxy(tag, o, link) == Node(tag, "proxy", o.id, <<>>, link)

(* Which of the credentials a protocol opens a connection with.             *)
Login(o) ==
    CASE o.protocol \in {"vless", "vmess"}  -> <<o.uuid>>
      [] o.protocol = "tuic"                -> <<o.uuid, o.password>>
      [] o.protocol \in {"socks5", "http"}  -> <<o.user, o.password>>
      [] o.protocol = "wireguard"           -> <<o.key>>
      [] o.protocol \in {"trojan", "shadowsocks", "hysteria2", "anytls"} -> <<o.password>>
      [] OTHER                              -> <<>>

(* The layers of an outbound as the plan states them; "on" says that the    *)
(* renderer puts TLS around it.                                             *)
Link(o, on, transport) ==
    [tls |-> on, verified |-> ~(on /\ o.tls.insecure), reality |-> on /\ o.tls.reality,
     obfs |-> o.obfs, transport |-> transport, encryption |-> o.encryption, login |-> Login(o)]

-----------------------------------------------------------------------------
(* Flows.  A flow has attributes, and a matcher stands for one of them: a   *)
(* kind of test and its value.  A flow is "named" when its client asked for *)
(* a hostname (through the local proxy) and no address is known: then what  *)
(* it "has" by its address is known only to an engine that resolves it.  A  *)
(* flow to an address may have attributes of a name too, by sniffing.       *)

Lower(v) == CASE v = "CN" -> "cn" [] v = "LAN" -> "lan" [] OTHER -> v

Attr(type, value) ==
    IF type = "geoip" THEN <<type, IF Lower(value) = "lan" THEN "private" ELSE Lower(value)>>
    ELSE IF type = "geosite" THEN <<type, Lower(value)>>
    ELSE <<type, value>>

(* A query to a resolver that arrives through the adapter.                  *)
DNSQuery == <<"query", "tun">>

ByAddress == {"ip-cidr", "geoip"}

(* What an engine knows of a flow before and after it resolves its name.    *)
Known(flow, resolved) ==
    IF flow.named /\ ~resolved THEN {a \in flow.has : a[1] \notin ByAddress} ELSE flow.has

(* The first rule that a flow meets, 0 for none; a rule that resolves lets  *)
(* itself and the rules after it see the address.                           *)
FirstMatch(rules, flow, Meets(_, _), Resolves(_)) ==
    LET resolved(i) == flow.named /\ \E j \in 1 .. i : Resolves(rules[j])
        met == {i \in DOMAIN rules : Meets(rules[i], Known(flow, resolved(i)))}
    IN  IF met = {} THEN 0 ELSE Min(met)

(* Where a target of the plan may lead: an outbound, "direct" or "reject".  *)
(* pinned maps select groups to the member in use.                          *)
RECURSIVE PlanExits(_, _, _)
PlanExits(p, target, pinned) ==
    IF target \in Ids(p) \cup {Direct, Reject} THEN {target}
    ELSE IF target \notin GroupNames(p) THEN {}
    ELSE LET g == GroupByName(p, target)
         IN  IF g.type = "select"
             THEN PlanExits(p, IF g.name \in DOMAIN pinned THEN pinned[g.name] ELSE g.members[1], pinned)
             ELSE UNION {PlanExits(p, m, pinned) : m \in ToSet(g.members)}

PlanMeets(rule, known) == rule.type = "match" \/ Attr(rule.type, rule.value) \in known

-----------------------------------------------------------------------------
(* What an engine does with a configuration.                                *)

NodesAt(cfg, tag) == {i \in DOMAIN cfg.nodes : cfg.nodes[i].tag = tag}

NodeAt(cfg, tag) == cfg.nodes[CHOOSE i \in NodesAt(cfg, tag) : TRUE]

(* A balancer takes every outbound whose tag begins with one of its         *)
(* selectors; a selector that was never set uses its first member.          *)
RECURSIVE Exits(_, _, _)
Exits(cfg, tag, chosen) ==
    IF NodesAt(cfg, tag) = {} THEN {}
    ELSE LET n == NodeAt(cfg, tag)
         IN  CASE n.type = "direct" -> {Direct}
               [] n.type = "block"  -> {Reject}
               [] n.type \in {"proxy", "dns"} -> {n.id}
               [] n.type = "select" ->
                     Exits(cfg, IF tag \in DOMAIN chosen THEN chosen[tag] ELSE n.members[1], chosen)
               [] n.type = "auto"   -> UNION {Exits(cfg, m, chosen) : m \in ToSet(n.members)}
               [] n.type = "balancer" ->
                     {cfg.nodes[i].id : i \in {j \in DOMAIN cfg.nodes :
                         /\ cfg.nodes[j].type = "proxy"
                         /\ \E m \in ToSet(n.members) : IsPrefix(m, cfg.nodes[j].tag)}}

Line(match, to) == [match |-> match, to |-> to, resolves |-> FALSE]

(* IPIfNonMatch: a name that meets no rule is resolved and tried again.     *)
Decision(cfg, chosen, flow) ==
    LET Meets(rule, known) == rule.match = <<"any">> \/ rule.match \in known
        first(f) == FirstMatch(cfg.rules, f, Meets, LAMBDA r : r.resolves)
        i == IF first(flow) = 0 /\ cfg.strategy = "IPIfNonMatch"
             THEN first([flow EXCEPT !.named = FALSE]) ELSE first(flow)
    IN  Exits(cfg, IF i = 0 THEN cfg.final ELSE cfg.rules[i].to, chosen)

(* The engine's own check of a configuration: every name it refers to is    *)
(* declared once, no group or balancer is empty, and a resolver that has to *)
(* be resolved is not what resolves it.                                     *)
Declared(cfg) == {cfg.nodes[i].tag : i \in DOMAIN cfg.nodes}

Referred(cfg) ==
    {cfg.rules[i].to : i \in DOMAIN cfg.rules} \cup {cfg.final} \cup
    UNION {ToSet(cfg.nodes[i].members) : i \in DOMAIN cfg.nodes}

Loads(cfg) ==
    /\ cfg.ok
    /\ Cardinality(Declared(cfg)) = Len(cfg.nodes)
    /\ Referred(cfg) \subseteq Declared(cfg)
    /\ \A i \in DOMAIN cfg.nodes :
          cfg.nodes[i].type \in {"select", "auto", "balancer"} => cfg.nodes[i].members # <<>>
    /\ \A i \in DOMAIN cfg.bootstrap : cfg.bootstrap[i] # "host"
    /\ cfg.undeclared = {}
=============================================================================
