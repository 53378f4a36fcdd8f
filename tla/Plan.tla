-------------------------------- MODULE Plan --------------------------------
(***************************************************************************)
(* The plan of a session (engine/plan.go), what makes one valid            *)
(* (engine/validate.go, refs.go, fields.go), the routing presets            *)
(* (routing/presets.go) and the choice of the engine that will run it       *)
(* (engine/catalog.go, engine/registry/registry.go).                        *)
(*                                                                         *)
(* Everything here is a function of the plan and of the machine.  An id, a  *)
(* display name or a rule target is a sequence of tokens, one token for     *)
(* each stretch of characters the program treats alike, so that trimming    *)
(* and sanitising are what the program does to them.  A server, an address  *)
(* or a value of a rule is one of a few representatives of its class.       *)
(***************************************************************************)
EXTENDS Naturals, Sequences, FiniteSets, SequencesExt, FiniteSetsExt, Relation

CONSTANTS MaxOutbounds, MaxGroups, MaxRules, MaxDNSServers

Kinds == {"mihomo", "sing-box", "xray"}

Protocols ==
    {"vless", "vmess", "trojan", "shadowsocks", "hysteria2", "tuic", "wireguard",
     "socks5", "http", "anytls", "bypass", "xray-profile", "direct"}

GroupTypes == {"select", "url-test", "fallback", "load-balance"}

RuleTypes ==
    {"domain", "domain-suffix", "domain-keyword", "ip-cidr", "geoip", "geosite",
     "rule-set", "port", "process", "match"}

Direct == <<"direct">>
Reject == <<"reject">>

(* Tokens a name may hold; " " and "/" stand for the characters that some   *)
(* renderer drops or replaces.                                              *)
Trim(s, cut) ==
    LET kept == {i \in DOMAIN s : s[i] \notin cut}
    IN  IF kept = {} THEN <<>> ELSE SubSeq(s, Min(kept), Max(kept))

TrimSpace(s) == Trim(s, {" "})

TLS == [enabled : BOOLEAN, insecure : BOOLEAN, reality : BOOLEAN]

(* What a bypass outbound does to a handshake: the number of split          *)
(* positions, whether each parses, and the remaining switches.              *)
BypassStrategy ==
    [split : Nat, parses : BOOLEAN, disorder : BOOLEAN, casing : BOOLEAN]

(* An outbound with the credentials the vault holds for it.  Of WireGuard   *)
(* it keeps how many addresses and peers there are.                         *)
Outbound ==
    [id : Seq(STRING), name : Seq(STRING), protocol : Protocols \cup {""},
     server : STRING, port : Nat, transport : STRING, tls : TLS,
     uuid : STRING, password : STRING, user : STRING, key : STRING,
     obfs : STRING, obfsparam : STRING, encryption : STRING, pbk : STRING,
     amnezia : {"", "basic", "extended"}, addresses : Nat, peers : Nat,
     profile : {"", "good", "empty"},
     bypass : {<<>>} \cup {<<s>> : s \in BypassStrategy}]

Group == [name : Seq(STRING), type : GroupTypes, members : Seq(Seq(STRING))]

Rule == [type : RuleTypes, value : STRING, target : Seq(STRING), noResolve : BOOLEAN]

DNSServer == [tag : Nat, transport : STRING, address : {"", "host", "address", "bad"}]

Ids(p) == {p.outbounds[i].id : i \in DOMAIN p.outbounds}

GroupNames(p) == {p.groups[i].name : i \in DOMAIN p.groups}

OutboundByID(p, id) == p.outbounds[CHOOSE i \in DOMAIN p.outbounds : p.outbounds[i].id = id]

GroupByName(p, name) == p.groups[CHOOSE i \in DOMAIN p.groups : p.groups[i].name = name]

-----------------------------------------------------------------------------
(* Validation.                                                              *)

isBuiltInTarget(t) == t \in {Direct, Reject, <<"pass">>, <<"dns">>}

validateDisplayName(name) == TrimSpace(name) = name

(* Addresses and hostnames only, never a URL.                               *)
validateServer(server, required) ==
    IF server = "" THEN ~required ELSE server # "url"

validateBypass(o) ==
    /\ o.bypass # <<>>
    /\ LET s == o.bypass[1]
       IN  /\ s.split > 0 \/ s.casing
           /\ s.split <= 8
           /\ s.parses
           /\ s.disorder => s.split > 0

ValidateOutbound(o) ==
    LET serverless == o.protocol \in {"direct", "bypass"}
    IN  /\ o.id # <<>>
        /\ validateDisplayName(o.name)
        /\ o.protocol # ""
        /\ serverless \/ o.port > 0
        /\ validateServer(o.server, ~serverless)
        /\ o.protocol = "bypass" => validateBypass(o)
        /\ o.protocol = "xray-profile" => o.profile = "good"

ValidateRule(r) ==
    /\ r.value # "" \/ r.type = "match"
    /\ r.type = "ip-cidr" => r.value = "cidr"
    /\ r.type = "port" => r.value = "443"

(* The depth-first search for a group that contains itself.  members maps   *)
(* the name of every group to the set of its members.                       *)
RECURSIVE groupCycle(_, _, _)
groupCycle(group, members, visiting) ==
    \/ group \in visiting
    \/ \E m \in members[group] :
          m \in DOMAIN members /\ groupCycle(m, members, visiting \cup {group})

Members(p) ==
    [g \in GroupNames(p) |-> ToSet(GroupByName(p, g).members)]

ValidateDNS(d) ==
    d.enabled =>
        /\ Len(d.servers) <= MaxDNSServers
        /\ \A i \in DOMAIN d.servers : d.servers[i].address \in {"host", "address"}

ValidateTun(t) == t.enabled => t.stack \in {"", "system", "gvisor", "mixed", "mips"}

Validate(p) ==
    LET refs == Ids(p) \cup GroupNames(p)
    IN  /\ Len(p.outbounds) \in 1 .. MaxOutbounds
        /\ Len(p.groups) <= MaxGroups
        /\ Len(p.rules) <= MaxRules
        /\ \A i \in DOMAIN p.outbounds : ValidateOutbound(p.outbounds[i])
        /\ Cardinality(Ids(p)) = Len(p.outbounds)
        /\ (\E i \in DOMAIN p.outbounds : p.outbounds[i].protocol = "xray-profile") =>
              Len(p.outbounds) = 1 /\ p.groups = <<>>
        /\ Ids(p) \cap GroupNames(p) = {}
        /\ (p.local.user = "") = (p.local.password = "")
        /\ Cardinality(GroupNames(p)) = Len(p.groups)
        /\ \A i \in DOMAIN p.groups :
              /\ validateDisplayName(p.groups[i].name)
              /\ p.groups[i].members # <<>>
              /\ \A m \in ToSet(p.groups[i].members) : m \in refs \/ isBuiltInTarget(m)
              /\ ~groupCycle(p.groups[i].name, Members(p), {})
        /\ \A i \in DOMAIN p.rules :
              /\ ValidateRule(p.rules[i])
              /\ p.rules[i].target \in refs \/ isBuiltInTarget(p.rules[i].target)
        /\ ValidateDNS(p.dns)
        /\ ValidateTun(p.tun)

-----------------------------------------------------------------------------
(* Presets: the user's rules first, then advertising, then what the preset  *)
(* sends direct, then everything else to the proxy.                         *)

geoip(cc) == [type |-> "geoip", value |-> cc, target |-> Direct, noResolve |-> TRUE]
geosite(tag) == [type |-> "geosite", value |-> tag, target |-> Direct, noResolve |-> FALSE]

(* The other presets have the shape of "cn".                                *)
presets == [global |-> <<geoip("private")>>,
            cn     |-> <<geoip("private"), geosite("cn"), geoip("cn")>>]

adsRule == [geosite("category-ads-all") EXCEPT !.target = Reject]

matchAll(to) == [type |-> "match", value |-> "", target |-> to, noResolve |-> FALSE]

(* The rules, or <<>> in a sequence of its own when the options are wrong.  *)
Apply(user, opts) ==
    IF \E i \in DOMAIN user : user[i].type = "match" THEN [ok |-> TRUE, rules |-> user]
    ELSE IF opts.preset = "" /\ ~opts.ads /\ opts.target = <<>> THEN [ok |-> TRUE, rules |-> user]
    ELSE IF opts.target = <<>> \/ opts.preset \notin DOMAIN presets \cup {""}
    THEN [ok |-> FALSE, rules |-> <<>>]
    ELSE [ok |-> TRUE,
          rules |-> user \o (IF opts.ads THEN <<adsRule>> ELSE <<>>)
                         \o (IF opts.preset = "" THEN <<>> ELSE presets[opts.preset])
                         \o <<matchAll(opts.target)>>]

-----------------------------------------------------------------------------
(* The engines.  A machine is described by its system, the version of every *)
(* build it has (<<>> for none), whether its sing-box is the fork with the  *)
(* optional transports, whether tpws is installed, and the engine the       *)
(* service is pinned to ("" for none).                                      *)

Less(a, b) ==
    \/ a[1] < b[1]
    \/ a[1] = b[1] /\ a[2] < b[2]
    \/ a[1] = b[1] /\ a[2] = b[2] /\ a[3] < b[3]

Catalog ==
    [mihomo |->
        [min |-> <<1, 19, 0>>,
         protocols |-> Protocols \ {"anytls", "bypass", "xray-profile"},
         features |-> {"tun", "rule-sets", "url-test", "fallback", "load-balance",
                       "xhttp", "vless-encryption", "amnezia", "private-control"}],
     singbox |->
        [min |-> <<1, 12, 0>>,
         protocols |-> Protocols \ {"bypass", "xray-profile"},
         features |-> {"tun", "rule-sets", "url-test", "tls-fragment"}],
     xray |->
        [min |-> <<26, 3, 27>>,
         protocols |-> Protocols \ {"tuic", "anytls", "bypass"},
         features |-> {"url-test", "load-balance", "tls-fragment", "xhttp",
                       "vless-encryption", "private-control"}]]

Entry(kind) == IF kind = "sing-box" THEN Catalog.singbox ELSE Catalog[kind]

(* Xray's adapter needs the routes that only Linux gets from the core.      *)
XrayTun(host) == IF host.os = "linux" THEN {"tun"} ELSE {}

BuildCapabilities(kind, host) ==
    LET caps == Entry(kind)
        more == IF kind = "xray" THEN XrayTun(host)
                ELSE IF kind = "sing-box" /\ host.fork
                        /\ ~Less(host.version[kind], <<1, 14, 3>>)
                THEN {"xhttp", "vless-encryption", "amnezia"}
                ELSE {}
    IN  [caps EXCEPT !.features = @ \cup more]

RequiredFeatures(p) ==
    LET wants(f, b) == IF b THEN {f} ELSE {}
        some(P(_)) == \E i \in DOMAIN p.outbounds : P(p.outbounds[i])
        grouped(t) == \E i \in DOMAIN p.groups : p.groups[i].type = t
    IN  UNION {wants("tun", p.tun.enabled),
               wants("rule-sets", \E i \in DOMAIN p.rules : p.rules[i].type = "rule-set"),
               wants("url-test", grouped("url-test")),
               wants("fallback", grouped("fallback")),
               wants("load-balance", grouped("load-balance")),
               wants("xhttp", some(LAMBDA o : o.transport = "xhttp")),
               wants("vless-encryption", some(LAMBDA o : o.encryption \notin {"", "none"})),
               wants("amnezia", some(LAMBDA o : o.amnezia # "")),
               wants("tls-fragment", p.fragment),
               wants("private-control", p.private)}

(* An outbound whose certificate check is off, which Xray no longer takes.  *)
Unverified(o) ==
    /\ o.tls.insecure /\ ~o.tls.reality
    /\ o.tls.enabled \/ o.protocol \in {"trojan", "hysteria2"}

Missing(kind, caps, p) ==
    UNION {IF /\ p.tun.enabled /\ p.tun.stack # ""
              /\ \/ kind = "xray" /\ p.tun.stack # "gvisor"
                 \/ kind = "sing-box" /\ p.tun.stack = "mips"
           THEN {"tun stack"} ELSE {},
           IF kind = "xray" /\ \E i \in DOMAIN p.outbounds : Unverified(p.outbounds[i])
           THEN {"verification"} ELSE {},
           IF kind = "sing-box" /\ \E i \in DOMAIN p.outbounds : p.outbounds[i].amnezia = "extended"
           THEN {"amnezia parameters"} ELSE {},
           {p.outbounds[i].protocol : i \in DOMAIN p.outbounds} \ caps.protocols,
           RequiredFeatures(p) \ caps.features}

(* Whether one engine of the machine carries the whole plan.                *)
SelectEngine(p, host, kind) ==
    LET caps == BuildCapabilities(kind, host)
    IN  /\ host.version[kind] # <<>>
        /\ ~Less(host.version[kind], caps.min)
        /\ Missing(kind, caps, p) = {}

DefaultPreference == <<"sing-box", "xray", "mihomo">>
PrivatePreference == <<"sing-box", "mihomo", "xray">>

Pin(host) == IF host.pin = "" THEN DefaultPreference ELSE <<host.pin>>

(* The order the service, the request or the default asks for; none when    *)
(* the request names an engine there is not.                                *)
order(host, requested) ==
    IF Len(Pin(host)) = 1 \/ requested = <<>> THEN Pin(host)
    ELSE IF ToSet(requested) \subseteq Kinds THEN requested ELSE <<>>

(* Xray carries a TUN plan with mihomo in front of it where its own stack   *)
(* or its routes are missing.                                               *)
Bridged(p, host, kind) ==
    /\ kind = "xray"
    /\ p.tun.enabled
    /\ host.os # "linux" \/ p.tun.stack \in {"system", "mixed", "mips"}

NoTun == [enabled |-> FALSE, stack |-> ""]

BridgeReady(host) ==
    host.version["mihomo"] # <<>> /\ ~Less(host.version["mihomo"], <<1, 19, 32>>)

Carries(p, host, kind) ==
    LET candidate == IF Bridged(p, host, kind) THEN [p EXCEPT !.tun = NoTun] ELSE p
    IN  /\ SelectEngine(candidate, host, kind)
        /\ Bridged(p, host, kind) => BridgeReady(host)

(* The first engine of the order that carries the plan, "" for none.        *)
selectPlan(p, host, kinds) ==
    LET able == {i \in DOMAIN kinds : Carries(p, host, kinds[i])}
    IN  IF able = {} THEN "" ELSE kinds[Min(able)]

HasBypass(p) == \E i \in DOMAIN p.outbounds : p.outbounds[i].protocol = "bypass"

(* A bypass outbound is a SOCKS5 proxy on this machine to the engine.       *)
Rewrite(p) ==
    [p EXCEPT !.outbounds =
        [i \in DOMAIN @ |->
            IF @[i].protocol # "bypass" THEN @[i]
            ELSE [@[i] EXCEPT !.protocol = "socks5", !.server = "address", !.port = 1,
                              !.transport = "", !.bypass = <<>>,
                              !.tls = [enabled |-> FALSE, insecure |-> FALSE, reality |-> FALSE]]]]

(* The engine a session is given, or "".                                    *)
Factory(p, host) ==
    LET kinds == IF p.engines = <<>> /\ p.private THEN PrivatePreference
                 ELSE order(host, p.engines)
    IN  IF HasBypass(p) /\ ~host.tpws THEN "" ELSE selectPlan(Rewrite(p), host, kinds)
=============================================================================
