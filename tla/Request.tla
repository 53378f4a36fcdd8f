------------------------------ MODULE Request ------------------------------
(***************************************************************************)
(* From bytes to a plan: the import of servers (parser/parser.go), what the *)
(* vault keeps of each (credentialDocument in control/plan.go), and the     *)
(* plan the core builds from a request of the client (planFromProto).       *)
(*                                                                         *)
(* A document of an import is described by the features its reader looks    *)
(* at; a link by the parts of its URL.  Hashes are kept as what is hashed.  *)
(***************************************************************************)
EXTENDS Plan

CONSTANT MaxItems

(* A string that is empty falls back to another.                            *)
orDefault(value, fallback) == IF value = "" THEN fallback ELSE value

-----------------------------------------------------------------------------
(* The reader of imports.  A parsed server has the fields the rest of the   *)
(* program reads; "wg" are the keys, addresses and peers of WireGuard.      *)

NoSpec ==
    [protocol |-> "", name |-> <<>>, transport |-> "", security |-> "", host |-> "", port |-> 0,
     uuid |-> "", password |-> "", user |-> "", cipher |-> "", insecure |-> FALSE,
     encryption |-> "", obfs |-> "", obfsparam |-> "", pbk |-> "", key |-> "", addresses |-> 0,
     peers |-> 0, amnezia |-> "", profile |-> ""]

Invalid == [ok |-> FALSE, why |-> "invalid"]
Unsupported == [ok |-> FALSE, why |-> "unsupported"]

(* The UUID of a server that has one must read as one.                      *)
validateSpec(o) ==
    /\ o.protocol # "" /\ o.host # "" /\ o.port > 0
    /\ o.protocol \in {"vless", "vmess", "tuic"} => o.uuid \in {"", "uuid1", "uuid2"}

Parsed(o) == IF validateSpec(o) THEN [ok |-> TRUE, spec |-> o] ELSE Invalid

(* What identifies a server from one import to the next.                    *)
StableKey(o) ==
    <<o.protocol, o.host, o.port, o.uuid, o.user>> \o
    (IF o.protocol = "xray-profile" THEN <<o.name>> ELSE <<>>)

Schemes ==
    {"vless", "vmess", "trojan", "ss", "socks", "socks5", "http", "https",
     "hysteria2", "hy2", "tuic", "wireguard", "wg"}

(* One JSON or YAML object.  "m" has the keys the reader asks for; the host *)
(* is the first of "server", "address" and "host" that is there.            *)
mapJSONSpec(m, fallback) ==
    Parsed([NoSpec EXCEPT !.protocol = orDefault(m.type, fallback), !.name = m.tag,
                          !.host = orDefault(m.server, m.host), !.port = m.port,
                          !.uuid = m.uuid, !.password = m.password, !.cipher = m.method,
                          !.transport = orDefault(m.network, "tcp"), !.security = m.security])

(* vmess links hold JSON, or a URL whose security defaults to "auto".       *)
parseVMess(l) ==
    IF l.json # <<>> THEN mapJSONSpec(l.json[1], "vmess")
    ELSE Parsed([NoSpec EXCEPT !.protocol = "vmess", !.name = l.name, !.host = l.host, !.port = l.port,
                          !.uuid = l.user, !.password = l.pass,
                          !.transport = orDefault(l.transport, "tcp"),
                          !.security = orDefault(l.security, "auto")])

(* The key of a wireguard link is its user; the peer is in the query.       *)
parseWireURL(l) ==
    IF l.port = 0 THEN Invalid
    ELSE Parsed([NoSpec EXCEPT !.protocol = "wireguard", !.name = l.name, !.host = l.host,
                               !.port = l.port, !.transport = "udp", !.key = l.user,
                               !.addresses = l.addresses, !.peers = l.peers,
                               !.amnezia = l.amnezia])

Normalised(scheme) ==
    CASE scheme = "ss"    -> "shadowsocks"
      [] scheme = "socks" -> "socks5"
      [] scheme = "hy2"   -> "hysteria2"
      [] scheme = "https" -> "http"
      [] OTHER            -> scheme

(* A Shadowsocks user is "method:password" in base64, or the method alone.  *)
parseLink(l) ==
    LET plain == [NoSpec EXCEPT !.protocol = Normalised(l.scheme), !.name = l.name,
                                !.host = l.host, !.port = l.port, !.insecure = l.insecure,
                                !.user = l.user, !.password = l.pass,
                                !.obfs = l.obfs, !.obfsparam = l.obfsparam,
                                !.encryption = l.encryption, !.pbk = l.pbk]
        secured == IF l.security # "" THEN l.security
                   ELSE IF l.scheme \in {"trojan", "hysteria2", "hy2", "https"} THEN "tls"
                   ELSE "none"
    IN  CASE l.scheme = "vmess"             -> parseVMess(l)
          [] l.scheme \in {"wireguard", "wg"} -> parseWireURL(l)
          [] l.scheme \notin Schemes         -> Unsupported
          [] l.scheme \in Schemes \ {"vmess", "wireguard", "wg"} /\ l.port = 0 -> Invalid
          [] l.scheme = "ss" /\ l.port > 0 ->
                Parsed([plain EXCEPT !.cipher = "method", !.transport = "tcp", !.security = "none"])
          [] l.scheme = "tuic" /\ l.port > 0 ->
                Parsed([plain EXCEPT !.uuid = l.user, !.transport = "tcp", !.security = "tls"])
          [] OTHER ->
                Parsed([plain EXCEPT !.uuid = l.user, !.transport = l.transport, !.security = secured])

(* A list: one server for each new key, a reason for every other line.      *)
parseList(lines) ==
    LET Step(r, l) ==
            IF Len(r.servers) >= MaxItems THEN [r EXCEPT !.unsupported = @ + 1]
            ELSE IF l.blank THEN r
            ELSE LET got == parseLink(l)
                 IN  IF ~got.ok
                     THEN IF got.why = "unsupported" THEN [r EXCEPT !.unsupported = @ + 1]
                          ELSE [r EXCEPT !.invalid = @ + 1]
                     ELSE IF \E i \in DOMAIN r.servers : StableKey(r.servers[i]) = StableKey(got.spec)
                     THEN [r EXCEPT !.duplicates = @ + 1]
                     ELSE [r EXCEPT !.servers = Append(@, got.spec)]
    IN  FoldLeft(Step, [servers |-> <<>>, duplicates |-> 0, unsupported |-> 0, invalid |-> 0], lines)

(* A WireGuard file: the last endpoint that parses is the server's.         *)
parseWG(conf) ==
    Parsed([NoSpec EXCEPT !.protocol = "wireguard", !.transport = "udp",
                          !.host = conf.host, !.port = conf.port, !.key = conf.key,
                          !.addresses = conf.addresses, !.peers = conf.peers,
                          !.amnezia = conf.amnezia])

(* A full Xray configuration is one server; its first proxy is shown.       *)
profileSpec(conf) ==
    Parsed([NoSpec EXCEPT !.protocol = "xray-profile", !.profile = conf.body,
                          !.name = IF TrimSpace(conf.remarks) = <<>> THEN <<conf.host>>
                                   ELSE TrimSpace(conf.remarks),
                          !.host = conf.host, !.port = conf.port,
                          !.transport = orDefault(conf.transport, "tcp"),
                          !.security = orDefault(conf.security, "none")])

(* JSON: every object that is an Xray configuration is a profile, every     *)
(* other one a server.                                                      *)
parseJSON(items) ==
    LET one(it) == IF it.xray THEN profileSpec(it.conf) ELSE mapJSONSpec(it.map, "")
    IN  FoldLeft(LAMBDA acc, it : IF one(it).ok THEN Append(acc, one(it).spec) ELSE acc, <<>>, items)

(* Which reader a document gets, from what it starts with and holds.        *)
Detect(doc) ==
    IF doc.empty THEN "empty"
    ELSE IF doc.start = "http" THEN "http-subscription"
    ELSE IF doc.start = "https" \/ doc.scheme THEN "link"
    ELSE IF doc.json THEN "json"
    ELSE IF doc.clash THEN "clash"
    ELSE IF doc.wg THEN "wireguard"
    ELSE IF doc.base64 THEN "base64"
    ELSE "unknown"

(* The servers of a document, none when it cannot be read.                  *)
Parse(doc) ==
    LET format == Detect(doc)
    IN  CASE format \in {"link", "base64"} -> parseList(doc.lines).servers
          [] format \in {"json", "clash"}  -> parseJSON(doc.items)
          [] format = "wireguard" -> LET got == parseWG(doc.conf)
                                     IN  IF got.ok THEN <<got.spec>> ELSE <<>>
          [] OTHER -> <<>>

-----------------------------------------------------------------------------
(* The vault keeps what the client must not see; the client gets the rest   *)
(* with a reference.                                                        *)

referenceOf(spec) == StableKey(spec)

credentialDocument(spec) ==
    LET shared == {"uuid", "password", "user", "cipher", "security", "encryption", "obfs",
                   "obfsparam", "insecure", "pbk", "profile"}
        wired == {"key", "addresses", "peers", "amnezia"}
        fields == IF spec.protocol = "wireguard" THEN shared \cup wired ELSE shared
    IN  [f \in shared \cup wired |-> IF f \in fields THEN spec[f] ELSE NoSpec[f]]

NoDocument == [f \in {"uuid", "password", "user", "cipher", "security", "encryption", "obfs",
                      "obfsparam", "insecure", "pbk", "profile", "key", "addresses", "peers",
                      "amnezia"} |-> NoSpec[f]]

outboundToProto(spec) ==
    [id |-> <<spec.protocol, spec.host, ToString(spec.port), spec.uuid, spec.user>>
             \o (IF spec.protocol = "xray-profile" THEN spec.name ELSE <<>>),
     name |-> spec.name, protocol |-> spec.protocol, transport |-> spec.transport,
     security |-> spec.security, host |-> spec.host, port |-> spec.port,
     ref |-> <<referenceOf(spec)>>, bypass |-> <<>>]

(* ParseImport: one update of the vault for all the servers.                *)
parsePayload(doc) ==
    LET servers == Parse(doc)
    IN  [outbounds |-> [i \in DOMAIN servers |-> outboundToProto(servers[i])],
         puts |-> [k \in {referenceOf(servers[i]) : i \in DOMAIN servers} |->
                      credentialDocument(servers[Max({i \in DOMAIN servers :
                                                        referenceOf(servers[i]) = k})])]]

-----------------------------------------------------------------------------
(* The plan of a request.                                                   *)

(* REALITY is in the vault with its keys; the request only says "reality".  *)
applyCredential(o, doc) ==
    [o EXCEPT !.uuid = doc.uuid, !.password = doc.password, !.user = doc.user,
              !.obfs = doc.obfs, !.obfsparam = doc.obfsparam, !.encryption = doc.encryption,
              !.pbk = doc.pbk,
              !.tls.insecure = doc.insecure,
              !.tls.enabled = @ \/ doc.security = "reality",
              !.tls.reality = doc.security = "reality",
              !.key = doc.key, !.addresses = doc.addresses, !.peers = doc.peers,
              !.amnezia = doc.amnezia, !.profile = doc.profile]

(* The outbound of a request, <<>> when its id, port or credential is wrong.*)
outboundFromProto(spec, vault) ==
    LET o == [id |-> TrimSpace(spec.id),
              name |-> IF spec.name = <<>> THEN TrimSpace(spec.id) ELSE spec.name,
              protocol |-> spec.protocol, server |-> spec.host, port |-> spec.port,
              transport |-> orDefault(spec.transport, "tcp"),
              tls |-> [enabled |-> spec.security # "none", insecure |-> FALSE, reality |-> FALSE],
              uuid |-> "", password |-> "", user |-> "", obfs |-> "", obfsparam |-> "",
              encryption |-> "", pbk |-> "", key |-> "", addresses |-> 0, peers |-> 0, amnezia |-> "",
              profile |-> "", bypass |-> spec.bypass]
    IN  IF TrimSpace(spec.id) = <<>> \/ spec.port > 65535 THEN <<>>
        ELSE IF spec.ref = <<>> THEN <<o>>
        ELSE IF spec.ref[1] \notin DOMAIN vault THEN <<>>
        ELSE IF vault[spec.ref[1]].amnezia = "bad" \/ vault[spec.ref[1]].profile = "torn" THEN <<>>
        ELSE <<applyCredential(o, vault[spec.ref[1]])>>

(* The type of a rule is the shape of its destination: a prefix, or what is *)
(* in it.                                                                   *)
rulePrefixes == [geosite |-> "geosite", geoip |-> "geoip", ruleset |-> "rule-set",
                 domain |-> "domain-suffix", full |-> "domain", process |-> "process"]

ruleTypeOf(d) ==
    IF d.prefix # "" THEN rulePrefixes[d.prefix]
    ELSE IF d.slash THEN "ip-cidr"
    ELSE IF d.colon THEN "port"
    ELSE "domain-keyword"

(* Names must be valid host names; "odd" is not one.                        *)
ruleIDNA(rule) == rule.type \in {"domain", "domain-suffix"} => rule.value # "odd"

ruleFromProto(r) ==
    [type |-> ruleTypeOf(r.destination), value |-> r.destination.value,
     target |-> TrimSpace(r.target), noResolve |-> FALSE]

(* An address that is exempt from the session is one word.                  *)
checkBypass(entry) == entry = "word"

(* Targets the client may name besides outbounds and groups.                *)
isKnownTarget(t) == t \in {Direct, Reject, <<"block">>}

groupsFromProto(groups) ==
    [i \in DOMAIN groups |-> [groups[i] EXCEPT !.name = TrimSpace(@)]]

groupsAccepted(groups, outbounds) ==
    LET names == {groups[i].name : i \in DOMAIN groups}
    IN  /\ Len(groups) <= MaxGroups
        /\ Cardinality(names) = Len(groups)
        /\ <<>> \notin names
        /\ names \cap outbounds = {}
        /\ \A i \in DOMAIN groups : groups[i].type \in GroupTypes
        /\ \A i \in DOMAIN groups : \A m \in ToSet(groups[i].members) :
              m \in outbounds \cup names \/ isKnownTarget(m)

(* A TUN session without resolvers gets two, by address and encrypted.      *)
dnsFromProto(servers, tun) ==
    LET default == [transport |-> "https", address |-> "address"]
        asked == IF servers = <<>> /\ tun THEN <<default, default>> ELSE servers
    IN  [enabled |-> asked # <<>>,
         servers |-> [i \in 1 .. Min({Len(asked), MaxDNSServers}) |->
                         [tag |-> i, transport |-> asked[i].transport,
                          address |-> asked[i].address]]]

(* The plan of a request in a sequence of one, <<>> when it is refused.     *)
planFromProto(in, vault) ==
    LET outs == [i \in DOMAIN in.outbounds |-> outboundFromProto(in.outbounds[i], vault)]
        outbounds == [i \in DOMAIN outs |-> outs[i][1]]
        ids == {outbounds[i].id : i \in DOMAIN outbounds}
        groups == groupsFromProto(in.groups)
        seen == ids \cup {groups[i].name : i \in DOMAIN groups}
        routes == [i \in DOMAIN in.routes |-> ruleFromProto(in.routes[i])]
        routed == Apply(routes, in.routing)
        tun == in.tunnel = "system"
        plan == [engines |-> in.engines, private |-> ~in.control, fragment |-> in.fragment,
                 tun |-> [enabled |-> tun, stack |-> in.stack],
                 local |-> [enabled |-> in.local.enabled \/ ~tun, user |-> in.local.user,
                            password |-> in.local.password],
                 outbounds |-> outbounds, groups |-> groups, rules |-> routed.rules,
                 dns |-> dnsFromProto(in.dns, tun)]
        accepted ==
            /\ Len(in.outbounds) \in 1 .. MaxOutbounds
            /\ Len(in.routes) <= MaxRules
            /\ in.stack = "" \/ tun
            /\ tun \/ in.local.user = ""
            /\ (in.local.user = "") = (in.local.password = "")
            /\ \A i \in DOMAIN outs : outs[i] # <<>>
            /\ Cardinality(ids) = Len(outbounds)
            /\ in.tunnel # "unspecified"
            /\ groupsAccepted(groups, ids)
            /\ \A i \in DOMAIN routes :
                  /\ in.routes[i].destination.value # "" /\ routes[i].target # <<>>
                  /\ ruleIDNA(routes[i])
                  /\ routes[i].target \in seen \/ isKnownTarget(routes[i].target)
            /\ in.routing.target = <<>> \/ in.routing.target \in seen
            /\ routed.ok
            /\ \A e \in in.exempt : checkBypass(e)
            /\ Validate(plan)
    IN  IF accepted THEN <<plan>> ELSE <<>>
=============================================================================
