----------------------------- MODULE MCPipeline -----------------------------
(***************************************************************************)
(* Small machines, documents and requests for Pipeline.                     *)
(***************************************************************************)
EXTENDS Pipeline

-----------------------------------------------------------------------------
(* Machines: which engines are there, on which system.                      *)

Versions(s, x, m) == "sing-box" :> s @@ "xray" :> x @@ "mihomo" :> m

Machine(os, versions) ==
    [os |-> os, version |-> versions, fork |-> FALSE, tpws |-> FALSE, pin |-> ""]

Stock == Versions(<<1, 13, 0>>, <<26, 3, 27>>, <<1, 19, 32>>)

MCHosts ==
    {[Machine("linux", Stock) EXCEPT !.tpws = TRUE],
     Machine("windows", Stock),
     [Machine("linux", [Stock EXCEPT !["sing-box"] = <<1, 14, 3>>]) EXCEPT !.fork = TRUE],
     Machine("windows", Versions(<<>>, <<26, 3, 27>>, <<1, 19, 0>>)),
     Machine("linux", Versions(<<1, 11, 9>>, <<26, 3, 27>>, <<>>)),
     [Machine("linux", Stock) EXCEPT !.pin = "mihomo"]}

-----------------------------------------------------------------------------
(* Documents: lists of links, JSON and YAML objects, WireGuard files.       *)

L0 == [blank |-> FALSE, scheme |-> "vless", json |-> <<>>, host |-> "host", port |-> 443,
       user |-> "uuid1", pass |-> "", name |-> <<"x">>, transport |-> "", security |-> "",
       insecure |-> FALSE, obfs |-> "", obfsparam |-> "", encryption |-> "", pbk |-> "pk",
       addresses |-> 0, peers |-> 0, amnezia |-> ""]

Blank == [L0 EXCEPT !.blank = TRUE]

Vless ==
    {[L0 EXCEPT !.transport = t, !.security = s, !.insecure = i, !.encryption = e] :
        t \in {"", "ws", "h2", "xhttp"}, s \in {"none", "tls", "reality"},
        i \in BOOLEAN, e \in {""}}
    \cup {[L0 EXCEPT !.security = "tls", !.encryption = "mlkem"],
          [L0 EXCEPT !.security = "tls", !.transport = "httpupgrade"],
          [L0 EXCEPT !.security = "reality", !.pbk = ""]}

Passwords ==
    {[L0 EXCEPT !.scheme = s, !.user = "secret", !.transport = t, !.insecure = i] :
        s \in {"trojan", "hysteria2", "hy2"}, t \in {"", "ws"}, i \in BOOLEAN}
    \cup {[L0 EXCEPT !.scheme = s, !.user = "method", !.pass = "secret", !.obfs = o] :
        s \in {"ss", "hysteria2"}, o \in {"", "http"}}

Proxies ==
    {[L0 EXCEPT !.scheme = s, !.user = u, !.pass = u, !.security = t] :
        s \in {"socks", "socks5", "http", "https"}, u \in {"", "someone"}, t \in {"", "tls"}}
    \cup {[L0 EXCEPT !.scheme = "tuic", !.pass = "secret", !.insecure = i] : i \in BOOLEAN}
    \cup {[L0 EXCEPT !.scheme = "vmess", !.transport = t, !.security = s] :
            t \in {"", "ws"}, s \in {"", "none", "tls"}}

Wires ==
    {[L0 EXCEPT !.scheme = "wireguard", !.user = "key", !.addresses = a, !.peers = p, !.amnezia = z] :
        a \in 0 .. 1, p \in 0 .. 1, z \in {"", "basic", "extended"}}

Wrong ==
    {[L0 EXCEPT !.port = 0], [L0 EXCEPT !.user = "nonsense"], [L0 EXCEPT !.scheme = "ftp"],
     [L0 EXCEPT !.scheme = "wireguard", !.port = 0], [L0 EXCEPT !.host = ""]}

D0 == [empty |-> FALSE, start |-> "", scheme |-> FALSE, json |-> FALSE, clash |-> FALSE,
       wg |-> FALSE, base64 |-> FALSE, lines |-> <<>>, items |-> <<>>,
       conf |-> [host |-> "", port |-> 0, key |-> "", addresses |-> 0, peers |-> 0, amnezia |-> ""]]

Lists ==
    {[D0 EXCEPT !.scheme = TRUE, !.lines = <<l>>] : l \in Vless \cup Passwords \cup Proxies \cup Wires}
    \cup {[D0 EXCEPT !.base64 = TRUE, !.lines = <<l, Blank, L0>>] : l \in Wrong}
    \cup {[D0 EXCEPT !.base64 = TRUE, !.lines = <<L0, l>>] : l \in
            {L0, [L0 EXCEPT !.user = "uuid2"], [L0 EXCEPT !.security = "tls"]}}
    \cup {[D0 EXCEPT !.scheme = TRUE,
                     !.lines = <<[L0 EXCEPT !.scheme = "socks", !.user = "a", !.pass = "p"],
                                 [L0 EXCEPT !.scheme = "socks", !.user = u, !.pass = "q"]>>] :
            u \in {"a", "b"}}
    \cup {[D0 EXCEPT !.base64 = TRUE,
                     !.lines = <<L0, [L0 EXCEPT !.port = 444], [L0 EXCEPT !.port = 445],
                                 [L0 EXCEPT !.port = 446]>>]}

M0 == [type |-> "", tag |-> <<"x">>, server |-> "host", host |-> "", port |-> 443, uuid |-> "",
       password |-> "", method |-> "", network |-> "", security |-> ""]

(* An object of SIP008 has no type, one of v2rayN no "server".              *)
Objects ==
    {[xray |-> FALSE, map |-> m] : m \in
        {[M0 EXCEPT !.password = "secret", !.method = "method"],
         [M0 EXCEPT !.type = "vless", !.uuid = "uuid1", !.security = "tls"],
         [M0 EXCEPT !.type = "shadowsocks", !.password = "secret", !.method = "method"],
         [M0 EXCEPT !.type = "anytls", !.password = "secret"]}}
    \cup {[xray |-> TRUE, conf |-> [body |-> b, remarks |-> r, host |-> h, port |-> 443,
                                    transport |-> "", security |-> "tls"]] :
            b \in {"good", "empty"}, r \in {<<>>, <<"x">>}, h \in {"", "host"}}

JSONs ==
    {[D0 EXCEPT !.json = TRUE, !.items = <<o>>] : o \in Objects}
    \cup {[D0 EXCEPT !.clash = TRUE, !.items = <<[xray |-> FALSE, map |-> [M0 EXCEPT !.type = t]]>>] :
            t \in {"trojan", "tuic"}}
    \cup {[D0 EXCEPT !.scheme = TRUE,
                     !.lines = <<[L0 EXCEPT !.scheme = "vmess",
                                            !.json = <<[M0 EXCEPT !.type = "none", !.server = ""]>>]>>]}

Files ==
    {[D0 EXCEPT !.wg = TRUE, !.conf = [host |-> h, port |-> 443, key |-> "key", addresses |-> 1,
                                       peers |-> 1, amnezia |-> z]] :
        h \in {"", "host"}, z \in {"", "basic", "extended"}}

MCDocuments ==
    Lists \cup JSONs \cup Files
    \cup {[D0 EXCEPT !.empty = TRUE], [D0 EXCEPT !.start = "http"], D0}

-----------------------------------------------------------------------------
(* Requests.                                                                *)

A == <<"a">>
B == <<"b">>
G == <<"g">>
H == <<"h">>

NoLocal == [enabled |-> FALSE, user |-> "", password |-> ""]

R0 == [outbounds |-> <<>>, groups |-> <<>>, routes |-> <<>>,
       routing |-> [preset |-> "", target |-> <<>>, ads |-> FALSE], engines |-> <<>>,
       tunnel |-> "proxy", stack |-> "", local |-> NoLocal, control |-> TRUE, fragment |-> FALSE,
       dns |-> <<>>, exempt |-> {}]

MCSettings ==
    {[R0 EXCEPT !.tunnel = t, !.engines = e] :
        t \in {"proxy", "system"}, e \in {<<>>, <<"xray", "mihomo">>}}
    \cup {[R0 EXCEPT !.control = FALSE],
          [R0 EXCEPT !.tunnel = "system", !.stack = "system", !.engines = <<"xray">>],
          [R0 EXCEPT !.fragment = TRUE],
          [R0 EXCEPT !.routing.ads = TRUE]}

O0 == [id |-> A, name |-> <<"x">>, protocol |-> "vless", transport |-> "", security |-> "tls",
       host |-> "host", port |-> 443, ref |-> <<>>, bypass |-> <<>>]

Two == <<O0, [O0 EXCEPT !.id = B, !.name = <<"y">>]>>

Each == {[R0 EXCEPT !.outbounds = Two, !.engines = <<k>>, !.tunnel = t] :
            k \in Kinds, t \in {"proxy", "system"}}

To(t, preset) == [preset |-> preset, target |-> t, ads |-> preset # ""]

Group1(type, members) == [name |-> G, type |-> type, members |-> members]
Group2(type, members) == [name |-> H, type |-> type, members |-> members]

GroupLists ==
    {<<Group1(t, <<A, B>>)>> : t \in GroupTypes}
    \cup {<<Group1(t, <<A, H>>), Group2(u, <<B, A>>)>> :
            t \in {"select", "url-test"}, u \in {"select", "load-balance"}}
    \cup {<<Group1("select", m)>> : m \in {<<Direct, A>>, <<Reject, A>>, <<G>>, <<<<"nobody">>>>, <<>>}}
    \cup {<<Group1("url-test", <<H>>), Group2("select", <<B>>)>>,
          <<Group1("select", <<H>>), Group2("select", <<B, G>>)>>,
          <<Group1("select", <<A>>), Group1("select", <<B>>)>>}

Grouped == {[r EXCEPT !.groups = g, !.routing = To(G, "")] : r \in Each, g \in GroupLists}

Dest(prefix, value) == [prefix |-> prefix, value |-> value, slash |-> FALSE, colon |-> FALSE]

Dests ==
    {Dest("full", "site"), Dest("domain", "site"), Dest("", "site"), Dest("geosite", "CN"),
     Dest("geoip", "CN"), Dest("geoip", "LAN"), Dest("ruleset", "https"), Dest("ruleset", "local"),
     Dest("process", "browser"), [Dest("", "cidr") EXCEPT !.slash = TRUE],
     [Dest("", "host:443") EXCEPT !.colon = TRUE], Dest("full", ""), Dest("full", "odd")}

Route(d, t) == [destination |-> d, target |-> t]

Ruled ==
    {[r EXCEPT !.routes = <<Route(d, t)>>, !.routing = To(B, p)] :
        r \in Each, d \in Dests, t \in {A, Direct, Reject}, p \in {"", "cn"}}
    \cup {[r EXCEPT !.routes = <<Route(d, A), Route(e, t)>>] :
        r \in Each, d \in {Dest("full", "site"), Dest("geoip", "CN")},
        e \in {Dest("domain", "site"), Dest("geoip", "cn"), Dest("process", "browser")},
        t \in {Direct, Reject, B}}
    \cup {[r EXCEPT !.routes = <<Route(Dest("full", "site"), t)>>] :
        r \in Each, t \in {<<"block">>, <<"nobody">>, <<>>}}

(* Names that some engine simplifies or that meet; the order changes.       *)
Named ==
    {[R0 EXCEPT !.outbounds = IF turned THEN <<b, a>> ELSE <<a, b>>,
                !.groups = <<Group1("select", <<A, B>>)>>, !.routing = To(G, ""), !.engines = <<k>>] :
        a \in {[O0 EXCEPT !.name = n] : n \in {<<"x">>, <<>>, B, G}},
        b \in {[O0 EXCEPT !.id = B, !.name = n] : n \in {<<"x">>, <<"x", "/">>, <<"x", " ", "x">>, <<"/">>}},
        turned \in BOOLEAN, k \in Kinds}

Wide ==
    {[R0 EXCEPT !.outbounds = [i \in 1 .. n |-> [O0 EXCEPT !.id = <<"n", ToString(i)>>, !.name = <<"n", ToString(i)>>]],
                !.groups = <<Group1("load-balance", <<<<"n", "1">>>>)>>, !.routing = To(G, "")] :
        n \in {10, 11}}

Resolved ==
    {[r EXCEPT !.dns = d, !.routing = To(A, "global")] :
        r \in Each,
        d \in {<<[transport |-> "tls", address |-> "host"]>>,
               <<[transport |-> "tls", address |-> "host"], [transport |-> "udp", address |-> "address"]>>,
               <<[transport |-> "udp", address |-> "bad"]>>}}

Strategy == [split |-> 2, parses |-> TRUE, disorder |-> FALSE, casing |-> FALSE]

Bypassed ==
    {[R0 EXCEPT !.outbounds = <<[O0 EXCEPT !.protocol = "bypass", !.host = "", !.port = 0, !.bypass = b],
                                [O0 EXCEPT !.id = B]>>,
                !.routing = To(A, "cn")] :
        b \in {<<Strategy>>, <<[Strategy EXCEPT !.split = 0]>>, <<[Strategy EXCEPT !.parses = FALSE]>>, <<>>}}

Odd ==
    {[R0 EXCEPT !.outbounds = Two, !.tunnel = "unspecified"],
     [R0 EXCEPT !.outbounds = Two, !.stack = "gvisor"],
     [R0 EXCEPT !.outbounds = Two, !.local = [enabled |-> TRUE, user |-> "u", password |-> "p"]],
     [R0 EXCEPT !.outbounds = Two, !.tunnel = "system", !.local = [enabled |-> TRUE, user |-> "u", password |-> ""]],
     [R0 EXCEPT !.outbounds = Two, !.tunnel = "system", !.stack = "mips"],
     [R0 EXCEPT !.outbounds = Two, !.exempt = {"word"}],
     [R0 EXCEPT !.outbounds = Two, !.exempt = {"word", "two words"}],
     [R0 EXCEPT !.outbounds = Two, !.engines = <<"sing-box", "other">>],
     [R0 EXCEPT !.outbounds = <<O0, O0>>],
     [R0 EXCEPT !.outbounds = <<[O0 EXCEPT !.port = 70000]>>],
     [R0 EXCEPT !.outbounds = <<[O0 EXCEPT !.ref = <<"lost">>]>>],
     [R0 EXCEPT !.outbounds = <<[O0 EXCEPT !.host = "url"]>>],
     [R0 EXCEPT !.outbounds = <<[O0 EXCEPT !.protocol = "direct", !.host = ""]>>],
     R0}

MCRequests == Grouped \cup Ruled \cup Named \cup Wide \cup Resolved \cup Bypassed \cup Odd

MCPicks == {<<G, A>>, <<G, B>>, <<G, <<"x">>>>, <<G, H>>, <<H, A>>, <<<<"nobody">>, A>>}

(* Bounds.  One import, before the first session.  The choices that an      *)
(* engine saves are made in one session, and only requests with odd names   *)
(* for the same engine follow it.  Only a plan with groups has members to   *)
(* choose.                                                                  *)
Quiet == \A k \in Kinds : wish[k] = <<>>

Following == {in \in Named : wish[in.engines[1]] # <<>>}

Grouping == Running /\ session.plan.groups # <<>>

MCNext ==
    \/ Quiet /\ session = Idle /\ servers = <<>> /\ \E doc \in Documents : Import(doc)
    \/ session = Idle /\ \E in \in IF Quiet THEN Asked ELSE Following : StartSession(in)
    \/ Grouping /\ (Quiet \/ asked # NoChoice) /\ \E c \in Picks : SelectClash(c[1], c[2])
    \/ Grouping /\ \E c \in Picks : SelectXray(c[1], c[2])
    \/ StopSession

MCSpec == Init /\ [][MCNext]_vars
=============================================================================
