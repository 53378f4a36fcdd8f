------------------------------ MODULE Pipeline ------------------------------
(***************************************************************************)
(* From an import to a running engine.  Servers are imported into the vault *)
(* and handed to the client without their credentials; the client asks for  *)
(* a session; the core builds the plan, chooses an engine, renders its      *)
(* configuration and starts it; the user chooses members of groups; another *)
(* session follows on the same machine.                                     *)
(*                                                                         *)
(* Processes and failures of engines are the subject of Supervisor and      *)
(* Session; here an engine runs when its own check passes.                  *)
(***************************************************************************)
EXTENDS Request, Config

CONSTANTS Hosts, Documents, Requests, Settings, Picks

SB == INSTANCE SingBox
XR == INSTANCE Xray
MH == INSTANCE Mihomo

VARIABLES
    host,       \* the machine
    vault,      \* the credential documents by reference
    servers,    \* what the last import returned to the client
    source,     \* the document they came from
    session,    \* "idle", "refused" or the plan that runs and its engine
    sel,        \* the pinned members of Xray's select groups, in memory
    chosen,     \* the members in use in mihomo's and sing-box's selectors
    saved,      \* the same in the cache file of each engine
    asked,      \* the last accepted choice of the user in this session
    wish        \* for each engine, the member its user last chose in a group

vars == <<host, vault, servers, source, session, sel, chosen, saved, asked, wish>>

Idle == [state |-> "idle"]
Running == session.state = "running"
NoChoice == <<>>

-----------------------------------------------------------------------------
(* Xray behind mihomo's adapter.                                            *)

bridgeID == <<"sora-xray-bridge">>

(* The two plans of the bridge.  SOCKS loses the process of a connection.   *)
bridgeRefuses(p, os) ==
    \E r \in ToSet(p.rules) :
        r.type = "process" /\ (os # "windows" \/ r.target \notin {Direct, Reject})

xrayPlan(p) ==
    [p EXCEPT !.tun = NoTun, !.local = [enabled |-> TRUE, user |-> "bridge", password |-> "secret"]]

tunPlan(p, os) ==
    LET socks == [p.outbounds[1] EXCEPT
                    !.id = bridgeID, !.name = bridgeID, !.protocol = "socks5", !.server = "address",
                    !.port = 1, !.transport = "", !.user = "bridge", !.password = "secret",
                    !.tls = [enabled |-> FALSE, insecure |-> FALSE, reality |-> FALSE],
                    !.profile = "", !.amnezia = "", !.obfs = "", !.encryption = ""]
        all == matchAll(bridgeID)
        own == [all EXCEPT !.type = "process", !.value = "xray", !.target = Direct]
        sent(r) == IF isBuiltInTarget(r.target) THEN r ELSE [r EXCEPT !.target = bridgeID]
    IN  [p EXCEPT !.outbounds = <<socks>>, !.groups = <<>>, !.fragment = FALSE,
                  !.rules = IF os = "windows"
                            THEN <<own>> \o [i \in DOMAIN p.rules |-> sent(p.rules[i])] \o <<all>>
                            ELSE <<all>>]

-----------------------------------------------------------------------------
(* The configuration an engine is given, and where it sends a flow.         *)

RenderFor(p, kind, pins) ==
    LET q == Rewrite(p)
    IN  CASE kind = "sing-box" -> SB!Render(q)
          [] kind = "mihomo"   -> MH!Render(q)
          [] kind = "xray"     -> XR!Render(IF Bridged(q, host, kind) THEN xrayPlan(q) ELSE q, pins)

(* The adapter's configuration where there is one in front of Xray.         *)
Adapter(p, kind) ==
    LET q == Rewrite(p)
    IN  IF Bridged(q, host, kind) THEN <<MH!Render(tunPlan(q, host.os))>> ELSE <<>>

(* Supervisor.Validate: the renderer, then the engine's own check.          *)
Starts(p, kind) ==
    LET q == Rewrite(p)
    IN  /\ Loads(RenderFor(p, kind, <<>>))
        /\ Bridged(q, host, kind) => ~bridgeRefuses(q, host.os) /\ Loads(Adapter(p, kind)[1])

(* The core's own sockets bypass the adapter, so no flow of an application  *)
(* has the attribute of the Xray process.  Behind mihomo, Xray is asked for *)
(* the address of a destination or for its name, whichever mihomo hands on. *)
(* A decision has the engine that made it and the flow as it saw it.        *)
RenderedDecisions(cfg, front, flow) ==
    LET first == Decision(front[1], <<>>, flow)
        made(by, as, to) == [by |-> by, as |-> as, to |-> to]
        own(as) == made(session.kind, as, Decision(cfg, chosen, as))
        handed(named) == [has |-> {a \in flow.has : a[1] # "process"}, named |-> named]
    IN  IF front = <<>> THEN {own(flow)}
        ELSE IF bridgeID \in first THEN {own(handed(n)) : n \in {flow.named, TRUE}}
        ELSE {made("mihomo", flow, first)}

(* The pinned members in the plan's names.                                  *)
PlanNames(p, kind) == IF kind = "mihomo" THEN MH!PlanNames(Rewrite(p)) ELSE SB!PlanNames(Rewrite(p))

Pinned(p, kind) ==
    IF kind = "xray" THEN sel
    ELSE LET names == PlanNames(p, kind)
             plan(n) == IF n \in DOMAIN names THEN names[n] ELSE n
         IN  [g \in {plan(t) : t \in DOMAIN chosen} |->
                 plan(chosen[CHOOSE t \in DOMAIN chosen : plan(t) = g])]

engineName(p, kind, name) ==
    LET names == PlanNames(p, kind)
        same == {t \in DOMAIN names : names[t] = name}
    IN  IF same = {} THEN name ELSE CHOOSE t \in same : TRUE

(* Whether display names tell the outbounds and groups of a plan apart even *)
(* after the engines have simplified them.                                  *)
NamesPlain(p) ==
    LET shown == [i \in DOMAIN p.outbounds |-> MH!sanitizeName(p.outbounds[i].name, p.outbounds[i].id)]
                 \o [i \in DOMAIN p.groups |-> MH!sanitizeName(p.groups[i].name, <<>>)]
    IN  IsInjective(shown)

(* The name a member of a group is displayed by.                            *)
NameIn(p, m) == IF m \in Ids(p) THEN OutboundByID(p, m).name ELSE m

-----------------------------------------------------------------------------
Init ==
    /\ host \in Hosts
    /\ vault = <<>>
    /\ servers = <<>>
    /\ source = <<>>
    /\ session = Idle
    /\ sel = <<>>
    /\ chosen = <<>>
    /\ saved = [k \in Kinds |-> <<>>]
    /\ asked = NoChoice
    /\ wish = [k \in Kinds |-> <<>>]

(* ParseImport: the credentials into the vault, the rest to the client.     *)
Import(doc) ==
    LET got == parsePayload(doc)
    IN  /\ servers' = got.outbounds
        /\ source' = IF got.outbounds = <<>> THEN <<>> ELSE <<doc>>
        /\ vault' = got.puts @@ vault
        /\ UNCHANGED <<host, session, sel, chosen, saved, asked, wish>>

(* The selectors an engine restores from its cache file.                    *)
Restored(cfg, kind) ==
    LET held(t) == \E i \in DOMAIN cfg.nodes :
                      /\ cfg.nodes[i].tag = t /\ cfg.nodes[i].type = "select"
                      /\ saved[kind][t] \in ToSet(cfg.nodes[i].members)
    IN  [t \in {x \in DOMAIN saved[kind] : held(x)} |-> saved[kind][t]]

(* StartSession: the plan, the engine, its configuration, its own check.    *)
StartSession(in) ==
    /\ session.state = "idle"
    /\ sel' = <<>>
    /\ asked' = NoChoice
    /\ \E got \in {planFromProto(in, vault)} : \E kind \in {IF got = <<>> THEN "" ELSE Factory(got[1], host)} :
          IF kind = "" THEN session' = [state |-> "refused"] /\ chosen' = <<>>
          ELSE IF ~Starts(got[1], kind)
          THEN session' = [state |-> "failed", plan |-> got[1], kind |-> kind] /\ chosen' = <<>>
          ELSE /\ session' = [state |-> "running", plan |-> got[1], kind |-> kind]
               /\ chosen' = IF kind = "xray" THEN <<>>
                            ELSE Restored(RenderFor(got[1], kind, <<>>), kind)
    /\ UNCHANGED <<host, vault, servers, source, saved, wish>>

IsMember(cfg, tag, member) ==
    \E i \in DOMAIN cfg.nodes : /\ cfg.nodes[i].tag = tag /\ cfg.nodes[i].type = "select"
                                /\ member \in ToSet(cfg.nodes[i].members)

(* SelectGroupMember on sing-box and mihomo: their API takes a selector and *)
(* one of its members, and writes the choice to the cache file.             *)
SelectClash(group, name) ==
    LET p == session.plan
    IN  /\ Running /\ session.kind # "xray"
        /\ \E tag \in {engineName(p, session.kind, group)}, member \in {engineName(p, session.kind, name)} :
              /\ IsMember(RenderFor(p, session.kind, <<>>), tag, member)
              /\ chosen' = (tag :> member) @@ chosen
              /\ saved' = [saved EXCEPT ![session.kind] = (tag :> member) @@ @]
              /\ \E m \in {PlanNames(p, session.kind)[member]} :
                    wish' = [wish EXCEPT ![session.kind] =
                                (group :> [id |-> m, name |-> NameIn(p, m), plain |-> NamesPlain(p)]) @@ @]
        /\ asked' = <<group, name>>
        /\ UNCHANGED <<host, vault, servers, source, session, sel>>

(* The same on Xray: the member is pinned and the plan applied again.       *)
SelectXray(group, name) ==
    LET p == Rewrite(session.plan)
        member == XR!resolveMember(p, group, name)
    IN  /\ Running /\ session.kind = "xray"
        /\ member # <<>>
        /\ Loads(RenderFor(session.plan, "xray", (group :> member) @@ sel))
        /\ sel' = (group :> member) @@ sel
        /\ asked' = <<group, name>>
        /\ UNCHANGED <<host, vault, servers, source, session, chosen, saved, wish>>

StopSession ==
    /\ session # Idle
    /\ session' = Idle
    /\ sel' = <<>>
    /\ chosen' = <<>>
    /\ asked' = NoChoice
    /\ UNCHANGED <<host, vault, servers, source, saved, wish>>

(* A request for one or all of the imported servers, or, before any import, *)
(* for servers the client describes.                                        *)
Asked ==
    IF servers = <<>> THEN Requests
    ELSE {[s EXCEPT !.outbounds = <<servers[i]>>] : s \in Settings, i \in DOMAIN servers}
         \cup {[s EXCEPT !.outbounds = servers] : s \in Settings}

Next ==
    \/ \E doc \in Documents : Import(doc)
    \/ \E in \in Asked : StartSession(in)
    \/ \E c \in Picks : SelectClash(c[1], c[2])
    \/ \E c \in Picks : SelectXray(c[1], c[2])
    \/ StopSession

Spec == Init /\ [][Next]_vars

-----------------------------------------------------------------------------
PipelineTypeOK ==
    /\ host \in Hosts
    /\ session.state \in {"idle", "refused", "failed", "running"}
    /\ Running => session.kind \in Kinds /\ host.version[session.kind] # <<>>
    /\ source = <<>> <=> servers = <<>>
    /\ DOMAIN saved = Kinds

(* A flow has any of the attributes the plan's rules test, except those of  *)
(* the engine's own process, and comes with an address or a name; through   *)
(* the adapter come queries to resolvers too.                               *)
Flows(p) ==
    LET tested == {Attr(p.rules[i].type, p.rules[i].value) :
                      i \in {j \in DOMAIN p.rules : p.rules[j].type # "match"}}
    IN  [has : SUBSET tested, named : BOOLEAN]
        \cup [has : IF p.tun.enabled THEN {{DNSQuery}, {DNSQuery} \cup tested} ELSE {}, named : {FALSE}]

IsProfile(p) == p.outbounds[1].protocol = "xray-profile"

(* Where the plan sends a flow, as far as an engine knows the flow: mihomo  *)
(* resolves a name at the first rule by address that is not marked          *)
(* no-resolve, Xray and sing-box never do.                                  *)
Resolves(kind, rule) == kind = "mihomo" /\ rule.type \in ByAddress /\ ~rule.noResolve

FirstRule(p, flow, kind) == FirstMatch(p.rules, flow, PlanMeets, LAMBDA r : Resolves(kind, r))

(* What a plan says of a flow, and what its engine does with it.            *)
RouteKept(p, pins, d) ==
    LET first == FirstRule(p, d.as, d.by)
        want == IF first = 0 THEN {Direct} ELSE PlanExits(p, p.rules[first].target, pins)
    IN  IF IsProfile(p)
        THEN first # 0 => (isBuiltInTarget(p.rules[first].target) => d.to = want)
        ELSE /\ d.to # {} /\ d.to \subseteq want
             /\ d.by # "xray" => d.to = want

(* Rules and groups keep their meaning in every engine.  A flow leaves      *)
(* through what the first rule of the plan it meets points at, with the     *)
(* members that are chosen now; a query through the adapter is answered by  *)
(* the engine's resolver.  Of a destination that is a name Xray, whose last *)
(* rule leaves its IPIfNonMatch nothing to retry, and sing-box know no      *)
(* address, so rules by address are passed over; mihomo resolves it.  Where *)
(* mihomo is in front of Xray, what a rule by process takes is decided by   *)
(* mihomo, which alone sees the process.  Xray balances only over the       *)
(* servers of an automatic group, and a provider's profile decides where    *)
(* the plan says "proxy".                                                   *)
(* (render.go of the three engines, rules.go, xraytun plans, Factory)       *)
RoutesPreserved ==
    Running =>
        LET p == session.plan
            byProcess(flow) == LET i == FirstRule(p, flow, "mihomo")
                               IN  i # 0 /\ p.rules[i].type = "process"
        IN  \A pins \in {Pinned(p, session.kind)}, cfg \in {RenderFor(p, session.kind, sel)},
               front \in {Adapter(p, session.kind)} :
                \A flow \in Flows(p) : \A d \in RenderedDecisions(cfg, front, flow) :
                    IF DNSQuery \in flow.has THEN d.to = {<<"dns">>}
                    ELSE /\ RouteKept(p, pins, d)
                         /\ (front # <<>> /\ byProcess(flow)) => d.by = "mihomo"

(* A destination and its target mean the same in every engine, also for a   *)
(* flow that comes with a name.  Not kept: see RoutesPreserved.  (the       *)
(* comment in planFromProto)                                                *)
EnginesAgree ==
    (Running /\ ~IsProfile(session.plan)) =>
        LET p == session.plan
        IN  \A flow \in Flows(p) :
                \A d \in RenderedDecisions(RenderFor(p, session.kind, sel), Adapter(p, session.kind), flow) :
                    \/ DNSQuery \in flow.has
                    \/ RouteKept(p, Pinned(p, session.kind), [d EXCEPT !.as = [flow EXCEPT !.named = FALSE]])

(* A choice is honoured: the member in use has the id or a displayed name   *)
(* that was asked for, the id itself on sing-box and mihomo, and Xray       *)
(* reports it.  (clashapi Select and engineName, xray Select, resolveMember *)
(* and Groups)                                                              *)
SelectHonoured ==
    (Running /\ asked # NoChoice) =>
        LET p == session.plan
            member == Pinned(p, session.kind)[asked[1]]
            fits(m) == \/ m = asked[2]
                       \/ m \in Ids(p) /\ XR!displayName(OutboundByID(p, m)) = asked[2]
                       \/ session.kind # "xray" /\ engineName(p, session.kind, m) = asked[2]
        IN  /\ fits(member)
            /\ session.kind # "xray" /\ asked[2] \in ToSet(GroupByName(p, asked[1]).members)
                  => member = asked[2]
            /\ session.kind = "xray" =>
                  fits(member) /\ XR!Selected(Rewrite(p), sel, asked[1]) \in
                      {asked[2]} \cup {XR!displayName(o) : o \in {x \in ToSet(p.outbounds) : x.id = member}}

(* A choice outlives the session on sing-box and mihomo: the next plan that *)
(* has the group and the member under the same name uses it again, as long  *)
(* as names tell the servers apart in both plans, whatever their order.     *)
(* (cache_file in singbox Render, StoreSelected in mihomo Render,           *)
(* assignTags, uniqueName)                                                  *)
ChoiceSurvives ==
    (Running /\ session.kind # "xray" /\ NamesPlain(session.plan)) =>
        LET p == session.plan
            kept == wish[session.kind]
        IN  \A pinned \in {Pinned(p, session.kind)}, g \in DOMAIN kept \cap GroupNames(p) :
                (/\ kept[g].plain
                 /\ GroupByName(p, g).type = "select"
                 /\ kept[g].id \in ToSet(GroupByName(p, g).members) \cap Ids(p)
                 /\ kept[g].name = NameIn(p, kept[g].id))
                => g \in DOMAIN pinned /\ pinned[g] = kept[g].id

LinkKept(o, link) ==
    LET streamed == o.protocol \in {"vless", "vmess", "trojan", "shadowsocks"}
    IN  /\ o.tls.enabled => link.tls \/ (session.kind = "sing-box" /\ o.protocol = "socks5")
        /\ ~o.tls.insecure => link.verified
        /\ (o.tls.reality /\ streamed) => link.reality
        /\ (streamed /\ o.transport # "tcp") => link.transport = o.transport
        /\ link.encryption = o.encryption
        /\ o.obfs # "" => link.obfs = o.obfs \/ (session.kind = "xray" /\ o.protocol = "shadowsocks")

(* No renderer weakens a connection: what the plan says of TLS, of the      *)
(* check of the certificate, of REALITY, of VLESS encryption, of the        *)
(* transport and of obfuscation is what the engine is told, or more.        *)
(* sing-box has no TLS for SOCKS5 and Xray no obfuscation for Shadowsocks.  *)
(* (outbound and tls of singbox, stream of xray, applyTLS of mihomo)        *)
LayersKept ==
    Running =>
        \A p \in {Rewrite(session.plan)}, cfg \in {RenderFor(session.plan, session.kind, sel)} :
            \A o \in ToSet(p.outbounds) :
                o.protocol \notin {"direct", "wireguard", "xray-profile"} =>
                    LinkKept(o, cfg.nodes[CHOOSE i \in DOMAIN cfg.nodes : cfg.nodes[i].id = o.id].link)

(* The login a link gives for its server, as the scheme writes it.          *)
LinkLogin(l) ==
    CASE l.scheme \in {"trojan", "hysteria2", "hy2", "vless", "vmess", "wireguard", "wg"} -> <<l.user>>
      [] l.scheme = "ss" -> <<l.pass>>
      [] OTHER           -> <<l.user, l.pass>>

LinksTo(o) ==
    {l \in ToSet(source[1].lines) : l.host = o.server /\ l.port = o.port /\ l.json = <<>>}

LoginsOf(o) ==
    LET cfg == RenderFor(session.plan, session.kind, sel)
    IN  {cfg.nodes[i].link.login : i \in {j \in DOMAIN cfg.nodes : cfg.nodes[j].id = o.id}}

(* An imported server is opened with the login of one of the links that     *)
(* name it, whatever the vault and the request did to it in between.        *)
(* Trojan and Hysteria 2 are excepted here.  (parseLink, credentialDocument,*)
(* applyCredential, the three renderers)                                    *)
LoginKept ==
    (Running /\ source # <<>>) =>
        \A o \in ToSet(session.plan.outbounds) :
            (LinksTo(o) # {} /\ o.protocol \notin {"trojan", "hysteria2"}) =>
                LoginsOf(o) \subseteq {LinkLogin(l) : l \in LinksTo(o)}

(* The same for every scheme the client says it opens.                      *)
ImportedLoginUsed ==
    (Running /\ source # <<>>) =>
        \A o \in ToSet(session.plan.outbounds) :
            LinksTo(o) # {} => LoginsOf(o) \subseteq {LinkLogin(l) : l \in LinksTo(o)}

(* A plan that asks for nothing an engine is known to leave out: transports *)
(* all of them have, REALITY with its key, groups of servers and groups,    *)
(* names that stay apart, resolvers by address, rules by domain and address.*)
PlainPlan(p) ==
    /\ \A o \in ToSet(p.outbounds) :
          /\ o.transport \in {"", "tcp", "ws", "grpc", "httpupgrade", "xhttp"}
          /\ o.obfs = "" /\ (o.tls.reality => o.pbk # "")
          /\ o.protocol = "wireguard" => o.addresses > 0 /\ o.peers > 0
    /\ \A g \in ToSet(p.groups) :
          /\ ToSet(g.members) \subseteq Ids(p) \cup GroupNames(p)
          /\ g.type # "select" => ToSet(g.members) \cap Ids(p) # {}
    /\ NamesPlain(p)
    /\ \A r \in ToSet(p.rules) : r.type \notin {"rule-set", "process"}
    /\ \A d \in ToSet(p.dns.servers) : d.address = "address"

(* The engine that is chosen for a plain plan starts: what the catalogue    *)
(* says an engine can do, its renderer does.  (Missing and RequiredFeatures *)
(* against the three Render, Factory, xraytun Validate)                     *)
PlainPlansStart == session.state = "failed" => ~PlainPlan(session.plan)

(* The engine that is chosen for an imported server starts.                 *)
ImportedServerStarts == source # <<>> => session.state # "failed"

(* No group of a session contains itself, however many groups are between.  *)
(* (groupCycle, called for every group by Plan.Validate)                    *)
GroupsAcyclic ==
    Running =>
        LET p == session.plan
            inside == [a \in GroupNames(p), b \in GroupNames(p) |-> b \in Members(p)[a]]
        IN  IsIrreflexive(TransitiveClosure(inside, GroupNames(p)), GroupNames(p))
=============================================================================
