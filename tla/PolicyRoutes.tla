---------------------------- MODULE PolicyRoutes ----------------------------
(***************************************************************************)
(* engine/tunroute/tunroute_linux.go: the policy routing rules, the table   *)
(* and the addresses the core keeps in the Linux kernel for a TUN device,   *)
(* beside rules of other programs.  Every run of the "ip" command is one    *)
(* step, may fail, and the core may be killed between any two.              *)
(*                                                                         *)
(* A rule is a record of its selectors; "owner" is who added it, which the  *)
(* kernel does not know.  The kernel keeps rules by priority, equal ones in *)
(* the order they came.  Priorities are written 33 for 5333.                *)
(***************************************************************************)
EXTENDS Naturals, Sequences, FiniteSets, SequencesExt

CONSTANTS
    Families,   \* the sequence of address families of the kernel
    Others,     \* rules other programs may add
    Legacy,     \* rules an older core may have left
    MaxFaults   \* bound on the kills of the core and the commands that fail

VARIABLES
    rules,      \* the rules of each family
    defaults,   \* the families with a default route in the core's table
    addrs,      \* the addresses on the TUN device
    device,     \* whether the engine has the TUN device up
    pc,         \* where the core is in the procedure it runs
    goal,       \* that procedure: "route", "unroute", "cleanup", "rollback"
    fams,       \* the families unroute has still to do
    queue,      \* what it read and has not looked at
    kept,       \* what it left of it
    failed,     \* whether it met an error
    steps,      \* the commands route has still to run
    result,     \* how the last procedure ended
    faults      \* kills and failures so far

policyVars ==
    <<rules, defaults, addrs, device, pc, goal, fams, queue, kept, failed, steps, result, faults>>

policyRest == <<device, faults>>

Fams == ToSet(Families)

Blank ==
    [prio |-> 0, table |-> "", proto |-> "242", goto |-> 0, src |-> "all", oif |-> "", iif |-> "",
     uid |-> "", port |-> "", suppress |-> "", extra |-> FALSE, owner |-> "core"]

-----------------------------------------------------------------------------
(* The kernel.                                                              *)

(* After every rule of the same or a smaller priority.                      *)
Inserted(list, r) ==
    LET before == {i \in DOMAIN list : list[i].prio <= r.prio}
    IN  InsertAt(list, Cardinality(before) + 1, r)

Selectors == {"prio", "table", "proto", "goto", "src", "oif", "iif", "uid", "port", "suppress", "extra"}

Same(a, b) == \A s \in Selectors : a[s] = b[s]

(* rule_find: a selector that is left out fits everything.                  *)
Fits(want, r) ==
    /\ want.prio = r.prio
    /\ \A s \in {"table", "src", "oif", "iif", "uid", "port", "suppress"} :
          want[s] \in {"", "all"} \/ want[s] = r[s]
    /\ want.proto \in {"", "0"} \/ want.proto = r.proto
    /\ (want.goto = 0) = (r.goto = 0)

Removed(list, want) ==
    LET fit == {i \in DOMAIN list : Fits(want, list[i])}
    IN  RemoveAt(list, CHOOSE i \in fit : \A j \in fit : i <= j)

(* Whether a packet of this machine meets the selectors of a rule.          *)
Meets(r, p) ==
    /\ r.src \in {"all", p.src}
    /\ r.oif \in {"", p.oif}
    /\ r.uid \in {"", p.uid}
    /\ r.port \in {"", p.port}
    /\ ~r.extra

(* Where a packet goes from rule i on: the tunnel, the main table, or what  *)
(* another program's table says.  The main table has only its default       *)
(* route for the packet, which a rule may suppress.                         *)
RECURSIVE Lookup(_, _, _, _)
Lookup(list, f, p, i) ==
    IF i > Len(list) THEN "main"
    ELSE LET r == list[i]
             later == {j \in DOMAIN list : list[j].prio >= r.goto}
             next == Lookup(list, f, p, i + 1)
         IN  IF ~Meets(r, p) THEN next
             ELSE IF r.goto # 0
             THEN Lookup(list, f, p, IF later = {} THEN Len(list) + 1 ELSE CHOOSE j \in later : \A k \in later : j <= k)
             ELSE IF r.table = "5340" THEN (IF f \in defaults THEN "tunnel" ELSE next)
             ELSE IF r.table = "main" /\ r.suppress # "" THEN next
             ELSE r.table

-----------------------------------------------------------------------------
(* The core's rules.                                                        *)

(* A bound socket keeps its interface, and a foreign tunnel its addresses.  *)
Interfaces == {"eth0", "wg0"}

bypassSteps(f) ==
    <<[Blank EXCEPT !.prio = 37, !.oif = "eth0", !.table = "main"],
      [Blank EXCEPT !.prio = 37, !.oif = "wg0", !.table = "main"],
      [Blank EXCEPT !.prio = 37, !.src = "wg0", !.table = "main"]>>

engineRule == [Blank EXCEPT !.prio = 34, !.uid = "core", !.table = "main"]

(* The rules for DNS stand for two each, over UDP and over TCP.             *)
routeSteps(f) ==
    <<[Blank EXCEPT !.prio = 33, !.src = "tun", !.table = "5340"],
      [Blank EXCEPT !.prio = 35, !.iif = "lo", !.port = "53", !.table = "5340"],
      [Blank EXCEPT !.prio = 36, !.iif = "lo", !.port = "53", !.goto = 38],
      [Blank EXCEPT !.prio = 38, !.iif = "lo", !.table = "main", !.suppress = "1"],
      [Blank EXCEPT !.prio = 39, !.iif = "lo", !.table = "5340"]>>

Add(f, list) == [i \in DOMAIN list |-> [do |-> "rule", family |-> f, rule |-> list[i]]]
Do(f, what) == [do |-> what, family |-> f, rule |-> Blank]

(* Mutant: the tunnel before the bypasses.                                  *)
routePlanTunnelFirst ==
    FlattenSeq([i \in DOMAIN Families |->
          <<Do(Families[i], "addr"), Do(Families[i], "default")>> \o Add(Families[i], routeSteps(Families[i]))])
    \o FlattenSeq([i \in DOMAIN Families |-> Add(Families[i], bypassSteps(Families[i]))])
    \o FlattenSeq([i \in DOMAIN Families |-> Add(Families[i], <<engineRule>>)])

(* The commands of route once the old ones are gone: bypasses first, the    *)
(* tunnel's default route before the rules that lead to it.                 *)
routePlan ==
    FlattenSeq([i \in DOMAIN Families |-> Add(Families[i], bypassSteps(Families[i]))])
    \o FlattenSeq([i \in DOMAIN Families |-> Add(Families[i], <<engineRule>>)])
    \o FlattenSeq([i \in DOMAIN Families |->
          <<Do(Families[i], "addr"), Do(Families[i], "default")>> \o Add(Families[i], routeSteps(Families[i]))])

(* Mutant: only rules that carry the owner's protocol.                      *)
ownedRuleMarked(r) == ~r.extra /\ r.prio \in 33 .. 39 /\ r.proto = "242"

(* Rules that carry the owner's protocol, the ones mihomo binds to the      *)
(* device, and the exact rules of older cores.                              *)
ownedRule(r) ==
    LET unmarked == r.proto \in {"", "0", "2"}
        bound == /\ r.oif = "sora0" /\ r.src = "all" /\ r.table \in {"5340", "2022"} /\ unmarked
                 /\ r.goto = 0 /\ r.iif = "" /\ r.uid = "" /\ r.port = "" /\ r.suppress = ""
        marked == r.proto = "242" /\ ((r.goto = 38 /\ r.table = "") \/ r.table \in {"5340", "main"})
        only(more) == \A s \in Selectors \ ({"prio", "table", "src", "proto"} \cup more) : r[s] = Blank[s]
        legacy == \/ r.prio = 33 /\ r.table = "main" /\ r.src = "all" /\ r.oif # "" /\ only({"oif"})
                  \/ r.prio = 34 /\ r.table = "main" /\ r.src # "all" /\ only({})
                  \/ r.prio = 35 /\ r.table = "5340" /\ r.src # "all" /\ only({})
                  \/ r.prio = 36 /\ r.table = "main" /\ r.src = "all" /\ r.uid = "core" /\ only({"uid"})
                  \/ r.prio = 37 /\ r.table = "5340" /\ r.src = "all" /\ r.iif = "lo" /\ r.port = "53"
                     /\ only({"iif", "port"})
                  \/ r.prio = 38 /\ r.table = "main" /\ r.src = "all" /\ r.iif = "lo" /\ r.suppress = "0"
                     /\ only({"iif", "suppress"})
                  \/ r.prio = 39 /\ r.table = "5340" /\ r.src = "all" /\ r.iif = "lo" /\ only({"iif"})
    IN  /\ ~r.extra
        /\ \/ bound
           \/ /\ r.prio \in 33 .. 39
              /\ marked \/ (unmarked /\ legacy)

deleteMatches(want, older) == Fits(want, older)

-----------------------------------------------------------------------------
PolicyInit ==
    /\ \E left \in SUBSET Legacy, foreign \in SUBSET Others :
          rules = [f \in Fams |->
                      SetToSortSeq(left \cup foreign, LAMBDA a, b :
                          a.prio < b.prio \/ (a.prio = b.prio /\ a.owner = "other" /\ b.owner = "core"))]
    /\ defaults = {}
    /\ device \in BOOLEAN
    /\ addrs = IF device THEN {"stale", "foreign"} ELSE {}
    /\ pc = "down"
    /\ goal = "cleanup"
    /\ fams = Families
    /\ queue = <<>>
    /\ kept = <<>>
    /\ failed = FALSE
    /\ steps = <<>>
    /\ result = "none"
    /\ faults = 0

(* A command that fails though it need not.                                 *)
Fault ==
    /\ faults < MaxFaults
    /\ faults' = faults + 1

Begin(g, at) ==
    /\ goal' = g
    /\ pc' = at
    /\ fams' = Families
    /\ failed' = FALSE
    /\ steps' = <<>>
    /\ queue' = <<>>
    /\ kept' = <<>>

(* main: what an earlier run left is removed before anything else.          *)
Cleanup ==
    /\ pc = "down"
    /\ Begin("cleanup", "read")
    /\ result' = "none"
    /\ UNCHANGED <<rules, defaults, addrs, policyRest>>

(* Supervisor.start, with the engine's device up.                           *)
Route ==
    /\ pc = "idle" /\ device
    /\ Begin("route", "read")
    /\ result' = "none"
    /\ UNCHANGED <<rules, defaults, addrs, policyRest>>

Unroute ==
    /\ pc = "idle"
    /\ Begin("unroute", "read")
    /\ result' = "none"
    /\ UNCHANGED <<rules, defaults, addrs, policyRest>>

(* A core that cannot clean up at the start does not serve.                 *)
Return(how) ==
    /\ pc' = IF goal = "cleanup" /\ how = "error" THEN "down" ELSE "idle"
    /\ result' = how

ReadRules ==
    /\ pc = "read"
    /\ queue' = rules[Head(fams)]
    /\ kept' = <<>>
    /\ pc' = "delete"
    /\ UNCHANGED <<rules, defaults, addrs, goal, fams, failed, steps, result, policyRest>>

(* unroute returns at once; route's own rollback ignores it.                *)
ReadFails ==
    /\ pc = "read"
    /\ Fault
    /\ Return("error")
    /\ UNCHANGED <<rules, defaults, addrs, device, goal, fams, queue, kept, failed, steps>>

Spared(r) == ~ownedRule(r) \/ \E k \in ToSet(kept) : deleteMatches(r, k)

Spare ==
    /\ pc = "delete" /\ queue # <<>>
    /\ Spared(Head(queue))
    /\ kept' = Append(kept, Head(queue))
    /\ queue' = Tail(queue)
    /\ UNCHANGED <<rules, defaults, addrs, pc, goal, fams, failed, steps, result, policyRest>>

(* The kernel takes the first rule that fits, if there is one.              *)
Delete ==
    LET f == Head(fams)
        r == Head(queue)
    IN  /\ pc = "delete" /\ queue # <<>>
        /\ ~Spared(r)
        /\ {i \in DOMAIN rules[f] : Fits(r, rules[f][i])} # {}
        /\ rules' = [rules EXCEPT ![f] = Removed(@, r)]
        /\ queue' = Tail(queue)
        /\ UNCHANGED <<defaults, addrs, pc, goal, fams, kept, failed, steps, result, policyRest>>

DeleteFails ==
    /\ pc = "delete" /\ queue # <<>>
    /\ ~Spared(Head(queue))
    /\ Fault
    /\ kept' = Append(kept, Head(queue))
    /\ queue' = Tail(queue)
    /\ failed' = TRUE
    /\ UNCHANGED <<rules, defaults, addrs, device, pc, goal, fams, steps, result>>

(* The table is read and flushed last, and either may fail; then the next   *)
(* family or the end of unroute.                                            *)
Flush ==
    /\ pc = "delete" /\ queue = <<>>
    /\ \/ defaults' = defaults \ {Head(fams)} /\ failed' = failed /\ faults' = faults
       \/ defaults' = defaults /\ failed' = TRUE /\ Fault
    /\ fams' = Tail(fams)
    /\ IF Tail(fams) # <<>> THEN pc' = "read" /\ result' = result
       ELSE IF goal = "rollback" \/ failed' THEN Return("error")
       ELSE IF goal = "unroute" THEN Return("clean")
       ELSE pc' = "addresses" /\ result' = result
    /\ UNCHANGED <<rules, addrs, device, goal, queue, kept, steps>>

(* Old addresses of the core on its device, but not the one in use.         *)
oldAddrs == addrs \cap (IF goal = "route" THEN {"stale"} ELSE {"stale", "selected"})

DropAddress ==
    /\ pc = "addresses" /\ oldAddrs # {}
    /\ \/ /\ \E a \in oldAddrs : addrs' = addrs \ {a}
          /\ UNCHANGED <<pc, result, faults>>
       \/ Return("error") /\ addrs' = addrs /\ Fault
    /\ UNCHANGED <<rules, defaults, device, goal, fams, queue, kept, failed, steps>>

AddressesDone ==
    /\ pc = "addresses" /\ oldAddrs = {}
    /\ IF goal = "cleanup" THEN Return("clean") /\ steps' = steps
       ELSE pc' = "install" /\ steps' = routePlan /\ result' = result
    /\ UNCHANGED <<rules, defaults, addrs, goal, fams, queue, kept, failed, policyRest>>

(* The kernel refuses a rule it already has, and addresses and routes of a  *)
(* device that is gone.                                                     *)
Accepted(s) ==
    IF s.do = "rule" THEN ~\E r \in ToSet(rules[s.family]) : Same(r, s.rule) ELSE device

(* One command of route.                                                    *)
InstallStep ==
    LET s == Head(steps)
    IN  /\ pc = "install" /\ steps # <<>>
        /\ Accepted(s)
        /\ rules' = IF s.do = "rule" THEN [rules EXCEPT ![s.family] = Inserted(@, s.rule)] ELSE rules
        /\ defaults' = IF s.do = "default" THEN defaults \cup {s.family} ELSE defaults
        /\ addrs' = IF s.do = "addr" THEN addrs \cup {"selected"} ELSE addrs
        /\ steps' = Tail(steps)
        /\ UNCHANGED <<pc, goal, fams, queue, kept, failed, result, policyRest>>

InstallFails ==
    /\ pc = "install" /\ steps # <<>>
    /\ IF Accepted(Head(steps)) THEN Fault ELSE faults' = faults
    /\ Begin("rollback", "read")
    /\ UNCHANGED <<rules, defaults, addrs, device, result>>

InstallDone ==
    /\ pc = "install" /\ steps = <<>>
    /\ Return("up")
    /\ UNCHANGED <<rules, defaults, addrs, goal, fams, queue, kept, failed, steps, policyRest>>

-----------------------------------------------------------------------------
(* The machine: engines start and end, other programs add rules, the core   *)
(* is killed.  A device takes its addresses and routes with it.             *)
DeviceUp ==
    /\ ~device /\ pc = "idle"
    /\ device' = TRUE
    /\ UNCHANGED <<rules, defaults, addrs, pc, goal, fams, queue, kept, failed, steps, result, faults>>

DeviceGone ==
    /\ device
    /\ device' = FALSE
    /\ defaults' = {}
    /\ addrs' = {}
    /\ UNCHANGED <<rules, pc, goal, fams, queue, kept, failed, steps, result, faults>>

OtherAdds(f, r) ==
    /\ ~\E x \in ToSet(rules[f]) : Same(x, r)
    /\ rules' = [rules EXCEPT ![f] = Inserted(@, r)]
    /\ UNCHANGED <<defaults, addrs, pc, goal, fams, queue, kept, failed, steps, result, policyRest>>

KillCore ==
    /\ pc # "down"
    /\ Fault
    /\ Begin("cleanup", "down")
    /\ result' = "none"
    /\ UNCHANGED <<rules, defaults, addrs, device>>

PolicyNext ==
    \/ Cleanup \/ Route \/ Unroute
    \/ ReadRules \/ ReadFails \/ Spare \/ Delete \/ DeleteFails \/ Flush
    \/ DropAddress \/ AddressesDone
    \/ InstallStep \/ InstallFails \/ InstallDone
    \/ DeviceUp \/ DeviceGone \/ KillCore
    \/ \E f \in Fams, r \in Others : OtherAdds(f, r)

PolicySpec == PolicyInit /\ [][PolicyNext]_policyVars

-----------------------------------------------------------------------------
PolicyTypeOK ==
    /\ \A f \in Fams : \A i \in DOMAIN rules[f] : \A j \in 1 .. i : rules[f][j].prio <= rules[f][i].prio
    /\ defaults \subseteq Fams
    /\ pc \in {"down", "idle", "read", "delete", "addresses", "install"}
    /\ result \in {"none", "up", "clean", "error"}

(* No rule of another program is ever removed, whatever is added while      *)
(* unroute runs: the kernel deletes the first rule that fits, so a rule is  *)
(* only deleted when nothing older that was kept would be taken for it.     *)
(* (unroute, deleteMatches)                                                 *)
OthersKept ==
    [][\A f \in Fams : {r \in ToSet(rules[f]) : r.owner = "other"} \subseteq ToSet(rules'[f])]_policyVars

(* After an unroute or a cleanup without an error no rule of the core is    *)
(* left, neither of this run, of one that was killed, nor of an older core, *)
(* except rules that could only be deleted together with another program's. *)
(* (unroute, ownedRule, cleanup)                                            *)
CleanIsEmpty ==
    (result = "clean" /\ pc = "idle") =>
        \A f \in Fams :
            \A i \in DOMAIN rules[f] : rules[f][i].owner = "core" =>
                \E j \in 1 .. i - 1 : rules[f][j].owner = "other" /\ Fits(rules[f][i], rules[f][j])

Packet(src, oif, uid, port) == [src |-> src, oif |-> oif, uid |-> uid, port |-> port]

Sent(f, p) == Lookup(rules[f], f, p, 1)

(* The engine's own packets never enter the tunnel they carry, from the     *)
(* first rule of route to the last and as long as they stand.  ("Engine UID *)
(* traffic stays in the main table to avoid loops": bypass before           *)
(* routeSteps in route, priorityEngine)                                     *)
NoLoop ==
    (pc = "install" \/ result = "up") =>
        \A f \in Fams, port \in {"53", "80"} : Sent(f, Packet("any", "", "core", port)) # "tunnel"

(* Once route has succeeded, every packet of a program that no other        *)
(* program's rule claims goes through the tunnel, its DNS also when it is   *)
(* bound to another interface; a bound socket and a foreign tunnel's own    *)
(* packets do not, and DNS stays off them even when the table is empty.     *)
(* (routeSteps, bypassSteps, priorityDNSBypass)                             *)
TunnelTakesAll ==
    (result = "up" /\ pc = "idle") =>
        \A f \in Fams :
            LET claimed(p) == \E r \in ToSet(rules[f]) : r.owner = "other" /\ Meets(r, p)
                old == {r \in ToSet(rules[f]) : r.owner = "core" /\ r.proto # "242"}
                through(p) == claimed(p) \/ Sent(f, p) = "tunnel"
                past(p) == claimed(p) \/ Sent(f, p) = "main"
            IN  (old = {} /\ f \in defaults) =>
                    /\ \A port \in {"53", "80"} : through(Packet("any", "", "user", port))
                    /\ \A o \in Interfaces : through(Packet("any", o, "user", "53"))
                    /\ \A o \in Interfaces : past(Packet("any", o, "user", "80"))
                    /\ past(Packet("wg0", "", "user", "80"))
=============================================================================
