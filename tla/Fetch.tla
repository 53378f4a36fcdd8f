-------------------------------- MODULE Fetch -------------------------------
(***************************************************************************)
(* The retrieval of one subscription (subscription/subscription.go): hops   *)
(* over HTTPS, each validated, dialled under a check of the address and     *)
(* read up to a limit.  Names may resolve differently at every lookup.      *)
(***************************************************************************)
EXTENDS Integers, Sequences, FiniteSets

CONSTANTS
    References,     \* what a client may ask for, and a provider redirect to
    Resolves(_),    \* the address sets a host may resolve to; {} is a failure
    MaxHops,        \* MaxRedirects
    MaxBody         \* MaxBodyBytes

ASSUME FetchAssumption == MaxHops \in Nat /\ MaxBody \in Nat

VARIABLES
    fpc,            \* "new", "hop", "answered", "read", "done", "failed"
    target,         \* the url of the hop
    hop,            \* hops so far
    local,          \* whether the subscription is local: its privateKey
    asked,          \* the urls requested
    dialled,        \* the addresses dialled
    response,       \* the answer whose body is read
    body            \* the bytes read

fetchVars == <<fpc, target, hop, local, asked, dialled, response, body>>

NoUrl == [scheme |-> "", user |-> FALSE, host |-> ""]

(* The answer has no Location; one with a path only is NoUrl.               *)
NoLocation == [NoUrl EXCEPT !.scheme = "none"]

Least(a, b) == IF a < b THEN a ELSE b

-----------------------------------------------------------------------------
(* The checks of a reference and of an address.                             *)

ValidateReference(u) == ~u.user /\ u.scheme = "https" /\ u.host # ""

(* url.ResolveReference; a location that does not parse has scheme "?".     *)
ResolveReference(u, m) ==
    IF m.scheme = "" /\ m.host = "" THEN u
    ELSE [m EXCEPT !.scheme = IF @ = "" THEN u.scheme ELSE @]

publicAddr(a) == a = "public"

isPrivateHost(addrs) == \E a \in addrs : ~publicAddr(a)

checkDial(allowPrivate, a) == allowPrivate \/ publicAddr(a)

(* An override is checked for its length and for printable ASCII.           *)
Agents == {"none", "fine", "long", "odd"}
UserAgentFor(agent) == agent \in {"none", "fine"}

redirectTarget(r) == IF r.code = "moved" THEN r.location ELSE NoLocation

-----------------------------------------------------------------------------
FetchInit ==
    /\ fpc = "new" /\ target = NoUrl /\ hop = 0 /\ local = FALSE
    /\ asked = {} /\ dialled = {}
    /\ response = [code |-> "ok", location |-> NoLocation, announced |-> -1, size |-> 0]
    /\ body = 0

Fails == fpc' = "failed" /\ UNCHANGED <<target, hop, local, asked, dialled, response, body>>

(* Fetch, up to its first hop: the reference is checked and looked up once, *)
(* to know whether it is local.                                             *)
Fetch(u, agent) ==
    /\ fpc = "new"
    /\ \/ /\ UserAgentFor(agent) /\ ValidateReference(u)
          /\ \E addrs \in Resolves(u.host) : local' = isPrivateHost(addrs)
          /\ fpc' = "hop" /\ target' = u
          /\ UNCHANGED <<hop, asked, dialled, response, body>>
       \/ ~(UserAgentFor(agent) /\ ValidateReference(u)) /\ Fails

TooMany == hop > MaxHops

HopLimit == fpc = "hop" /\ TooMany /\ Fails

(* Mutant: every hop finds out anew whether its host is local.              *)
HopDialAnew(r) ==
    /\ fpc = "hop" /\ ~TooMany
    /\ \E addrs \in Resolves(target.host) : \E a \in addrs :
          /\ checkDial(isPrivateHost(addrs), a)
          /\ dialled' = dialled \cup {a}
    /\ asked' = asked \cup {target}
    /\ response' = r
    /\ fpc' = "answered"
    /\ UNCHANGED <<target, hop, local, body>>

(* A hop: the host is looked up again, and every address checked before it  *)
(* is dialled.                                                              *)
HopDial(r) ==
    /\ fpc = "hop" /\ ~TooMany
    /\ \E addrs \in Resolves(target.host) : \E a \in addrs :
          /\ checkDial(local, a)
          /\ dialled' = dialled \cup {a}
    /\ asked' = asked \cup {target}
    /\ response' = r
    /\ fpc' = "answered"
    /\ UNCHANGED <<target, hop, local, body>>

(* No address, none that may be dialled, a refused connection, or the       *)
(* deadline of the whole retrieval.                                         *)
HopFails == fpc \in {"hop", "answered", "read"} /\ ~TooMany /\ Fails

Redirected ==
    LET m == redirectTarget(response)
    IN  /\ fpc = "answered" /\ m # NoLocation
        /\ \/ /\ ValidateReference(ResolveReference(target, m))
              /\ target' = ResolveReference(target, m)
              /\ hop' = hop + 1 /\ fpc' = "hop"
              /\ UNCHANGED <<local, asked, dialled, response, body>>
           \/ ~ValidateReference(ResolveReference(target, m)) /\ Fails

Answered ==
    /\ fpc = "answered" /\ redirectTarget(response) = NoLocation
    /\ \/ /\ response.code = "ok" /\ response.announced <= MaxBody
          /\ fpc' = "read"
          /\ UNCHANGED <<target, hop, local, asked, dialled, response, body>>
       \/ /\ ~(response.code = "ok" /\ response.announced <= MaxBody)
          /\ Fails

(* One byte more than the limit tells a body that fits from one cut short.  *)
ReadLimit == MaxBody + 1

ReadBody ==
    LET got == Least(response.size, ReadLimit)
    IN  /\ fpc = "read"
        /\ \/ /\ got > 0 /\ got <= MaxBody
              /\ fpc' = "done" /\ body' = got
              /\ UNCHANGED <<target, hop, local, asked, dialled, response>>
           \/ /\ ~(got > 0 /\ got <= MaxBody)
              /\ Fails

FetchOver == fpc \in {"done", "failed"} /\ UNCHANGED fetchVars

Responses ==
    [code : {"moved"}, location : References \cup {NoUrl, NoLocation}, announced : {-1}, size : {0}]
    \cup {r \in [code : {"ok"}, location : {NoLocation}, announced : -1 .. MaxBody + 2, size : 0 .. MaxBody + 2] :
              r.announced \in {-1, r.size}}
    \cup {[code |-> "rejected", location |-> NoLocation, announced |-> -1, size |-> 1]}

FetchNext ==
    \/ \E u \in References, agent \in Agents : Fetch(u, agent)
    \/ HopLimit \/ HopFails \/ Redirected \/ Answered \/ ReadBody
    \/ \E r \in Responses : HopDial(r)
    \/ FetchOver

FetchSpec == FetchInit /\ [][FetchNext]_fetchVars

-----------------------------------------------------------------------------
FetchTypeOK ==
    /\ fpc \in {"new", "hop", "answered", "read", "done", "failed"}
    /\ response \in Responses
    /\ body \in 0 .. MaxBody

(* A subscription that was not local when it was asked for never makes the  *)
(* core dial an address outside the internet, however its provider          *)
(* redirects and its names resolve later.  (dialChecked, checkDial)         *)
DialsChecked == "private" \in dialled => local

(* No more than MaxRedirects redirects are followed, and every url that was *)
(* requested is https and without credentials of its own, relative          *)
(* redirects included.  (Fetch, ValidateReference)                          *)
HopsBounded == hop <= MaxHops + 1 /\ Cardinality(asked) <= MaxHops + 1 /\ \A u \in asked : u.scheme = "https" /\ ~u.user

(* A body that is accepted is the whole body, also when its size was not    *)
(* announced.  (hop: LimitReader and the length checks)                     *)
NeverTruncated == fpc = "done" => body = response.size
=============================================================================
