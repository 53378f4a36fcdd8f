--------------------------- MODULE Subscriptions ----------------------------
(***************************************************************************)
(* core/control's subscriptionBook: the subscriptions, the credentials     *)
(* they own in the vault, and the scheduler that keeps them up to date.    *)
(*                                                                         *)
(* b.mu makes save, delete and the two halves of refresh atomic; between   *)
(* the halves the link is fetched with no lock held.  One vault write      *)
(* (Store.Apply, see Vault) either happens or does not.  A time is reduced *)
(* to whether it was ever set and whether the deadline computed from it    *)
(* has passed.                                                             *)
(***************************************************************************)
EXTENDS Naturals, FiniteSets

CONSTANTS
    Ids,               \* identifiers newSubscriptionID may draw, each once
    Links,             \* normalized subscription links
    Servers,           \* servers a provider may list
    Payloads,          \* the server lists it may answer with
    MaxSubscriptions,  \* maxSubscriptions
    ParallelUpdates,   \* parallelUpdates
    Crashes,           \* whether the process may die without a shutdown
    None,
    MaxEvents          \* bound: requests, expired deadlines and restarts

ASSUME PayloadsAssumption ==
    Payloads \subseteq (SUBSET Servers) \ {{}} /\ \A p \in Payloads : IsFiniteSet(p)
ASSUME BookBounds == /\ MaxSubscriptions \in Nat /\ ParallelUpdates \in Nat \ {0}
                     /\ MaxEvents \in Nat /\ Crashes \in BOOLEAN

VARIABLES
    records,   \* b.records
    lists,     \* b.lists
    vault,     \* what the vault holds under each subscription's references
    fetch,     \* the fetch under way for a subscription: b.updating and its link
    calls,     \* refresh calls whose goroutine has not run yet
    sched,     \* the scheduler: [at, due]
    used,      \* identifiers drawn so far
    events     \* how much of MaxEvents is spent

vars == <<records, lists, vault, fetch, calls, sched, used, events>>

Callers == {"save", "sched", "user"}
Lists == [from : Links, servers : Payloads]
Records == [url : Links, auto : BOOLEAN, tried : BOOLEAN, failed : BOOLEAN, ok : BOOLEAN,
            rested : BOOLEAN, aged : BOOLEAN, servers : SUBSET Servers, parts : Nat]
Entries == [rec : Records \cup {None}, servers : SUBSET Servers, chunks : SUBSET (Nat \X Lists)]

ASSUME NoneAssumption == None \notin Records \cup Lists

NoEntry == [rec |-> None, servers |-> {}, chunks |-> {}]

SubsTypeOK ==
    /\ records \in [Ids -> Records \cup {None}]
    /\ lists \in [Ids -> Lists \cup {None}]
    /\ \A i \in Ids : /\ vault[i].rec \in Records \cup {None}
                      /\ vault[i].servers \subseteq Servers
                      /\ \A c \in vault[i].chunks : c[1] \in Nat /\ c[2] \in Lists
    /\ \A i \in Ids : fetch[i] = None \/ fetch[i] \in [link : Links, by : Callers]
    /\ calls \subseteq Ids \X Callers
    /\ sched.at \in {"scan", "launch", "sleep", "ended"} /\ sched.due \subseteq Ids
    /\ used \subseteq Ids /\ events \in 0 .. MaxEvents

Init ==
    /\ records = [i \in Ids |-> None] /\ lists = [i \in Ids |-> None]
    /\ vault = [i \in Ids |-> NoEntry]
    /\ fetch = [i \in Ids |-> None] /\ calls = {}
    /\ sched = [at |-> "scan", due |-> {}]
    /\ used = {} /\ events = 0

Known == {i \in Ids : records[i] # None}
Updating(i) == fetch[i] # None
Spend == events < MaxEvents /\ events' = events + 1

-----------------------------------------------------------------------------
(***************************************************************************)
(* save, delete.  A refused request or a failed vault write changes        *)
(* nothing, so only successful ones are actions.                           *)
(***************************************************************************)

\* persistLocked with no other change.
PersistRecord(i, rec) == vault' = [vault EXCEPT ![i].rec = rec]

Stored(i, rec, fetchNow) ==
    /\ PersistRecord(i, rec)
    /\ records' = [records EXCEPT ![i] = rec]
    /\ calls' = IF fetchNow THEN calls \cup {<<i, "save">>} ELSE calls
    /\ UNCHANGED <<lists, fetch, sched>>

SaveNew(i, link, auto) ==
    /\ i \notin used /\ used' = used \cup {i}
    /\ \A j \in Known : records[j].url # link
    /\ Cardinality(Known) < MaxSubscriptions
    /\ Stored(i, [url |-> link, auto |-> auto, tried |-> FALSE, failed |-> FALSE, ok |-> FALSE,
                  rested |-> FALSE, aged |-> FALSE, servers |-> {}, parts |-> 0], TRUE)
    /\ Spend

\* Only another link resets the failures and starts a fetch; None is no link
\* in the request.  The interval may be another one, and with it the deadline
\* since the last success.
SaveExisting(i, link, auto, aged) ==
    /\ i \in Known /\ (aged => records[i].ok)
    /\ \A j \in Known \ {i} : records[j].url # link
    /\ LET changed == link \notin {None, records[i].url}
           rec == [records[i] EXCEPT !.url = IF changed THEN link ELSE @, !.auto = auto,
                                     !.aged = aged, !.failed = @ /\ ~changed]
       IN Stored(i, rec, changed)
    /\ Spend /\ UNCHANGED used

\* The record, its servers and as many list parts as it says it has.
Delete(i) ==
    /\ i \in Known
    /\ vault' = [vault EXCEPT ![i] =
                   [rec |-> None, servers |-> @.servers \ records[i].servers,
                    chunks |-> {c \in @.chunks : c[1] >= records[i].parts}]]
    /\ records' = [records EXCEPT ![i] = None] /\ lists' = [lists EXCEPT ![i] = None]
    /\ Spend /\ UNCHANGED <<fetch, calls, sched, used>>

-----------------------------------------------------------------------------
(***************************************************************************)
(* refresh.                                                                *)
(***************************************************************************)

\* Up to the fetch.  A call for a subscription that is gone or being updated
\* returns at once.
StartRefresh(i, by) ==
    IF i \in Known /\ ~Updating(i)
    THEN fetch' = [fetch EXCEPT ![i] = [link |-> records[i].url, by |-> by]]
    ELSE UNCHANGED fetch

RunCall(i, by) ==
    /\ <<i, by>> \in calls /\ calls' = calls \ {<<i, by>>}
    /\ StartRefresh(i, by)
    /\ UNCHANGED <<records, lists, vault, sched, used, events>>

UserRefresh(i) ==
    /\ i \in Known /\ ~Updating(i)
    /\ StartRefresh(i, "user")
    /\ Spend /\ UNCHANGED <<records, lists, vault, calls, sched, used>>

\* The list is stored in chunks; longer lists take more of them.
Parts(servers) == Cardinality(servers)

\* applyUpdateLocked: the record, every server and chunk of the new list, and
\* the removal of what only the old list had, in one vault write.
ApplyUpdateKeepsTail(i, list, rec) ==
    /\ vault' = [vault EXCEPT ![i] =
                   [rec |-> rec,
                    servers |-> (@.servers \ records[i].servers) \cup list.servers,
                    chunks |-> {c \in @.chunks : c[1] >= rec.parts}
                               \cup ((0 .. rec.parts - 1) \X {list})]]
    /\ lists' = [lists EXCEPT ![i] = list]
ApplyUpdate(i, list, rec) ==
    /\ vault' = [vault EXCEPT ![i] =
                   [rec |-> rec,
                    servers |-> (@.servers \ records[i].servers) \cup list.servers,
                    chunks |-> {c \in @.chunks : c[1] >= rec.parts /\ c[1] >= records[i].parts}
                               \cup ((0 .. rec.parts - 1) \X {list})]]
    /\ lists' = [lists EXCEPT ![i] = list]

DiscardedIfGone(i) == i \notin Known
\* The results were for a subscription that is gone or has another link.
Discarded(i) == ~(i \in Known /\ records[i].url = fetch[i].link)

EndDiscardedStaysUpdating(i) ==
    /\ Updating(i) /\ Discarded(i)
    /\ UNCHANGED vars
EndDiscarded(i) ==
    /\ Updating(i) /\ Discarded(i)
    /\ fetch' = [fetch EXCEPT ![i] = None]
    /\ UNCHANGED <<records, lists, vault, calls, sched, used, events>>

\* A fetched and parsed list that the vault took.  The scheduler's own calls
\* end with its context.
EndUpdated(i, servers) ==
    /\ Updating(i) /\ ~Discarded(i)
    /\ sched.at = "ended" => fetch[i].by # "sched"
    /\ fetch' = [fetch EXCEPT ![i] = None]
    /\ LET rec == [records[i] EXCEPT !.tried = TRUE, !.failed = FALSE, !.ok = TRUE,
                                     !.rested = FALSE, !.aged = FALSE,
                                     !.servers = servers, !.parts = Parts(servers)]
       IN /\ ApplyUpdate(i, [from |-> fetch[i].link, servers |-> servers], rec)
          /\ records' = [records EXCEPT ![i] = rec]
    /\ UNCHANGED <<calls, sched, used, events>>

\* No answer, an answer that is no list, or a vault that took no update: the
\* failure alone is stored.
EndFailed(i) ==
    /\ Updating(i) /\ ~Discarded(i)
    /\ fetch' = [fetch EXCEPT ![i] = None]
    /\ LET rec == [records[i] EXCEPT !.tried = TRUE, !.failed = TRUE, !.rested = FALSE]
       IN PersistRecord(i, rec) /\ records' = [records EXCEPT ![i] = rec]
    /\ UNCHANGED <<lists, calls, sched, used, events>>

\* ... and not even that could be stored.
EndUnstored(i) ==
    /\ Updating(i) /\ ~Discarded(i)
    /\ fetch' = [fetch EXCEPT ![i] = None]
    /\ UNCHANGED <<records, lists, vault, calls, sched, used, events>>

EndRefresh(i) ==
    \/ EndDiscarded(i)
    \/ \E servers \in Payloads : EndUpdated(i, servers)
    \/ EndFailed(i)
    \/ EndUnstored(i)

-----------------------------------------------------------------------------
(***************************************************************************)
(* The scheduler.                                                          *)
(***************************************************************************)

\* nextUpdate is set and not after now: never tried; a failure and its
\* backoff; otherwise the interval since the last success, which is long past
\* when there was none.
Due(i) ==
    /\ i \in Known /\ records[i].auto
    /\ \/ ~records[i].tried
       \/ records[i].failed /\ records[i].rested
       \/ ~records[i].failed /\ (records[i].ok => records[i].aged)

\* A deadline passes; the record's times do not change.
Elapse(i) ==
    /\ i \in Known
    /\ LET rec == IF records[i].failed THEN [records[i] EXCEPT !.rested = TRUE]
                  ELSE [records[i] EXCEPT !.aged = @ \/ records[i].ok]
       IN /\ rec # records[i]
          /\ records' = [records EXCEPT ![i] = rec] /\ PersistRecord(i, rec)
    /\ Spend
    /\ UNCHANGED <<lists, fetch, calls, sched, used>>

Scan ==
    /\ sched.at = "scan"
    /\ sched' = [at |-> "launch", due |-> {i \in Ids : Due(i) /\ ~Updating(i)}]
    /\ UNCHANGED <<records, lists, vault, fetch, calls, used, events>>

InFlight == Cardinality({i \in Ids : Updating(i) /\ fetch[i].by = "sched"})
            + Cardinality({c \in calls : c[2] = "sched"})

\* One slot per update, taken in the order the map was ranged over.
Launch(i) ==
    /\ sched.at = "launch" /\ i \in sched.due
    /\ InFlight < ParallelUpdates
    /\ calls' = calls \cup {<<i, "sched">>}
    /\ sched' = [sched EXCEPT !.due = @ \ {i}]
    /\ UNCHANGED <<records, lists, vault, fetch, used, events>>

Sleep ==
    /\ sched.at = "launch" /\ sched.due = {}
    /\ sched' = [sched EXCEPT !.at = "sleep"]
    /\ UNCHANGED <<records, lists, vault, fetch, calls, used, events>>

\* A poke, or the timer: it never sleeps longer than schedulerCheck, so a
\* token in b.wake only makes it earlier.
Wake ==
    /\ sched.at = "sleep"
    /\ sched' = [sched EXCEPT !.at = "scan"]
    /\ UNCHANGED <<records, lists, vault, fetch, calls, used, events>>

\* The loop of run.
Run == Scan \/ Sleep \/ Wake \/ \E i \in Ids : Launch(i)

\* The core shuts down: run returns, also while it waits for a slot.
Shutdown ==
    /\ sched.at \in {"launch", "sleep"}
    /\ sched' = [at |-> "ended", due |-> {}]
    /\ Spend
    /\ UNCHANGED <<records, lists, vault, fetch, calls, used>>

\* load, in a new process after a shutdown or a crash.
LoadList(i) ==
    LET parts == vault[i].rec.parts
        chunks == {c \in vault[i].chunks : c[1] < parts}
    IN IF parts > 0 /\ \E l \in Lists : chunks = (0 .. parts - 1) \X {l}
       THEN CHOOSE l \in Lists : chunks = (0 .. parts - 1) \X {l} ELSE None

Restart ==
    /\ records' = [i \in Ids |-> vault[i].rec]
    /\ lists' = [i \in Ids |-> IF vault[i].rec = None THEN None ELSE LoadList(i)]
    /\ fetch' = [i \in Ids |-> None] /\ calls' = {}
    /\ sched' = [at |-> "scan", due |-> {}]
    /\ IF sched.at = "ended" THEN UNCHANGED events ELSE Crashes /\ Spend
    /\ UNCHANGED <<vault, used>>

Next ==
    \/ \E i \in Ids, link \in Links, auto \in BOOLEAN : SaveNew(i, link, auto)
    \/ \E i \in Ids, link \in Links \cup {None}, auto, aged \in BOOLEAN :
         SaveExisting(i, link, auto, aged)
    \/ \E i \in Ids : Delete(i) \/ UserRefresh(i) \/ Elapse(i) \/ Launch(i)
    \/ \E i \in Ids, by \in Callers : RunCall(i, by)
    \/ \E i \in Ids : EndRefresh(i)
    \/ Scan \/ Sleep \/ Wake \/ Shutdown \/ Restart

\* The scheduler goes on whenever it can, its timer included; one of the calls
\* waiting for a subscription runs, and a fetch ends within
\* subscriptionFetchLimit.
Fairness ==
    /\ WF_sched(Run)
    /\ \A i \in Ids : /\ WF_fetch(EndRefresh(i))
                      /\ WF_calls(\E by \in Callers : RunCall(i, by))

Spec == Init /\ [][Next]_vars /\ Fairness

-----------------------------------------------------------------------------
(***************************************************************************)
(* Properties.                                                             *)
(***************************************************************************)

\* Whatever updates, deletions and failures there were, the vault holds for
\* each subscription exactly the record, servers and list parts that memory
\* knows of: a restart restores the book and no credential is orphaned.
VaultMatchesBook ==
    \A i \in Ids :
      IF i \in Known
      THEN /\ vault[i].rec = records[i]
           /\ vault[i].servers = records[i].servers
           /\ LoadList(i) = lists[i]
           /\ Cardinality(vault[i].chunks) = records[i].parts
      ELSE vault[i] = NoEntry /\ lists[i] = None

\* No two subscriptions have one link, whichever saves raced.
LinksDiffer == \A i, j \in Known : records[i].url = records[j].url => i = j

\* The scheduler keeps to its slots while requests start fetches of their own.
SlotsKept == InFlight <= ParallelUpdates

\* A list enters the book only for the link it was fetched from, although the
\* link may change during the fetch.
ListFromOwnLink ==
    [][\A i \in Ids : lists'[i] # lists[i] /\ lists'[i] # None /\ fetch[i] # None
                        => records'[i].url = lists'[i].from]_vars

Fetching(i) == Updating(i) /\ i \in Known /\ fetch[i].link = records[i].url

\* A due subscription is attempted, or stops being due, however long the
\* others' fetches take, or a fetch of a link it no longer has.
DueIsAttempted ==
    \A i \in Ids :
      Due(i) /\ sched.at # "ended" 
      ~> Fetching(i) \/ ~Due(i) \/ sched.at = "ended"

=============================================================================
