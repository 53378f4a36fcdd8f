------------------------------- MODULE MCCore -------------------------------
(***************************************************************************)
(* The core process and what it keeps: its start and end beside other      *)
(* cores, the home directory of mihomo, the filters of the kill switch,    *)
(* the credentials on disk and the stream of subscription states.  They    *)
(* share no state, so a behaviour of this module is one of one part; the   *)
(* others keep one initial state.                                          *)
(*                                                                         *)
(* Two services and a check start beside an older build.  mihomo starts    *)
(* and is validated at once, with two pools and two geo databases.  The    *)
(* store has two references, two values, two identifiers and two keys: one *)
(* that is created again after a crash may draw other ones; a vault with   *)
(* both references set to "big" does not fit.  The changes of two          *)
(* subscriptions meet a queue of two.                                      *)
(***************************************************************************)
EXTENDS Startup, EngineHome, Filters, Vault, SubFeed

VARIABLE part     \* the part that moves

FitsVault(map) == \E r \in Refs : map[r] # "big"

CoreInit ==
    /\ part \in {"startup", "home", "filters", "vault", "feed"}
    /\ StartupInit /\ HomeInit /\ FilterInit /\ Init /\ FeedInit
    /\ part # "startup" => path = Nobody
    /\ part # "home" => shipped = (CHOOSE v \in Versions : TRUE) /\ cache = NoPool
    /\ part # "filters" => platform = "linux" /\ bypass = DefaultBypass

\* The stream stops when its changes are used up and nobody watches.
FeedOver ==
    /\ handler = "closed" /\ streams = MaxStreams /\ Present(book) = {}
    /\ \A s \in Subs : fetching[s] = Absent /\ (book[s] = Deleted \/ revision = MaxRevision)

coreVars == <<startVars, homeVars, filterVars, vars, subFeedVars, part>>

CoreNext ==
    /\ part' = part
    /\ \/ part = "startup" /\ StartupNext /\ UNCHANGED <<homeVars, filterVars, vars, subFeedVars>>
       \/ part = "home" /\ HomeNext /\ UNCHANGED <<startVars, filterVars, vars, subFeedVars>>
       \/ part = "filters" /\ FilterNext /\ UNCHANGED <<startVars, homeVars, vars, subFeedVars>>
       \/ part = "vault" /\ Next /\ UNCHANGED <<startVars, homeVars, filterVars, subFeedVars>>
       \/ part = "feed" /\ FeedNext /\ UNCHANGED <<startVars, homeVars, filterVars, vars>>
       \/ part = "feed" /\ FeedOver /\ UNCHANGED coreVars

\* The fairness of Startup and of EngineHome.
CoreSpec ==
    /\ CoreInit /\ [][CoreNext]_coreVars
    /\ \A p \in Services :
          /\ WF_startVars(part = "startup" /\ StartCore(p) /\ exit[p] # "clean")
          /\ WF_startVars(part = "startup" /\ Advance(p))
    /\ WF_homeVars(part = "home" /\ Starting)

-----------------------------------------------------------------------------
(***************************************************************************)
(* Statements of the code's comments that the code does not keep.  TLC     *)
(* finds a counterexample to each; README.md says on which instance.       *)
(***************************************************************************)

\* "WatchSubscriptions returns all subscriptions, then streams changes": the end
\* of an update that is discarded, or whose failure cannot be stored, is none.
UpdatesEndVisibly ==
    handler = "stream" /\ queue = << >> =>
        \A s \in Present(book) \ full : view[s].updating = (fetching[s] # Absent)

\* "Bypass networks keep local resources reachable" (nftables.go): IPv6 finds a
\* neighbour by a packet to a multicast address, which is dropped.
NeighboursFound ==
    Whole => \A p \in Packets : p.service = "discovery" => Passes(p)

=============================================================================
