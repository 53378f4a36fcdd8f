------------------------------- MODULE MCPlans ------------------------------
(***************************************************************************)
(* Two parts that share no state: the way from a document or a request to  *)
(* a running engine's configuration (MCPipeline), and the log center, for  *)
(* a client that pages through it or follows it.  A behaviour of this      *)
(* module is one of one part.                                              *)
(*                                                                         *)
(* The log center takes three writes of three messages, one of them with a  *)
(* destination, into a record of two entries or a few bytes; pages of one  *)
(* entry, a channel of one beyond the replay.                              *)
(***************************************************************************)
EXTENDS MCPipeline, LogCenter

VARIABLE part     \* the part that moves: "plans" or "logs"

SomeMessages ==
    {[level |-> 2, source |-> "core", text |-> "short"],
     [level |-> 3, source |-> "engine", text |-> "host"],
     [level |-> 1, source |-> "engine", text |-> "short"]}

SizeOf(text) == IF text = "host" THEN 2 ELSE 1
Masked(text) == IF text = "host" THEN "short" ELSE text

SomeFilters == {[min |-> 0, sources |-> {}], [min |-> 3, sources |-> {"engine"}]}
SomeSettings == {[level |-> 1, dest |-> FALSE, entries |-> 2, bytes |-> 0],
                 [level |-> 0, dest |-> TRUE, entries |-> 0, bytes |-> 2]}

\* A part that does not move has one initial state.
PlansInit ==
    /\ part \in {"plans", "logs"}
    /\ Init /\ LogInit
    /\ part # "plans" => host = CHOOSE h \in Hosts : TRUE
    /\ part # "logs" => client = "page"

PlansNext ==
    /\ part' = part
    /\ \/ part = "plans" /\ MCNext /\ UNCHANGED centerVars
       \/ part = "logs" /\ LogNext /\ UNCHANGED vars

\* The fairness of the log center, when it is the part that moves.
PlansFairness ==
    /\ WF_centerVars(part = "logs" /\ Receive)
    /\ WF_centerVars(part = "logs" /\ Send)
    /\ WF_centerVars(part = "logs" /\ \E f \in Filters : WatchLogs(f))

PlansSpec == PlansInit /\ [][PlansNext]_<<vars, centerVars, part>> /\ PlansFairness
=============================================================================
