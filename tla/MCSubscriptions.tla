-------------------------- MODULE MCSubscriptions ---------------------------
(***************************************************************************)
(* Two subscriptions, two links, two servers and one slot.                 *)
(***************************************************************************)
EXTENDS Subscriptions

\* newSubscriptionID draws at random and nothing distinguishes two identifiers,
\* so it is enough that they are drawn in one order.
DrawnInOrder == \A i \in used' : 1 .. i \subseteq used'

-----------------------------------------------------------------------------
(***************************************************************************)
(* Statements of the code's comments that the code does not keep.  TLC     *)
(* finds a counterexample; README.md says on which instance.               *)
(***************************************************************************)

\* "A new subscription, or one whose link changed, is fetched at once."
\* (subscriptions.go): when save has started a refresh, the subscription is
\* fetched from the link it was saved with, unless it is removed or changed.
LinkIsFetched ==
    \A i \in Ids, link \in Links :
      <<i, "save">> \in calls /\ i \in Known /\ records[i].url = link
        ~> \/ i \notin Known \/ records[i].url # link \/ sched.at = "ended"
           \/ fetch[i] # None /\ fetch[i].link = link

=============================================================================
