------------------------------- MODULE Guard --------------------------------
(***************************************************************************)
(* The kill switch: core/guard.Guard over the nftables firewall of Linux.  *)
(*                                                                         *)
(* Guard remembers the settings it applied, the kernel holds the table     *)
(* "inet sora".  Both calls hold g.mu from beginning to end, so each is    *)
(* one action.  nft runs as a child of the request's context: it may       *)
(* commit, be refused, or be killed by a deadline after the kernel has     *)
(* committed ("cut").  The table outlives the process.                     *)
(***************************************************************************)
EXTENDS Naturals, Sequences

CONSTANTS
    Networks,   \* the tunnel networks a ruleset may be rendered for
    Outcomes,   \* what may become of one run of nft: see NftOutcomes
    MaxCopies   \* bound: rulesets stacked in the table

NftOutcomes == {"ok", "refused", "cut"}

ASSUME OutcomesAssumption == "ok" \in Outcomes /\ Outcomes \subseteq NftOutcomes
ASSUME CopiesAssumption == MaxCopies \in Nat \ {0}

VARIABLES
    armed,   \* g.applied.KillSwitch
    table    \* the rulesets in the kernel's table, oldest first

guardVars == <<armed, table>>

GuardTypeOK == armed \in BOOLEAN /\ table \in Seq(Networks) /\ Len(table) <= MaxCopies

GuardInit == armed = FALSE /\ table = << >>

\* Every ruleset ends in an unconditional drop, so the oldest one decides.
Blocked == table # << >>
InForce == Head(table)

\* `nft -f' of a ruleset adds its rules to the chain that is there.
NftAdd(nets, outcome) ==
    /\ outcome # "refused" => Len(table) < MaxCopies
    /\ table' = IF outcome = "refused" THEN table ELSE Append(table, nets)

\* `delete table' fails when there is no such table.
NftDelete(outcome) ==
    /\ ~Blocked => outcome = "refused"
    /\ table' = IF outcome = "refused" THEN table ELSE << >>

\* Guard.Apply: only a change of KillSwitch reaches the firewall, and the new
\* settings are recorded only when it succeeded.
Apply(kill, nets, outcome) ==
    /\ IF kill = armed THEN outcome = "ok" /\ UNCHANGED table
       ELSE IF kill THEN NftAdd(nets, outcome) ELSE NftDelete(outcome)
    /\ armed' = IF outcome = "ok" THEN kill ELSE armed

\* Guard.Restore: a failed Disarm leaves the settings applied for a retry.
RestoreForgets(outcome) ==
    /\ IF armed THEN NftDelete(outcome) ELSE outcome = "ok" /\ UNCHANGED table
    /\ armed' = FALSE
Restore(outcome) ==
    /\ IF armed THEN NftDelete(outcome) ELSE outcome = "ok" /\ UNCHANGED table
    /\ armed' = IF outcome = "ok" THEN FALSE ELSE armed

\* The core dies and is started again with a new Guard.
Restart == armed' = FALSE /\ UNCHANGED table

GuardNext ==
    \/ \E kill \in BOOLEAN, nets \in Networks, o \in Outcomes : Apply(kill, nets, o)
    \/ \E o \in Outcomes : Restore(o)
    \/ Restart

GuardSpec ==
    /\ GuardInit /\ [][GuardNext]_guardVars
    /\ WF_guardVars(\E o \in Outcomes : Restore(o))

\* "Missing tables are treated as success so repeated restores are safe"
\* (nftables.go): restoring again and again ends with nothing owned.
RestoreIsRepeatable == armed /\ ~Blocked ~> ~armed

=============================================================================
