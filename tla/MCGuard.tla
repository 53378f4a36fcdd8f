------------------------------ MODULE MCGuard -------------------------------
(***************************************************************************)
(* The guard alone, over a kernel table that outlives it: two tunnel       *)
(* networks, so that a ruleset can be told from the one before it.         *)
(***************************************************************************)
EXTENDS Guard

-----------------------------------------------------------------------------
(***************************************************************************)
(* A statement of the code's comments that the code does not keep.  TLC    *)
(* finds a counterexample; README.md says on which instance.               *)
(***************************************************************************)

\* "Arm installs or replaces the table, making repeated calls idempotent"
\* (nftables_linux.go): after a successful Arm its own ruleset is in force.
ArmReplaces ==
    [][\A nets \in Networks :
         ~armed /\ armed' /\ Apply(TRUE, nets, "ok") => InForce' = nets]_guardVars

=============================================================================
