----------------------------- MODULE MCSession ------------------------------
(***************************************************************************)
(* One session, its engine, its guard and its handlers, all interleaved.   *)
(***************************************************************************)
EXTENDS Session

-----------------------------------------------------------------------------
(***************************************************************************)
(* Statements of the code's comments that the code does not keep.  TLC     *)
(* finds a counterexample to each; README.md says on which instance.       *)
(***************************************************************************)

\* "Stop the engine before restoring the guard to prevent packets using
\* settings being removed" (runner.go): no engine runs on a restored guard.
GuardOutlivesEngine == killSwitch /\ kill = "idle" /\ Live # {} => Blocked

\* "Repeated calls are safe from user, shutdown, and failure paths" (Stop in
\* runner.go): so has a Stop that returned nil after one that failed.
RepeatedStopCleans == spc = "over" => Clean

\* "StateDisconnected is the initial resting state, with no redirected traffic
\* or owned system settings" (session.go).
DisconnectedOwnsNothing == sstate = "disconnected" /\ spc = "left" => ~guardApplied /\ ~routed

\* "The guard keeps traffic blocked when the kill switch is enabled" in the
\* failed state after exhausted recovery (session.go).
FailedStaysBlocked == sstate = "failed" /\ spc = "up" /\ kill = "idle" /\ killSwitch => Blocked

\* "terminal reports whether no further progress happens without a new command"
\* (session.go): no engine starts under a failed session.
FailedIsQuiet == [][spc = "up" /\ sstate = "failed" => Live' \subseteq Live]_allVars

=============================================================================
