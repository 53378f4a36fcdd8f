----------------------------- MODULE MCManager ------------------------------
(***************************************************************************)
(* Two clients that connect, disconnect and change the kill switch at      *)
(* once, and the shutdown of the core, which may come at any time.         *)
(***************************************************************************)
EXTENDS Manager

(* A bound: a connects and disconnects, b disconnects and changes the kill   *)
(* switch.  A client keeps nothing between two requests and m.busy lets one  *)
(* Connect in, so what this leaves out is two SetKillSwitch at once.         *)
Division == op'["a"] \notin {"on", "off"} /\ op'["b"] # "connect"

=============================================================================
