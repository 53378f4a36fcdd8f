------------------------------- MODULE Bridge -------------------------------
(***************************************************************************)
(* engine/xraytun/bridge.go: Xray and mihomo run as one engine, mihomo with *)
(* the TUN adapter in front of Xray's SOCKS port, and engine/tun.go: the    *)
(* choice of the adapter's network.  Above them is the part of a session    *)
(* that uses the pair: start, the renewal of a plan, the events it hears,   *)
(* stop and close.  Each child is a supervised process, reduced to the      *)
(* states it announces; a crash is noticed, announced and recovered from in *)
(* separate steps.                                                          *)
(***************************************************************************)
EXTENDS Naturals, Sequences

CONSTANTS
    Pools,          \* the adapter networks to choose from, in order
    MaxBridgeFaults,      \* bound on crashes, failing commands and new networks
    MaxRenewals     \* bound on renewals of the plan

VARIABLES
    cst,            \* the state each child's supervisor reports
    up,             \* whether the child's process lives and answers
    told,           \* whether its watcher holds the lifecycle, having announced a crash or in a restart
    sent,           \* the events in each child's channel
    relay,          \* what the relay of each child is publishing
    at,             \* where Apply and Stop are: the step, and the child it is about
    opErr,          \* whether a stop inside an operation failed
    sess,           \* the session: "new", "starting", "up", "stopping", "over"
    heard,          \* whether it subscribed
    shown,          \* the state it shows
    silent,         \* whether a failure was only logged, or came before it subscribed
    nets,           \* networks of the machine's other interfaces
    chosen,         \* the plan's adapter network
    adapter,        \* the network of the adapter that is up
    permitted,      \* the network the firewall permits
    closed, bfaults, renewals

bridgeVars ==
    <<cst, up, told, sent, relay, at, opErr, sess, heard, shown, silent, nets, chosen, adapter,
      permitted, closed, bfaults, renewals>>

childVars == <<cst, up, told, sent>>
planVars == <<nets, chosen, permitted>>
seenVars == <<sess, heard, shown>>

Children == {"xray", "tun"}
Threads == {"apply", "stop"}
Networks == {Pools[i] : i \in DOMAIN Pools}
Idle == [event |-> "none", state |-> "none"]
Out == <<"out", "both">>

BridgeInit ==
    /\ cst = [c \in Children |-> "stopped"]
    /\ up = [c \in Children |-> FALSE]
    /\ told = [c \in Children |-> FALSE]
    /\ sent = [c \in Children |-> <<>>]
    /\ relay = [c \in Children |-> Idle]
    /\ at = [t \in Threads |-> Out]
    /\ opErr = FALSE
    /\ sess = "new" /\ heard = FALSE /\ shown = "connecting" /\ silent = FALSE
    /\ nets \in {{}, {Pools[1]}, {"fake"}}
    /\ chosen = "none" /\ adapter = "none" /\ permitted = "none"
    /\ closed = FALSE /\ bfaults = 0 /\ renewals = 0

BridgeFault == bfaults < MaxBridgeFaults /\ bfaults' = bfaults + 1

-----------------------------------------------------------------------------
(* engine/tun.go.                                                           *)

(* The first pool no interface uses.                                        *)
chooseTunPrefix(used) ==
    LET free == {i \in DOMAIN Pools : Pools[i] \notin used}
    IN  IF free = {} THEN "none" ELSE Pools[CHOOSE i \in free : \A j \in free : i <= j]

Used == nets \cup (IF up["tun"] THEN {adapter} ELSE {})

(* A plan that has its network keeps it; the fake addresses may not be on   *)
(* an interface.  "none" is an error.                                       *)
PrepareTun(have) ==
    IF "fake" \in Used THEN "none"
    ELSE IF have # "none" THEN have ELSE chooseTunPrefix(Used)

-----------------------------------------------------------------------------
(* The children's supervisors.                                              *)

(* Once a stop began the session's loop is over and nobody listens.         *)
Push(c, events) == sent' = [sent EXCEPT ![c] = IF sess \in {"starting", "up"} THEN @ \o events ELSE @]

(* setState announces a change.                                             *)
SetChild(c, s, more) ==
    /\ cst' = [cst EXCEPT ![c] = s]
    /\ Push(c, (IF cst[c] = s THEN <<>> ELSE <<"state">>) \o more)

Lifecycle(c) == ~told[c] /\ at["apply"] # <<"starting", c>>

ChildCrash(c) ==
    /\ up[c] /\ cst[c] = "running"
    /\ BridgeFault
    /\ up' = [up EXCEPT ![c] = FALSE]
    /\ adapter' = IF c = "tun" THEN "none" ELSE adapter
    /\ UNCHANGED <<cst, told, sent, relay, at, opErr, seenVars, silent, planVars, closed, renewals>>

(* watch: the crash is announced before the state changes.                  *)
ChildDown(c) ==
    /\ ~up[c] /\ cst[c] = "running" /\ Lifecycle(c)
    /\ told' = [told EXCEPT ![c] = TRUE]
    /\ Push(c, <<"down">>)
    /\ UNCHANGED <<cst, up, relay, at, opErr, seenVars, silent, planVars, adapter, closed, bfaults, renewals>>

ChildRecovers(c) ==
    /\ told[c] /\ cst[c] = "running"
    /\ told' = [told EXCEPT ![c] = FALSE]
    /\ \/ SetChild(c, "recovering", <<>>) /\ bfaults' = bfaults
       \/ SetChild(c, "failed", <<"fatal">>) /\ BridgeFault
    /\ UNCHANGED <<up, relay, at, opErr, seenVars, silent, planVars, adapter, closed, renewals>>

(* The end of start, in Apply and in a restart: running is announced twice. *)
Started(c) ==
    /\ SetChild(c, "running", <<"state">>)
    /\ up' = [up EXCEPT ![c] = TRUE]
    /\ adapter' = IF c = "tun" THEN chosen ELSE adapter

(* The restart after the delay, unless a stop or a start came first.  What  *)
(* start does before it starts the process may fail.                        *)
ChildRestarts(c) ==
    /\ cst[c] = "recovering" /\ Lifecycle(c) /\ ~closed
    /\ \/ SetChild(c, "starting", <<>>) /\ told' = [told EXCEPT ![c] = TRUE] /\ bfaults' = bfaults
       \/ SetChild(c, "failed", <<"fatal">>) /\ told' = told /\ BridgeFault
    /\ UNCHANGED <<up, relay, at, opErr, seenVars, silent, planVars, adapter, closed, renewals>>

(* Mutant: a restart that fails is not announced as fatal.                  *)
ChildRestartedQuietly(c) ==
    /\ told[c] /\ cst[c] = "starting"
    /\ told' = [told EXCEPT ![c] = FALSE]
    /\ \/ Started(c) /\ bfaults' = bfaults
       \/ SetChild(c, "failed", <<>>) /\ BridgeFault /\ UNCHANGED <<up, adapter>>
    /\ UNCHANGED <<relay, at, opErr, seenVars, silent, planVars, closed, renewals>>

ChildRestarted(c) ==
    /\ told[c] /\ cst[c] = "starting"
    /\ told' = [told EXCEPT ![c] = FALSE]
    /\ \/ Started(c) /\ bfaults' = bfaults
       \/ SetChild(c, "failed", <<"fatal">>) /\ BridgeFault /\ UNCHANGED <<up, adapter>>
    /\ UNCHANGED <<relay, at, opErr, seenVars, silent, planVars, closed, renewals>>

(* Supervisor.Stop: a process that survives, or routes that stay, fail it.  *)
StopChild(c) ==
    /\ Lifecycle(c)
    /\ \/ /\ SetChild(c, "stopped", <<>>)
          /\ up' = [up EXCEPT ![c] = FALSE]
          /\ adapter' = IF c = "tun" THEN "none" ELSE adapter
          /\ UNCHANGED <<opErr, bfaults>>
       \/ /\ up[c]
          /\ SetChild(c, "failed", <<>>)
          /\ opErr' = TRUE
          /\ BridgeFault
          /\ UNCHANGED <<up, adapter>>
    /\ UNCHANGED <<told, relay, seenVars, silent, planVars, closed, renewals>>

-----------------------------------------------------------------------------
(* The bridge's operations hold e.op from the first step to the last.       *)

Locked == \E t \in Threads : at[t] # Out

Go(t, where) == at' = [at EXCEPT ![t] = where]

(* The adapter and its routes go before the receiver.                       *)
stop == <<"tun", "xray">>

Then(t, c, step, end) == Go(t, IF c = stop[1] THEN <<step, stop[2]>> ELSE end)

(* Apply: PrepareTun, the two plans and their validation change nothing.    *)
ApplyBegin ==
    /\ ~Locked
    /\ opErr' = FALSE
    /\ \/ /\ PrepareTun(chosen) # "none"
          /\ chosen' = PrepareTun(chosen)
          /\ Go("apply", <<"stop", stop[1]>>)
          /\ UNCHANGED <<bfaults, silent, sess, shown>>
       \/ /\ IF PrepareTun(chosen) = "none" THEN bfaults' = bfaults ELSE BridgeFault
          /\ silent' = TRUE
          /\ chosen' = chosen /\ at' = at
          /\ sess' = IF sess = "starting" THEN "over" ELSE sess
          /\ shown' = IF sess = "starting" THEN "failed" ELSE shown
    /\ UNCHANGED <<childVars, relay, heard, nets, adapter, permitted, closed>>

ApplyStop(c) ==
    /\ at["apply"] = <<"stop", c>>
    /\ StopChild(c)
    /\ Then("apply", c, "stop", <<"stopped", "both">>)

(* A stop that failed ends Apply.                                           *)
ApplyStopped ==
    /\ at["apply"] = <<"stopped", "both">>
    /\ Go("apply", IF opErr THEN <<"failed", "both">> ELSE <<"start", "xray">>)
    /\ silent' = (silent \/ opErr)
    /\ UNCHANGED <<childVars, relay, opErr, seenVars, planVars, adapter, closed, bfaults, renewals>>

(* Supervisor.Apply prepares the TUN plan once more.                        *)
ApplyStart(c) ==
    /\ at["apply"] = <<"start", c>> /\ ~told[c]
    /\ IF c = "tun" /\ PrepareTun(chosen) = "none"
       THEN Go("apply", <<"undo", stop[1]>>) /\ silent' = TRUE /\ UNCHANGED <<cst, sent>>
       ELSE Go("apply", <<"starting", c>>) /\ SetChild(c, "starting", <<>>) /\ silent' = silent
    /\ UNCHANGED <<up, told, relay, opErr, seenVars, planVars, adapter, closed, bfaults, renewals>>

ApplyStarted(c) ==
    /\ at["apply"] = <<"starting", c>>
    /\ \/ /\ ~closed
          /\ Started(c)
          /\ Go("apply", IF c = "tun" THEN <<"done", "both">> ELSE <<"start", "tun">>)
          /\ bfaults' = bfaults
       \/ /\ SetChild(c, "failed", <<"fatal">>)
          /\ Go("apply", <<"undo", stop[1]>>)
          /\ IF closed THEN bfaults' = bfaults ELSE BridgeFault
          /\ UNCHANGED <<up, adapter>>
    /\ UNCHANGED <<told, relay, opErr, seenVars, silent, planVars, closed, renewals>>

(* Both are stopped again, whichever failed.                                *)
ApplyUndo(c) ==
    /\ at["apply"] = <<"undo", c>>
    /\ StopChild(c)
    /\ Then("apply", c, "undo", <<"failed", "both">>)

(* Back in Session.Start or renewConnections.                               *)
ApplyReturns ==
    /\ at["apply"] \in {<<"done", "both">>, <<"failed", "both">>}
    /\ Go("apply", Out)
    /\ sess' = IF sess # "starting" THEN sess ELSE IF at["apply"][1] = "done" THEN "up" ELSE "over"
    /\ shown' = IF sess = "starting" THEN (IF at["apply"][1] = "done" THEN "connected" ELSE "failed") ELSE shown
    /\ UNCHANGED <<childVars, relay, opErr, heard, silent, planVars, adapter, closed, bfaults, renewals>>

(* Stop, and the stop inside Close, take e.op as well.  What the relays     *)
(* still have goes nowhere.                                                 *)
StopBegin ==
    /\ ~Locked
    /\ sess = "up"
    /\ sess' = "stopping"
    /\ opErr' = FALSE
    /\ Go("stop", <<"stop", stop[1]>>)
    /\ sent' = [c \in Children |-> <<>>]
    /\ relay' = [c \in Children |-> Idle]
    /\ UNCHANGED <<cst, up, told, heard, shown, silent, planVars, adapter, closed, bfaults, renewals>>

StopStep(c) ==
    /\ at["stop"] = <<"stop", c>>
    /\ StopChild(c)
    /\ Then("stop", c, "stop", Out)

(* Close stops both once more, then cancels the supervisors' contexts.      *)
CloseBegin ==
    /\ ~Locked
    /\ sess = "stopping" /\ ~closed
    /\ opErr' = FALSE
    /\ Go("stop", <<"close", stop[1]>>)
    /\ UNCHANGED <<childVars, relay, seenVars, silent, planVars, adapter, closed, bfaults, renewals>>

CloseStep(c) ==
    /\ at["stop"] = <<"close", c>>
    /\ StopChild(c)
    /\ Then("stop", c, "close", <<"closing", "both">>)

CloseEnd ==
    /\ at["stop"] = <<"closing", "both">>
    /\ closed' = TRUE
    /\ Go("stop", Out)
    /\ sess' = "over"
    /\ UNCHANGED <<childVars, relay, opErr, heard, shown, silent, planVars, adapter, bfaults, renewals>>

-----------------------------------------------------------------------------
(* The relays of New.                                                       *)

State ==
    LET order == <<"failed", "stopping", "stopped", "recovering", "applying", "starting">>
        hit == {i \in DOMAIN order : \E c \in Children : order[i] = cst[c]}
    IN  IF cst["xray"] = cst["tun"] THEN cst["xray"]
        ELSE IF hit = {} THEN "starting" ELSE order[CHOOSE i \in hit : \A j \in hit : i <= j]

(* A state event gets the combined state before it is published.            *)
RelayTake(c) ==
    LET e == Head(sent[c])
    IN  /\ relay[c] = Idle /\ sent[c] # <<>>
        /\ relay' = [relay EXCEPT ![c] = [event |-> e, state |-> IF e = "state" THEN State ELSE "none"]]
        /\ sent' = [sent EXCEPT ![c] = Tail(@)]
        /\ UNCHANGED <<cst, up, told, at, opErr, seenVars, silent, planVars, adapter, closed, bfaults, renewals>>

(* Publish, and what Session.supervise does with the event.                 *)
RelayPublish(c) ==
    LET e == relay[c].event
    IN  /\ relay[c] # Idle
        /\ relay' = [relay EXCEPT ![c] = Idle]
        /\ shown' = IF ~heard \/ shown = "failed" THEN shown
                    ELSE IF e = "down" THEN "reconnecting"
                    ELSE IF e = "fatal" THEN "failed"
                    ELSE IF relay[c].state = "running" /\ shown = "reconnecting" THEN "connected"
                    ELSE shown
        /\ UNCHANGED <<childVars, at, opErr, sess, heard, silent, planVars, adapter, closed, bfaults, renewals>>

-----------------------------------------------------------------------------
(* The session.                                                             *)

(* Manager.Connect prepares the plan, then the guard permits its network.   *)
SessionStart ==
    /\ sess = "new" /\ PrepareTun("none") # "none"
    /\ sess' = "starting"
    /\ chosen' = PrepareTun("none")
    /\ permitted' = PrepareTun("none")
    /\ UNCHANGED <<childVars, relay, at, opErr, heard, shown, silent, nets, adapter, closed, bfaults, renewals>>

SessionRefused ==
    /\ sess = "new" /\ PrepareTun("none") = "none"
    /\ sess' = "over"
    /\ UNCHANGED <<childVars, relay, at, opErr, heard, shown, silent, planVars, adapter, closed, bfaults, renewals>>

SessionApply ==
    /\ sess = "starting" /\ renewals' = renewals
    /\ ApplyBegin

BothRun == \A c \in Children : up[c] /\ cst[c] = "running"

(* Events published before this are lost.                                   *)
SessionSubscribe ==
    /\ sess = "up" /\ ~heard
    /\ heard' = TRUE
    /\ silent' = (silent \/ ~BothRun)
    /\ UNCHANGED <<childVars, relay, at, opErr, sess, shown, planVars, adapter, closed, bfaults, renewals>>

(* renewConnections may have read the state before a stop began.            *)
SessionRenew ==
    /\ sess \in {"up", "stopping", "over"} /\ heard /\ shown = "connected" /\ renewals < MaxRenewals
    /\ renewals' = renewals + 1
    /\ ApplyBegin

NetworkAppears(n) ==
    /\ n \notin Used /\ sess # "new"
    /\ BridgeFault
    /\ nets' = nets \cup {n}
    /\ UNCHANGED <<childVars, relay, at, opErr, seenVars, silent, chosen, permitted, adapter, closed, renewals>>

BridgeOver == sess = "over" /\ ~Locked /\ UNCHANGED bridgeVars

BridgeNext ==
    \/ \E c \in Children :
          \/ ChildCrash(c) \/ ChildDown(c) \/ ChildRecovers(c) \/ ChildRestarts(c) \/ ChildRestarted(c)
          \/ ApplyStop(c) \/ ApplyStart(c) \/ ApplyStarted(c) \/ ApplyUndo(c)
          \/ StopStep(c) \/ CloseStep(c)
          \/ RelayTake(c) \/ RelayPublish(c)
    \/ ApplyStopped \/ ApplyReturns \/ StopBegin \/ CloseBegin \/ CloseEnd
    \/ SessionStart \/ SessionRefused \/ SessionApply \/ SessionSubscribe \/ SessionRenew
    \/ \E n \in Networks \cup {"fake"} : NetworkAppears(n)
    \/ BridgeOver

BridgeSpec == BridgeInit /\ [][BridgeNext]_bridgeVars

-----------------------------------------------------------------------------
Quiet == ~Locked /\ \A c \in Children : sent[c] = <<>> /\ relay[c] = Idle

BridgeTypeOK ==
    /\ \A c \in Children : cst[c] \in {"stopped", "starting", "running", "recovering", "failed"}
    /\ shown \in {"connecting", "connected", "reconnecting", "failed"}
    /\ chosen \in Networks \cup {"none"}

(* The states of a child that runs or is on its way to.                     *)
Active == {"starting", "running", "recovering"}

(* A fatal event that the session has yet to hear.                          *)
Doomed == \E c \in Children : relay[c].event = "fatal" \/ \E i \in DOMAIN sent[c] : sent[c][i] = "fatal"

(* While the TUN adapter takes packets, or is brought up, there is an Xray  *)
(* that runs or is brought up: Xray starts first and stops last, in Apply,  *)
(* its undo, Stop and Close alike.  The exception is an Xray that was given *)
(* up, and then a session that listens shows it, or is about to hear of it. *)
(* (Apply, stop, watch)                                                     *)
ReceiverFirst ==
    cst["tun"] \in Active =>
        \/ cst["xray"] \in Active
        \/ cst["xray"] = "failed" /\ (sess = "up" /\ heard /\ ~silent => Doomed \/ shown = "failed")

(* Between operations either both children are started or none is, however  *)
(* a renewal, a stop and crashes interleave.  ("Stop serializes shutdown    *)
(* with Apply to prevent a half-running bridge": e.op)                      *)
NotHalf ==
    ~Locked /\ "failed" \notin {cst[c] : c \in Children}
        => (cst["xray"] = "stopped" <=> cst["tun"] = "stopped")

(* When the events have settled and both children run, the session shows    *)
(* that it is connected, though each relay combines states the other child  *)
(* may already have left.  (State, the relays of New, supervise)            *)
Settles == Quiet /\ heard /\ sess = "up" /\ BothRun => shown \in {"connected", "failed"}

(* When they have settled and the session shows that it is connected, no    *)
(* child has been given up or stopped: each runs or is being brought back,  *)
(* which ends in another event.  The exception is an Apply that failed      *)
(* before it started a child: that error is only logged.                    *)
(* (State, the relays of New, renewConnections)                             *)
ShownIsTrue ==
    Quiet /\ heard /\ sess = "up" /\ shown = "connected" /\ ~silent =>
        \A c \in Children : cst[c] \in Active

(* Not kept: a session that shows it is connected may have a child that is  *)
(* being brought back.  The other child's late event carries the combined   *)
(* state, which is "running" until the watcher of the crashed one sets it.  *)
ConnectedIsRunning ==
    Quiet /\ heard /\ sess = "up" /\ shown = "connected" /\ ~silent =>
        \A c \in Children : cst[c] = "running"

(* The adapter has the network that the firewall was told to permit,        *)
(* through restarts and renewals and whatever networks appear meanwhile.    *)
(* (PrepareTun: "Restarts retain the choice so network watchers and         *)
(* firewall permits agree")                                                 *)
AdapterPermitted == up["tun"] => adapter = permitted
=============================================================================
