----------------------------- MODULE HostProofs -----------------------------
(***************************************************************************)
(* Proofs about a measurement (Measure), for any servers, requests and     *)
(* batches, and about the bridge of two engines (Bridge), for any address  *)
(* pools, faults and renewals.                                             *)
(***************************************************************************)
EXTENDS Measure, Bridge, TLAPS

-----------------------------------------------------------------------------
(***************************************************************************)
(* For any address pools and any number of faults and renewals: what a     *)
(* session shows of the pair of engines is true once its events have       *)
(* settled, the adapter has the network the firewall permits, no packets   *)
(* are taken without a receiver, and no operation leaves half a pair.      *)
(*                                                                         *)
(* Each step of Apply and of Stop knows the states of both children        *)
(* (Order), because e.op lets one operation in at a time (Alone) and a     *)
(* child's supervisor only moves a child it watches (Child).  While the     *)
(* session listens, a child that is given up leaves a fatal event on its   *)
(* way (Doomed); until it arrives, a child may be down only where Apply    *)
(* has put it (Told).                                                      *)
(***************************************************************************)

Stopping == {"stop", "undo", "close"}
Steps == Stopping \cup {"out", "stopped", "start", "starting", "done", "failed", "closing"}
States == {"stopped", "starting", "running", "recovering", "failed"}
Events == {"state", "down", "fatal"}

Apply(step, c) == at["apply"] = <<step, c>>
Halting(c) == \E t \in Threads : at[t][1] \in Stopping /\ at[t][2] = c

BridgeShape ==
    /\ cst \in [Children -> States]
    /\ up \in [Children -> BOOLEAN] /\ told \in [Children -> BOOLEAN]
    /\ sent \in [Children -> Seq(Events)]
    /\ relay = [c \in Children |-> relay[c]]
    /\ at \in [Threads -> Steps \X (Children \cup {"both"})]
    /\ opErr \in BOOLEAN /\ heard \in BOOLEAN /\ silent \in BOOLEAN /\ closed \in BOOLEAN
    /\ sess \in {"new", "starting", "up", "stopping", "over"}
    /\ shown \in {"connecting", "connected", "reconnecting", "failed"}

(* e.op, and where the session is while it is held.                         *)
Alone ==
    /\ at["apply"] = Out \/ at["stop"] = Out
    /\ sess \in {"new", "starting", "up"} => at["stop"] = Out /\ ~closed
    /\ sess = "new" \/ (sess = "up" /\ ~heard) => at["apply"] = Out
    /\ sess \in {"new", "starting"} => ~heard
    /\ sess = "new" => \A c \in Children : cst[c] = "stopped"

Child ==
    \A c \in Children :
        /\ told[c] => cst[c] \in {"running", "starting"} /\ ~Apply("starting", c)
        /\ cst[c] = "starting" => told[c] \/ Apply("starting", c)
        /\ cst[c] = "stopped" => ~up[c]

Order ==
    /\ cst["xray"] = "stopped" => cst["tun"] \in {"stopped", "failed"}
    /\ Halting("xray") => cst["tun"] \in {"stopped", "failed"}
    /\ Apply("stop", "xray") /\ ~opErr => cst["tun"] = "stopped"
    /\ Apply("stopped", "both") => cst["tun"] \in {"stopped", "failed"}
    /\ Apply("stopped", "both") /\ ~opErr => \A c \in Children : cst[c] = "stopped"
    /\ Apply("start", "xray") => \A c \in Children : cst[c] = "stopped"
    /\ Apply("starting", "xray") => cst["xray"] = "starting" /\ cst["tun"] = "stopped"
    /\ Apply("start", "tun") => cst["xray"] \in Active \cup {"failed"} /\ cst["tun"] = "stopped"
    /\ Apply("starting", "tun") => cst["xray"] \in Active \cup {"failed"} /\ cst["tun"] = "starting"
    /\ cst["tun"] = "stopped" /\ cst["xray"] \notin {"stopped", "failed"} =>
          Halting("xray") \/ Apply("starting", "xray") \/ Apply("start", "tun") \/ Apply("undo", "tun")

Permitted ==
    /\ chosen = permitted
    /\ sess \in {"starting", "up", "stopping"} \/ heard => chosen # "none"
    /\ up["tun"] => adapter = chosen

Well ==
    \/ at["apply"] \in {Out, <<"done", "both">>} /\ \A c \in Children : cst[c] \in Active
    \/ Apply("stop", "tun") /\ ~opErr /\ \A c \in Children : cst[c] \in Active
    \/ Apply("stop", "xray") /\ (opErr \/ cst["xray"] \in Active)
    \/ Apply("stopped", "both")
    \/ Apply("start", "xray") \/ Apply("starting", "xray")
    \/ (Apply("start", "tun") \/ Apply("starting", "tun")) /\ cst["xray"] \in Active

Told == sess = "up" /\ heard /\ ~silent /\ shown # "failed" => Doomed \/ Well

BridgeInv == BridgeShape /\ Alone /\ Child /\ Order /\ Permitted /\ Told

-----------------------------------------------------------------------------
(* The events of a child: those on their way stay on it.                    *)

LEMMA PushKeeps ==
    ASSUME BridgeShape, NEW c \in Children, NEW events \in Seq(Events), Push(c, events), relay' = relay
    PROVE  /\ sent' \in [Children -> Seq(Events)]
           /\ Doomed => Doomed'
           /\ sess = "up" /\ (\E i \in DOMAIN events : events[i] = "fatal") => Doomed'
<1>0. /\ sent[c] \in Seq(Events) /\ sent \in [Children -> Seq(Events)]
      /\ DOMAIN sent[c] = 1 .. Len(sent[c]) /\ DOMAIN events = 1 .. Len(events)
  BY DEF BridgeShape
<1>1. CASE sess \in {"starting", "up"}
  <2> DEFINE longer == sent[c] \o events
  <2>1. /\ longer \in Seq(Events) /\ DOMAIN longer = 1 .. (Len(sent[c]) + Len(events))
        /\ \A i \in DOMAIN sent[c] : i \in DOMAIN longer /\ longer[i] = sent[c][i]
        /\ \A i \in DOMAIN events : Len(sent[c]) + i \in DOMAIN longer /\ longer[Len(sent[c]) + i] = events[i]
    BY <1>0
  <2> HIDE DEF longer
  <2>2. sent' = [sent EXCEPT ![c] = longer]
    BY <1>1, Zenon DEF Push, longer
  <2>3. sent' \in [Children -> Seq(Events)] /\ sent'[c] = longer /\ \A d \in Children \ {c} : sent'[d] = sent[d]
    BY <1>0, <2>1, <2>2, Zenon
  <2>4. Doomed => Doomed'
    <3> SUFFICES ASSUME NEW d \in Children, relay[d].event = "fatal" \/ \E i \in DOMAIN sent[d] : sent[d][i] = "fatal"
                 PROVE  relay'[d].event = "fatal" \/ \E i \in DOMAIN sent'[d] : sent'[d][i] = "fatal"
      BY Zenon DEF Doomed
    <3>1. CASE d = c
      BY <2>1, <2>3, <3>1, Zenon
    <3>2. CASE d # c
      BY <2>3, <3>2, Zenon
    <3> QED
      BY <3>1, <3>2, Zenon
  <2>5. (\E i \in DOMAIN events : events[i] = "fatal") => Doomed'
    BY <2>1, <2>3, Zenon DEF Doomed
  <2> QED
    BY <2>3, <2>4, <2>5, Zenon
<1>2. CASE sess \notin {"starting", "up"}
  <2>1. sent' = sent
    BY <1>0, <1>2, Zenon DEF Push
  <2> QED
    BY <1>0, <1>2, <2>1, Zenon DEF Doomed
<1> QED
  BY <1>1, <1>2, Zenon

(* setState, with a fatal event or without.                                 *)
Moved(c) ==
    /\ sent' \in [Children -> Seq(Events)] /\ cst' \in [Children -> States]
    /\ \A d \in Children \ {c} : cst'[d] = cst[d]
    /\ Doomed => Doomed'

GivenUp(c) == cst'[c] = "failed" /\ (sess = "up" => Doomed')

LEMMA SetKeeps ==
    ASSUME BridgeShape, NEW c \in Children, NEW s \in States, NEW more \in {<<>>, <<"state">>, <<"fatal">>},
           SetChild(c, s, more), relay' = relay
    PROVE  Moved(c) /\ cst'[c] = s /\ (sess = "up" /\ more = <<"fatal">> => Doomed')
<1>1. cst' \in [Children -> States] /\ cst'[c] = s /\ \A d \in Children \ {c} : cst'[d] = cst[d]
  BY Zenon DEF SetChild, BridgeShape
<1> DEFINE first == IF cst[c] = s THEN <<>> ELSE <<"state">>
           events == first \o more
<1>2. first \in Seq(Events) /\ more \in Seq(Events)
  <2>1. "state" \in Events /\ "fatal" \in Events
    BY Zenon DEF Events
  <2>2. <<>> \in Seq(Events) /\ <<"state">> \in Seq(Events) /\ <<"fatal">> \in Seq(Events)
    BY <2>1
  <2> QED
    BY <2>2, Zenon
<1>3. events \in Seq(Events) /\ (more = <<"fatal">> => \E i \in DOMAIN events : events[i] = "fatal")
  <2> HIDE DEF first
  <2>1. events \in Seq(Events) /\ Len(events) = Len(first) + Len(more)
    BY <1>2
  <2>2. more = <<"fatal">> => Len(first) + 1 \in DOMAIN events /\ events[Len(first) + 1] = "fatal"
    BY <1>2
  <2> QED
    BY <2>1, <2>2, Zenon
<1>4. Push(c, events)
  BY Zenon DEF SetChild
<1> HIDE DEF events
<1> QED
  BY <1>1, <1>3, <1>4, PushKeeps, Zenon DEF Moved

-----------------------------------------------------------------------------
(* The relays and the networks of the machine leave the children alone.     *)

LEMMA Frame ==
    ASSUME BridgeInv, UNCHANGED <<cst, up, told, at, opErr, sess, heard, chosen, permitted, adapter, closed>>
    PROVE  Alone' /\ Child' /\ Order' /\ Permitted' /\ (Well => Well')
<1>1. Alone' /\ Child' /\ Permitted'
  BY Zenon DEF BridgeInv, Alone, Child, Permitted, Apply
<1>2. Order'
  BY Zenon DEF BridgeInv, Order, Apply, Halting
<1>3. Well => Well'
  BY Zenon DEF Well, Apply
<1> QED
  BY <1>1, <1>2, <1>3, Zenon

LEMMA RelayStep ==
    ASSUME BridgeInv, NEW c \in Children, RelayTake(c) \/ RelayPublish(c)
    PROVE  BridgeInv'
<1>0. /\ UNCHANGED <<cst, up, told, at, opErr, sess, heard, silent, chosen, permitted, adapter, closed>>
      /\ BridgeShape /\ Alone /\ Child /\ Order /\ Permitted /\ Told
  BY Zenon DEF RelayTake, RelayPublish, childVars, planVars, seenVars, BridgeInv
<1>1. Alone' /\ Child' /\ Order' /\ Permitted' /\ (Well => Well')
  BY <1>0, Frame, Zenon
<1>4. CASE RelayTake(c)
  <2>0. /\ sent[c] \in Seq(Events) /\ sent[c] # <<>> /\ relay[c] = Idle /\ shown' = shown
        /\ sent \in [Children -> Seq(Events)]
    BY <1>0, <1>4, Zenon DEF RelayTake, BridgeShape, seenVars
  <2> DEFINE e == Head(sent[c])
             rest == Tail(sent[c])
             new == [event |-> e, state |-> IF e = "state" THEN State ELSE "none"]
  <2>1. /\ e \in Events /\ e = sent[c][1] /\ rest \in Seq(Events)
        /\ \A i \in DOMAIN sent[c] : i = 1 \/ (i - 1 \in DOMAIN rest /\ rest[i - 1] = sent[c][i])
    BY <2>0
  <2>2. new.event = e
    BY Zenon
  <2>3. relay' = [relay EXCEPT ![c] = new] /\ sent' = [sent EXCEPT ![c] = rest]
    BY <1>4, Zenon DEF RelayTake
  <2> HIDE DEF e, rest, new
  <2>4. /\ relay' = [d \in Children |-> relay'[d]]
        /\ sent' \in [Children -> Seq(Events)]
        /\ relay'[c].event = e /\ sent'[c] = rest
        /\ \A d \in Children \ {c} : relay'[d] = relay[d] /\ sent'[d] = sent[d]
    BY <1>0, <2>0, <2>1, <2>2, <2>3, Zenon DEF BridgeShape
  <2>5. BridgeShape'
    BY <1>0, <2>0, <2>4, Zenon DEF BridgeShape
  <2>6. Doomed => Doomed'
    <3> SUFFICES ASSUME NEW d \in Children, relay[d].event = "fatal" \/ \E i \in DOMAIN sent[d] : sent[d][i] = "fatal"
                 PROVE  relay'[d].event = "fatal" \/ \E i \in DOMAIN sent'[d] : sent'[d][i] = "fatal"
      BY Zenon DEF Doomed
    <3>1. CASE d = c
      <4>1. relay[d].event # "fatal"
        BY <2>0, <3>1 DEF Idle
      <4>2. PICK i \in DOMAIN sent[c] : sent[c][i] = "fatal"
        BY <3>1, <4>1, Zenon
      <4>3. CASE i = 1
        BY <2>1, <2>4, <3>1, <4>2, <4>3, Zenon
      <4>4. CASE i # 1
        BY <2>1, <2>4, <3>1, <4>2, <4>4, Zenon
      <4> QED
        BY <4>3, <4>4, Zenon
    <3>2. CASE d # c
      BY <2>4, <3>2, Zenon
    <3> QED
      BY <3>1, <3>2, Zenon
  <2>7. Told'
    BY <1>0, <1>1, <2>0, <2>6, Zenon DEF Told
  <2> QED
    BY <1>1, <2>5, <2>7, Zenon DEF BridgeInv
<1>5. CASE RelayPublish(c)
  <2>1. /\ sent' = sent /\ relay' = [relay EXCEPT ![c] = Idle]
        /\ shown' \in {"connecting", "connected", "reconnecting", "failed"}
        /\ heard /\ relay[c].event = "fatal" => shown' = "failed"
        /\ shown = "failed" => shown' = "failed"
    BY <1>0, <1>5, Zenon DEF RelayPublish, BridgeShape, childVars
  <2>2. /\ relay' = [d \in Children |-> relay'[d]]
        /\ \A d \in Children \ {c} : relay'[d] = relay[d]
    BY <1>0, <2>1, Zenon DEF BridgeShape, Idle
  <2>3. BridgeShape'
    BY <1>0, <2>1, <2>2, Zenon DEF BridgeShape
  <2>4. Doomed => Doomed' \/ relay[c].event = "fatal"
    BY <2>1, <2>2, Zenon DEF Doomed
  <2>5. Told'
    BY <1>0, <1>1, <2>1, <2>4, Zenon DEF Told
  <2> QED
    BY <1>1, <2>3, <2>5, Zenon DEF BridgeInv
<1> QED
  BY <1>4, <1>5, Zenon

LEMMA NetworkStep ==
    ASSUME BridgeInv, (\E n \in Networks \cup {"fake"} : NetworkAppears(n)) \/ BridgeOver \/ UNCHANGED bridgeVars
    PROVE  BridgeInv'
<1>1. /\ UNCHANGED <<cst, up, told, sent, relay, at, opErr, sess, heard, shown, silent, chosen, permitted, adapter, closed>>
  BY Zenon DEF NetworkAppears, BridgeOver, bridgeVars, childVars, seenVars
<1>2. Alone' /\ Child' /\ Order' /\ Permitted' /\ (Well => Well')
  BY <1>1, Frame, Zenon
<1>3. BridgeShape'
  BY <1>1, Zenon DEF BridgeInv, BridgeShape
<1>4. Doomed => Doomed'
  BY <1>1, Zenon DEF Doomed
<1> QED
  BY <1>1, <1>2, <1>3, <1>4, Zenon DEF BridgeInv, Told

-----------------------------------------------------------------------------
(* A child that runs crashes, is noticed, is restarted or is given up.      *)

LEMMA ChildStep ==
    ASSUME BridgeInv, NEW c \in Children,
           ChildCrash(c) \/ ChildDown(c) \/ ChildRecovers(c) \/ ChildRestarts(c) \/ ChildRestarted(c)
    PROVE  BridgeInv'
<1> USE DEF BridgeInv
<1>0. UNCHANGED <<relay, at, opErr, sess, heard, shown, silent, chosen, permitted, closed>>
  BY Zenon DEF ChildCrash, ChildDown, ChildRecovers, ChildRestarts, ChildRestarted, seenVars, planVars
<1>1. /\ cst[c] \in Active /\ cst'[c] \in Active \cup {"failed"} /\ \A d \in Children \ {c} : cst'[d] = cst[d]
      /\ cst' \in [Children -> States] /\ sent' \in [Children -> Seq(Events)]
      /\ told' \in [Children -> BOOLEAN] /\ up' \in [Children -> BOOLEAN]
      /\ at["apply"] # <<"starting", c>>
      /\ told'[c] => cst'[c] \in {"running", "starting"}
      /\ cst'[c] = "starting" => told'[c]
      /\ \A d \in Children \ {c} : told'[d] = told[d]
      /\ \A d \in Children \ {c} : up'[d] = up[d]
      /\ up'["tun"] => adapter' = chosen
      /\ Doomed => Doomed'
      /\ sess = "up" /\ cst'[c] = "failed" => Doomed'
  <2>1. CASE ChildCrash(c)
    <3>1. /\ cst' = cst /\ sent' = sent /\ told' = told /\ up' = [up EXCEPT ![c] = FALSE] /\ cst[c] = "running"
          /\ adapter' = (IF c = "tun" THEN "none" ELSE adapter) /\ at["apply"] # <<"starting", c>>
      BY <2>1, Zenon DEF ChildCrash, Order, Apply, Children
    <3>2. Doomed => Doomed'
      BY <1>0, <3>1, Zenon DEF Doomed
    <3> QED
      BY <1>0, <3>1, <3>2, Zenon DEF BridgeShape, Child, Permitted, Children, Active
  <2>2. CASE ChildDown(c)
    <3>1. /\ cst' = cst /\ told' = [told EXCEPT ![c] = TRUE] /\ up' = up /\ cst[c] = "running" /\ adapter' = adapter
          /\ Push(c, <<"down">>) /\ at["apply"] # <<"starting", c>>
      BY <2>2, Zenon DEF ChildDown, Lifecycle
    <3>2. <<"down">> \in Seq(Events)
      BY DEF Events
    <3>3. sent' \in [Children -> Seq(Events)] /\ (Doomed => Doomed')
      BY <1>0, <3>1, <3>2, PushKeeps, Zenon
    <3> QED
      BY <1>0, <3>1, <3>3, Zenon DEF BridgeShape, Child, Permitted, Children, Active
  <2>3. CASE ChildRecovers(c)
    <3>1. /\ told[c] /\ cst[c] = "running" /\ told' = [told EXCEPT ![c] = FALSE] /\ UNCHANGED <<up, adapter>>
          /\ at["apply"] # <<"starting", c>>
          /\ \/ SetChild(c, "recovering", <<>>)
             \/ SetChild(c, "failed", <<"fatal">>)
      BY <2>3, Zenon DEF ChildRecovers, Child, Apply
    <3>2. GivenUp(c) \/ cst'[c] = "recovering"
      BY <1>0, <3>1, SetKeeps, Zenon DEF States, GivenUp
    <3>3. Moved(c)
      BY <1>0, <3>1, SetKeeps, Zenon DEF States, Moved
    <3> QED
      BY <1>0, <3>1, <3>2, <3>3, Zenon DEF BridgeShape, Child, Permitted, Children, Active, GivenUp, Moved
  <2>4. CASE ChildRestarts(c)
    <3>1. cst[c] = "recovering" /\ UNCHANGED <<up, adapter>> /\ at["apply"] # <<"starting", c>> /\ ~told[c]
      BY <2>4, Zenon DEF ChildRestarts, Lifecycle
    <3>2. CASE SetChild(c, "failed", <<"fatal">>) /\ told' = told
      <4>1. GivenUp(c) /\ Moved(c)
        BY <1>0, <3>2, SetKeeps, Zenon DEF States, GivenUp, Moved
      <4> QED
        BY <1>0, <3>1, <3>2, <4>1, Zenon DEF BridgeShape, Child, Permitted, Children, Active, GivenUp, Moved
    <3>3. CASE SetChild(c, "starting", <<>>) /\ told' = [told EXCEPT ![c] = TRUE]
      <4>1. cst'[c] = "starting" /\ Moved(c)
        BY <1>0, <3>3, SetKeeps, Zenon DEF States
      <4> QED
        BY <1>0, <3>1, <3>3, <4>1, Zenon DEF BridgeShape, Child, Permitted, Children, Active, Moved
    <3> QED
      BY <2>4, <3>2, <3>3, Zenon DEF ChildRestarts
  <2>5. CASE ChildRestarted(c)
    <3>1. told[c] /\ cst[c] = "starting" /\ told' = [told EXCEPT ![c] = FALSE] /\ at["apply"] # <<"starting", c>>
      BY <2>5, Zenon DEF ChildRestarted, Child, Apply
    <3>2. CASE SetChild(c, "failed", <<"fatal">>) /\ UNCHANGED <<up, adapter>>
      <4>1. GivenUp(c) /\ Moved(c)
        BY <1>0, <3>2, SetKeeps, Zenon DEF States, GivenUp, Moved
      <4> QED
        BY <1>0, <3>1, <3>2, <4>1, Zenon DEF BridgeShape, Child, Permitted, Children, Active, GivenUp, Moved
    <3>3. CASE Started(c)
      <4>1. /\ up' = [up EXCEPT ![c] = TRUE] /\ adapter' = IF c = "tun" THEN chosen ELSE adapter
            /\ SetChild(c, "running", <<"state">>)
        BY <3>3, Zenon DEF Started
      <4>2. cst'[c] = "running" /\ Moved(c)
        BY <1>0, <4>1, SetKeeps, Zenon DEF States
      <4> QED
        BY <1>0, <3>1, <4>1, <4>2, Zenon DEF BridgeShape, Child, Permitted, Children, Active, Moved
    <3> QED
      BY <2>5, <3>2, <3>3, Zenon DEF ChildRestarted
  <2> QED
    BY <2>1, <2>2, <2>3, <2>4, <2>5, Zenon
<1>2. BridgeShape' /\ Alone'
  <2>1. BridgeShape'
    BY <1>0, <1>1, Zenon DEF BridgeShape
  <2>2. sess # "new"
    BY <1>1, Zenon DEF Alone, Active
  <2>3. Alone'
    BY <1>0, <2>2, Zenon DEF Alone
  <2> QED
    BY <2>1, <2>3, Zenon
<1>3. Child' /\ Permitted'
  BY <1>0, <1>1, Zenon DEF Child, Permitted, Apply, Active
<1>4. Order'
  BY <1>0, <1>1, Zenon DEF Order, Apply, Halting, Active, Children
<1>5. Told'
  BY <1>0, <1>1, Zenon DEF Told, Well, Apply, Active, Order, Children
<1> QED
  BY <1>2, <1>3, <1>4, <1>5, Zenon

-----------------------------------------------------------------------------
(* A child is stopped, the adapter before the receiver.                     *)

LEMMA StopsStep ==
    ASSUME BridgeInv, NEW c \in Children, ApplyStop(c) \/ ApplyUndo(c) \/ StopStep(c) \/ CloseStep(c)
    PROVE  BridgeInv'
<1> USE DEF BridgeInv
<1>0. /\ UNCHANGED <<told, relay, sess, heard, shown, silent, chosen, permitted, closed>>
      /\ StopChild(c)
  BY Zenon DEF ApplyStop, ApplyUndo, StopStep, CloseStep, StopChild, seenVars, planVars
<1>1. /\ cst'[c] \in {"stopped", "failed"} /\ up' \in [Children -> BOOLEAN] /\ opErr' \in BOOLEAN
      /\ cst'[c] = "stopped" => ~up'[c] /\ opErr' = opErr
      /\ cst'[c] = "failed" => opErr'
      /\ \A d \in Children \ {c} : up'[d] = up[d]
      /\ up'["tun"] => up["tun"] /\ adapter' = adapter
      /\ Moved(c) /\ ~told[c]
  <2>1. CASE SetChild(c, "stopped", <<>>) /\ up' = [up EXCEPT ![c] = FALSE] /\ opErr' = opErr
             /\ adapter' = IF c = "tun" THEN "none" ELSE adapter
    <3>1. cst'[c] = "stopped" /\ Moved(c)
      BY <1>0, <2>1, SetKeeps, Zenon DEF States
    <3> QED
      BY <1>0, <2>1, <3>1, Zenon DEF BridgeShape, Children, StopChild, Lifecycle
  <2>2. CASE SetChild(c, "failed", <<>>) /\ opErr' = TRUE /\ UNCHANGED <<up, adapter>>
    <3>1. cst'[c] = "failed" /\ Moved(c)
      BY <1>0, <2>2, SetKeeps, Zenon DEF States
    <3> QED
      BY <1>0, <2>2, <3>1, Zenon DEF BridgeShape, StopChild, Lifecycle
  <2> QED
    BY <1>0, <2>1, <2>2, Zenon DEF StopChild
<1>2. PICK t \in Threads, step \in Stopping, end \in {Out, <<"stopped", "both">>, <<"failed", "both">>, <<"closing", "both">>} :
         /\ at[t] = <<step, c>> /\ at' = [at EXCEPT ![t] = IF c = "tun" THEN <<step, "xray">> ELSE end]
         /\ t = "apply" => <<step, end>> \in {<<"stop", <<"stopped", "both">>>>, <<"undo", <<"failed", "both">>>>}
         /\ t = "stop" => step # "undo" /\ end \in {Out, <<"closing", "both">>}
  BY Zenon DEF ApplyStop, ApplyUndo, StopStep, CloseStep, Then, Go, stop, Threads, Stopping, Out, Children
<1>3. at' \in [Threads -> Steps \X (Children \cup {"both"})]
  BY <1>2 DEF BridgeShape, Steps, Out, Stopping, Children
<1>4. \A u \in Threads \ {t} : at[u] = Out /\ at'[u] = Out
  BY <1>2 DEF Alone, Threads, Out, Stopping, BridgeShape
<1>5. at'[t] = IF c = "tun" THEN <<step, "xray">> ELSE end
  BY <1>2, Zenon DEF BridgeShape
<1>6. BridgeShape'
  BY <1>0, <1>1, <1>3, Zenon DEF BridgeShape, Moved
<1>7. Alone'
  BY <1>0, <1>2, <1>4 DEF Alone, Threads, Out, Stopping
<1>8. Child' /\ Permitted'
  <2>1. at["apply"] # <<"starting", "xray">> /\ at["apply"] # <<"starting", "tun">>
    BY <1>2, <1>4 DEF Out, Stopping, Threads
  <2>2. at'["apply"] # <<"starting", "xray">> /\ at'["apply"] # <<"starting", "tun">>
    BY <1>2, <1>4, <1>5 DEF Out, Stopping, Threads
  <2>3. Child'
    BY <1>0, <1>1, <2>1, <2>2, Zenon DEF Child, Moved, Apply, Children
  <2>4. Permitted'
    BY <1>0, <1>1, Zenon DEF Permitted
  <2> QED
    BY <2>3, <2>4, Zenon
<1>9. Order'
  BY <1>0, <1>1, <1>2, <1>4, <1>5 DEF Order, Moved, Apply, Halting, Out, Stopping, Threads, Children
<1>10. Told'
  BY <1>0, <1>1, <1>2, <1>4, <1>5 DEF Told, Well, Alone, Moved, Apply, Out, Stopping, Threads, Children, Active
<1> QED
  BY <1>6, <1>7, <1>8, <1>9, <1>10, Zenon

-----------------------------------------------------------------------------
(* Apply.                                                                   *)

LEMMA BeginStep ==
    ASSUME BridgeInv, SessionApply \/ SessionRenew
    PROVE  BridgeInv'
<1> USE DEF BridgeInv
<1>0. /\ UNCHANGED <<cst, up, told, sent, relay, heard, permitted, adapter, closed>>
      /\ at["apply"] = Out /\ at["stop"] = Out /\ opErr' = FALSE
      /\ sess = "starting" \/ heard
      /\ ApplyBegin
  BY Zenon DEF SessionApply, SessionRenew, ApplyBegin, childVars, Locked, Threads
<1>1. chosen # "none"
  BY <1>0, Zenon DEF Permitted
<1>2. chosen' = chosen
  BY <1>0, <1>1, Zenon DEF ApplyBegin, PrepareTun
<1>3. CASE at' = [at EXCEPT !["apply"] = <<"stop", "tun">>] /\ UNCHANGED <<silent, sess, shown>>
  <2>1. at' \in [Threads -> Steps \X (Children \cup {"both"})] /\ at'["apply"] = <<"stop", "tun">> /\ at'["stop"] = Out
    BY <1>0, <1>3, Zenon DEF BridgeShape, Steps, Stopping, Children, Threads
  <2>2. BridgeShape'
    BY <1>0, <1>3, <2>1, Zenon DEF BridgeShape
  <2>3. Alone' /\ Permitted'
    BY <1>0, <1>2, <1>3, <2>1, Zenon DEF Alone, Permitted
  <2>4. Child' /\ Order'
    BY <1>0, <2>1 DEF Child, Order, Apply, Halting, Out, Stopping, Threads, Children
  <2>5. Doomed => Doomed'
    BY <1>0, Zenon DEF Doomed
  <2>6. Told'
    BY <1>0, <1>3, <2>1, <2>5 DEF Told, Well, Apply, Out
  <2> QED
    BY <2>2, <2>3, <2>4, <2>6, Zenon
<1>4. CASE /\ silent' = TRUE /\ at' = at
           /\ sess' = IF sess = "starting" THEN "over" ELSE sess
           /\ shown' = IF sess = "starting" THEN "failed" ELSE shown
  <2>1. BridgeShape'
    BY <1>0, <1>4, Zenon DEF BridgeShape
  <2>2. Alone' /\ Permitted'
    BY <1>0, <1>1, <1>2, <1>4, Zenon DEF Alone, Permitted
  <2>3. Child' /\ Order'
    BY <1>0, <1>4 DEF Child, Order, Apply, Halting, Out, Stopping, Threads
  <2>4. Told'
    BY <1>4, Zenon DEF Told
  <2> QED
    BY <2>1, <2>2, <2>3, <2>4, Zenon
<1> QED
  BY <1>0, <1>3, <1>4, Zenon DEF ApplyBegin, Go, stop

LEMMA MiddleStep ==
    ASSUME BridgeInv, ApplyStopped \/ ApplyReturns
    PROVE  BridgeInv'
<1> USE DEF BridgeInv
<1>0. UNCHANGED <<cst, up, told, sent, relay, heard, chosen, permitted, adapter, closed, opErr>>
  BY Zenon DEF ApplyStopped, ApplyReturns, childVars, planVars, seenVars
<1>1. Doomed => Doomed'
  BY <1>0, Zenon DEF Doomed
<1>2. CASE ApplyStopped
  <2>1. /\ at["apply"] = <<"stopped", "both">> /\ at["stop"] = Out
        /\ at'["apply"] = (IF opErr THEN <<"failed", "both">> ELSE <<"start", "xray">>) /\ at'["stop"] = Out
        /\ at' \in [Threads -> Steps \X (Children \cup {"both"})]
        /\ silent' = (silent \/ opErr) /\ sess' = sess /\ shown' = shown
    BY <1>2 DEF ApplyStopped, Go, BridgeShape, Alone, Out, Threads, Steps, Children, seenVars
  <2>2. BridgeShape'
    BY <1>0, <2>1, Zenon DEF BridgeShape
  <2>3. Alone' /\ Permitted'
    BY <1>0, <2>1 DEF Alone, Permitted, Out
  <2>4. Child' /\ Order'
    BY <1>0, <2>1 DEF Child, Order, Apply, Halting, Out, Stopping, Threads, Children
  <2>5. Told'
    BY <1>0, <1>1, <2>1, Zenon DEF Told, Well, Apply, BridgeShape
  <2> QED
    BY <2>2, <2>3, <2>4, <2>5, Zenon
<1>3. CASE ApplyReturns
  <2>1. /\ at["apply"] \in {<<"done", "both">>, <<"failed", "both">>} /\ at["stop"] = Out
        /\ at'["apply"] = Out /\ at'["stop"] = Out
        /\ at' \in [Threads -> Steps \X (Children \cup {"both"})]
        /\ silent' = silent
        /\ sess' = IF sess # "starting" THEN sess ELSE IF at["apply"][1] = "done" THEN "up" ELSE "over"
        /\ sess # "starting" => shown' = shown
        /\ shown' \in {"connecting", "connected", "reconnecting", "failed"}
    BY <1>3 DEF ApplyReturns, Go, BridgeShape, Alone, Out, Threads, Steps, Children
  <2>2. BridgeShape'
    BY <1>0, <2>1, Zenon DEF BridgeShape
  <2>3. Alone' /\ Permitted'
    BY <1>0, <2>1, Zenon DEF Alone, Permitted, Out
  <2>4. Child' /\ Order'
    BY <1>0, <2>1 DEF Child, Order, Apply, Halting, Out, Stopping, Threads, Children
  <2>5. Told'
    BY <1>0, <1>1, <2>1 DEF Told, Well, Apply, Alone, Out
  <2> QED
    BY <2>2, <2>3, <2>4, <2>5, Zenon
<1> QED
  BY <1>2, <1>3, Zenon

LEMMA StartStep ==
    ASSUME BridgeInv, NEW c \in Children, ApplyStart(c) \/ ApplyStarted(c)
    PROVE  BridgeInv'
<1> USE DEF BridgeInv
<1>0. /\ UNCHANGED <<told, relay, opErr, sess, heard, shown, chosen, permitted, closed>>
      /\ at["apply"] \in {<<"start", c>>, <<"starting", c>>} /\ at["stop"] = Out
  <2>1. /\ UNCHANGED <<told, relay, opErr, sess, heard, shown, chosen, permitted, closed>>
        /\ at["apply"] \in {<<"start", c>>, <<"starting", c>>}
    BY Zenon DEF ApplyStart, ApplyStarted, seenVars, planVars
  <2>2. at["apply"] # Out
    BY <2>1 DEF Out
  <2> QED
    BY <2>1, <2>2, Zenon DEF Alone
<1>1. CASE at' = [at EXCEPT !["apply"] = <<"undo", "tun">>] /\ silent' = TRUE /\ UNCHANGED <<cst, sent, up, adapter>> /\ ApplyStart("tun") /\ c = "tun"
  <2>1. at' \in [Threads -> Steps \X (Children \cup {"both"})] /\ at'["apply"] = <<"undo", "tun">> /\ at'["stop"] = Out
    BY <1>0, <1>1, Zenon DEF BridgeShape, Steps, Stopping, Children, Threads
  <2>2. at["apply"] = <<"start", "tun">>
    BY <1>1, Zenon DEF ApplyStart
  <2>3. BridgeShape' /\ Alone' /\ Permitted'
    BY <1>0, <1>1, <2>1, <2>2 DEF BridgeShape, Alone, Permitted, Out
  <2>4. Child' /\ Order'
    BY <1>0, <1>1, <2>1, <2>2 DEF Child, Order, Apply, Halting, Out, Stopping, Threads, Children
  <2>5. Told'
    BY <1>1, Zenon DEF Told
  <2> QED
    BY <2>3, <2>4, <2>5, Zenon
<1>2. CASE /\ ApplyStart(c) /\ SetChild(c, "starting", <<>>)
           /\ at' = [at EXCEPT !["apply"] = <<"starting", c>>] /\ silent' = silent
  <2>0. at["apply"] = <<"start", c>> /\ ~told[c] /\ UNCHANGED <<up, adapter>>
    BY <1>2, Zenon DEF ApplyStart
  <2>1. at' \in [Threads -> Steps \X (Children \cup {"both"})] /\ at'["apply"] = <<"starting", c>> /\ at'["stop"] = Out
    BY <1>0, <1>2, Zenon DEF BridgeShape, Steps, Threads
  <2>2. Moved(c) /\ cst'[c] = "starting"
    BY <1>0, <1>2, SetKeeps, Zenon DEF States
  <2>3. BridgeShape' /\ Alone' /\ Permitted'
    BY <1>0, <1>2, <2>0, <2>1, <2>2 DEF BridgeShape, Alone, Permitted, Out, Moved
  <2>4. Child' /\ Order'
    BY <1>0, <2>0, <2>1, <2>2 DEF Child, Order, Apply, Halting, Out, Stopping, Threads, Children, Moved, Active
  <2>5. Told'
    BY <1>0, <1>2, <2>0, <2>1, <2>2 DEF Told, Well, Apply, Out, Moved, Children
  <2> QED
    BY <2>3, <2>4, <2>5, Zenon
<1>3. CASE /\ ApplyStarted(c) /\ Started(c)
           /\ at' = [at EXCEPT !["apply"] = IF c = "tun" THEN <<"done", "both">> ELSE <<"start", "tun">>]
  <2>0. /\ at["apply"] = <<"starting", c>> /\ silent' = silent
        /\ SetChild(c, "running", <<"state">>) /\ up' = [up EXCEPT ![c] = TRUE]
        /\ adapter' = (IF c = "tun" THEN chosen ELSE adapter)
    BY <1>3, Zenon DEF ApplyStarted, Started
  <2>1. /\ at' \in [Threads -> Steps \X (Children \cup {"both"})] /\ at'["stop"] = Out
        /\ at'["apply"] = IF c = "tun" THEN <<"done", "both">> ELSE <<"start", "tun">>
    BY <1>0, <1>3, Zenon DEF BridgeShape, Steps, Children, Threads
  <2>2. Moved(c) /\ cst'[c] = "running"
    BY <1>0, <2>0, SetKeeps, Zenon DEF States
  <2>3. BridgeShape' /\ Alone' /\ Permitted'
    BY <1>0, <1>3, <2>0, <2>1, <2>2 DEF BridgeShape, Alone, Permitted, Out, Moved, Children
  <2>4. Child' /\ Order'
    BY <1>0, <1>3, <2>0, <2>1, <2>2 DEF Child, Order, Apply, Halting, Out, Stopping, Threads, Children, Moved, Active, BridgeShape
  <2>5. Told'
    BY <1>0, <1>3, <2>0, <2>1, <2>2 DEF Told, Well, Apply, Out, Moved, Children, Active
  <2> QED
    BY <2>3, <2>4, <2>5, Zenon
<1>4. CASE /\ ApplyStarted(c) /\ SetChild(c, "failed", <<"fatal">>) /\ UNCHANGED <<up, adapter>>
           /\ at' = [at EXCEPT !["apply"] = <<"undo", "tun">>]
  <2>0. at["apply"] = <<"starting", c>> /\ silent' = silent
    BY <1>4, Zenon DEF ApplyStarted
  <2>1. at' \in [Threads -> Steps \X (Children \cup {"both"})] /\ at'["apply"] = <<"undo", "tun">> /\ at'["stop"] = Out
    BY <1>0, <1>4, Zenon DEF BridgeShape, Steps, Stopping, Children, Threads
  <2>2. Moved(c) /\ cst'[c] = "failed" /\ (sess = "up" => Doomed')
    BY <1>0, <1>4, SetKeeps, Zenon DEF States
  <2>3. BridgeShape' /\ Alone' /\ Permitted'
    BY <1>0, <1>4, <2>0, <2>1, <2>2 DEF BridgeShape, Alone, Permitted, Out, Moved
  <2>4. Child' /\ Order'
    BY <1>0, <1>4, <2>0, <2>1, <2>2 DEF Child, Order, Apply, Halting, Out, Stopping, Threads, Children, Moved, Active
  <2>5. Told'
    BY <1>0, <2>2, Zenon DEF Told
  <2> QED
    BY <2>3, <2>4, <2>5, Zenon
<1> QED
  BY <1>1, <1>2, <1>3, <1>4, Zenon DEF ApplyStart, ApplyStarted, Go, stop

-----------------------------------------------------------------------------
(* The session starts, listens, and stops.                                  *)

LEMMA SessionStep ==
    ASSUME BridgeInv, SessionStart \/ SessionRefused \/ SessionSubscribe
    PROVE  BridgeInv'
<1> USE DEF BridgeInv
<1>0. UNCHANGED <<cst, up, told, sent, relay, at, opErr, shown, adapter, closed>>
  BY Zenon DEF SessionStart, SessionRefused, SessionSubscribe, childVars, seenVars
<1>1. Child' /\ Order'
  BY <1>0, Zenon DEF Child, Order, Apply, Halting
<1>2. CASE SessionStart \/ SessionRefused
  <2>1. /\ sess = "new" /\ heard' = heard /\ silent' = silent /\ chosen' = permitted'
        /\ sess' = "starting" \/ sess' = "over"
        /\ sess' = "starting" => chosen' # "none"
    BY <1>2, Zenon DEF SessionStart, SessionRefused, planVars, Permitted
  <2>2. ~heard /\ ~up["tun"]
    BY <2>1, Zenon DEF Alone, Child, Children
  <2>3. BridgeShape' /\ Alone' /\ Permitted'
    BY <1>0, <2>1, <2>2, Zenon DEF BridgeShape, Alone, Permitted
  <2> QED
    BY <1>1, <2>1, <2>3, Zenon DEF Told
<1>3. CASE SessionSubscribe
  <2>1. /\ sess = "up" /\ ~heard /\ heard' = TRUE /\ sess' = sess /\ UNCHANGED <<chosen, permitted>>
        /\ silent' = (silent \/ ~BothRun)
    BY <1>3, Zenon DEF SessionSubscribe, planVars
  <2>2. BridgeShape' /\ Alone' /\ Permitted'
    BY <1>0, <2>1, Zenon DEF BridgeShape, Alone, Permitted
  <2>3. BothRun => Well'
    BY <1>0, <2>1, Zenon DEF BothRun, Well, Alone, Active
  <2> QED
    BY <1>1, <2>1, <2>2, <2>3, Zenon DEF Told
<1> QED
  BY <1>2, <1>3, Zenon

LEMMA EndStep ==
    ASSUME BridgeInv, StopBegin \/ CloseBegin \/ CloseEnd
    PROVE  BridgeInv'
<1> USE DEF BridgeInv
<1>0. /\ UNCHANGED <<cst, up, told, heard, shown, silent, chosen, permitted, adapter>>
      /\ sess' \in {"stopping", "over"} /\ (sess' = "stopping" => sess \in {"up", "stopping"})
      /\ at["apply"] = Out /\ at["stop"] \in {Out, <<"closing", "both">>}
      /\ \/ at' = [at EXCEPT !["stop"] = <<"stop", "tun">>]
         \/ at' = [at EXCEPT !["stop"] = <<"close", "tun">>]
         \/ at' = [at EXCEPT !["stop"] = Out]
      /\ opErr' \in BOOLEAN /\ closed' \in BOOLEAN
  <2>1. CASE StopBegin
    BY <2>1, Zenon DEF StopBegin, planVars, Locked, Go, stop, Threads, BridgeShape
  <2>2. CASE CloseBegin
    BY <2>2, Zenon DEF CloseBegin, planVars, childVars, seenVars, Locked, Go, stop, Threads, BridgeShape
  <2>3. CASE CloseEnd
    BY <2>3 DEF CloseEnd, planVars, childVars, Alone, Go, Out, BridgeShape
  <2> QED
    BY <2>1, <2>2, <2>3, Zenon
<1>1. /\ at' \in [Threads -> Steps \X (Children \cup {"both"})]
      /\ at'["apply"] = Out /\ at'["stop"] \in {<<"stop", "tun">>, <<"close", "tun">>, Out}
  <2> DEFINE Places == Steps \X (Children \cup {"both"})
  <2>1. <<"stop", "tun">> \in Places /\ <<"close", "tun">> \in Places /\ Out \in Places
    BY Zenon DEF Steps, Stopping, Children, Out
  <2>2. at \in [Threads -> Places] /\ "apply" \in Threads /\ "stop" \in Threads
    BY Zenon DEF BridgeShape, Threads
  <2> HIDE DEF Places
  <2>3. PICK place \in {<<"stop", "tun">>, <<"close", "tun">>, Out} : at' = [at EXCEPT !["stop"] = place]
    BY <1>0, Zenon
  <2>4. at' \in [Threads -> Places] /\ at'["stop"] = place /\ at'["apply"] = at["apply"]
    BY <2>1, <2>2, <2>3, Zenon
  <2> QED
    BY <1>0, <2>3, <2>4, Zenon DEF Places
<1>2. BridgeShape'
  <2>1. <<>> \in Seq(Events)
    OBVIOUS
  <2>2. relay' = [c \in Children |-> relay'[c]] /\ sent' \in [Children -> Seq(Events)]
    BY <2>1, Zenon DEF StopBegin, CloseBegin, CloseEnd, childVars, BridgeShape
  <2> QED
    BY <1>0, <1>1, <2>2, Zenon DEF BridgeShape
<1>3. Alone' /\ Permitted' /\ Told'
  BY <1>0, <1>1, Zenon DEF Alone, Permitted, Told
<1>4. Child' /\ Order'
  BY <1>0, <1>1 DEF Child, Order, Apply, Halting, Out, Stopping, Threads, Children
<1> QED
  BY <1>2, <1>3, <1>4, Zenon

-----------------------------------------------------------------------------
LEMMA BridgeStarts == BridgeInit => BridgeInv
<1> SUFFICES ASSUME BridgeInit PROVE BridgeInv
  BY Zenon
<1>0. <<>> \in Seq(Events)
  OBVIOUS
<1>1. BridgeShape
  BY <1>0, Zenon DEF BridgeInit, BridgeShape, States, Steps, Out
<1>2. Alone /\ Child /\ Permitted /\ Told
  BY Zenon DEF BridgeInit, Alone, Child, Permitted, Told, Out, Threads, Children
<1>3. Order
  BY Zenon DEF BridgeInit, Order, Apply, Halting, Out, Stopping, Threads, Children
<1> QED
  BY <1>1, <1>2, <1>3, Zenon DEF BridgeInv

LEMMA BridgeInductive == BridgeSpec => []BridgeInv
<1>1. BridgeInv /\ [BridgeNext]_bridgeVars => BridgeInv'
  BY RelayStep, NetworkStep, ChildStep, StopsStep, BeginStep, MiddleStep, StartStep, SessionStep, EndStep, Zenon
     DEF BridgeNext
<1> QED
  BY <1>1, BridgeStarts, PTL DEF BridgeSpec

(* When the events have settled, a session that shows it is connected has   *)
(* each child running or being brought back: a child that was given up has  *)
(* left a fatal event, and Apply fails aloud or is only logged.             *)
(* (State, the relays of New, renewConnections)                             *)
THEOREM SessionShowsTruth == BridgeSpec => []ShownIsTrue
<1>1. BridgeInv => ShownIsTrue
  <2> SUFFICES ASSUME BridgeInv, Quiet, heard, sess = "up", shown = "connected", ~silent, NEW c \in Children
               PROVE  cst[c] \in Active
    BY Zenon DEF ShownIsTrue
  <2>1. ~Doomed
    BY DEF Quiet, Doomed, Idle
  <2>2. Well /\ at["apply"] = Out
    BY <2>1, Zenon DEF BridgeInv, Told, Quiet, Locked, Threads
  <2> QED
    BY <2>2 DEF Well, Apply, Out, Active
<1> QED
  BY <1>1, BridgeInductive, PTL

(* The adapter has the network that the guard permitted when the session    *)
(* started, whatever appears on the machine since. (PrepareTun)             *)
THEOREM AdapterIsPermitted == BridgeSpec => []AdapterPermitted
<1>1. BridgeInv => AdapterPermitted
  BY Zenon DEF BridgeInv, Permitted, AdapterPermitted
<1> QED
  BY <1>1, BridgeInductive, PTL

(* The adapter takes no packets without an Xray that runs or is brought up, *)
(* unless it was given up, which a session that listens shows or is about   *)
(* to hear. (Apply, stop, watch)                                            *)
THEOREM ReceiverComesFirst == BridgeSpec => []ReceiverFirst
<1>1. BridgeInv => ReceiverFirst
  <2> SUFFICES ASSUME BridgeInv, cst["tun"] \in Active, cst["xray"] \notin Active
               PROVE  /\ cst["xray"] = "failed"
                      /\ sess = "up" /\ heard /\ ~silent /\ shown # "failed" => Doomed
    BY Zenon DEF ReceiverFirst
  <2>1. cst["tun"] \notin {"stopped", "failed"} /\ cst["xray"] \in {"stopped", "failed"}
    BY Zenon DEF BridgeInv, BridgeShape, Children, States, Active
  <2>2. cst["xray"] = "failed"
    BY <2>1, Zenon DEF BridgeInv, Order
  <2>3. ~Apply("stop", "xray")
    <3>1. ~Halting("xray")
      BY <2>1, Zenon DEF BridgeInv, Order
    <3> QED
      BY <3>1 DEF Halting, Apply, Stopping, Threads
  <2>4. ~Well
    BY <2>1, <2>3, Zenon DEF BridgeInv, Order, Well, Active, Children
  <2> QED
    BY <2>2, <2>4, Zenon DEF BridgeInv, Told
<1> QED
  BY <1>1, BridgeInductive, PTL

(* No operation leaves one child started and the other stopped. (e.op)      *)
THEOREM PairIsWhole == BridgeSpec => []NotHalf
<1>1. BridgeInv => NotHalf
  BY DEF BridgeInv, Order, NotHalf, Locked, Apply, Halting, Out, Stopping, Threads, Children
<1> QED
  BY <1>1, BridgeInductive, PTL

-----------------------------------------------------------------------------
(***************************************************************************)
(* A measurement answers for every server it was asked about.              *)
(*                                                                         *)
(* While the client stays and the stream runs, no server is lost on its    *)
(* way through the goroutines and channels.  Each is already with the      *)
(* handler (Delivered), in a call of the prober (InProbe), still to be     *)
(* measured or reported by its engine (Pending), in the registry's         *)
(* channel, or kept for the prober (Waiting).  The two calls of the prober *)
(* never work on the same server (Apart), and a channel is closed only     *)
(* when its goroutines are done (Closing).                                 *)
(***************************************************************************)

Delivered(s) == results[s] > 0 \/ answered[s] > 0

InProbe(c, s) ==
    /\ s \in probed[c] /\ mover[c] \in {"run", "ending"}
    /\ task[s] \in {"slot", "dial"} \/ s \in found[c]

Pending(e, s) ==
    \/ /\ group[e] \in {"start", "measure"} /\ meas[s] # "done"
       /\ e = "xray" => Batch(s) >= batch
    \/ group[e] = "fail" /\ s \in fails[e]

Waiting(s) ==
    \/ forward = "run" /\ out[s] > 0
    \/ forward \in {"run", "report"} /\ s \in orphans

Endpoint(s) == Delivered(s) \/ InProbe("direct", s)

Outbound(s) ==
    \/ Delivered(s)
    \/ Class(s) \in Engines /\ forward = "run" /\ Pending(Class(s), s)
    \/ Waiting(s)
    \/ InProbe("fallback", s)

OnTheWay ==
    ~gone => /\ hpc \in {"outbounds", "stream"} => \A s \in Of("endpoint") : Endpoint(s)
             /\ hpc = "stream" => \A s \in req.ask \ Of("endpoint") : Outbound(s)
             /\ hpc = "ended" => \A s \in req.ask : answered[s] > 0

Apart ==
    /\ \A s \in probed["direct"] : Class(s) = "endpoint"
    /\ \A s \in probed["fallback"] \cup orphans : Class(s) # "endpoint"

Closing == \A c \in Calls : mover[c] = "ending" => \A s \in probed[c] : task[s] = "done"

Stages ==
    /\ hpc = "connect" => probed["direct"] = {}
    /\ hpc \in {"connect", "outbounds"} =>
          /\ forward = "none" /\ probed["fallback"] = {} /\ batch = 1
          /\ \A s \in Servers : meas[s] = "none"
          /\ \A e \in Engines : group[e] = "none"
    /\ forward = "run" => probed["fallback"] = {}

MeasureShape ==
    /\ req \in Requests
    /\ hpc \in {"connect", "outbounds", "stream", "ended", "refused", "broken"}
    /\ gone \in BOOLEAN
    /\ probed \in [Calls -> SUBSET Servers] /\ found \in [Calls -> SUBSET Servers]
    /\ task \in [Servers -> {"none", "slot", "dial", "done"}]
    /\ call \in [Calls -> {"none", "run", "freed", "closed"}]
    /\ mover \in [Calls -> {"none", "run", "ending", "done"}]
    /\ group \in [Engines -> {"none", "start", "measure", "fail", "done"}]
    /\ meas \in [Servers -> {"none", "run", "done"}]
    /\ fails \in [Engines -> SUBSET Servers]
    /\ batch \in Nat
    /\ out \in [Servers -> Nat] /\ results \in [Servers -> Nat] /\ answered \in [Servers -> Nat]
    /\ orphans \subseteq Servers
    /\ forward \in {"none", "run", "report", "done"}

MeasureInv == MeasureShape /\ Apart /\ Closing /\ Stages /\ OnTheWay

LEMMA MeasureStarts == MeasureInit => MeasureInv
<1> SUFFICES ASSUME MeasureInit PROVE MeasureInv
  BY Zenon
<1>1. MeasureShape
  BY Zenon DEF MeasureInit, MeasureShape, Empty
<1>2. Apart /\ Closing /\ Stages /\ OnTheWay
  BY Zenon DEF MeasureInit, Apart, Closing, Stages, OnTheWay, Calls
<1> QED
  BY <1>1, <1>2, Zenon DEF MeasureInv

(* A channel that holds one more of a server, or one less.                  *)
LEMMA OneMore ==
    ASSUME NEW f \in [Servers -> Nat], NEW s \in Servers
    PROVE  /\ One(f, s) \in [Servers -> Nat] /\ One(f, s)[s] > 0
           /\ \A t \in Servers : f[t] > 0 => One(f, s)[t] > 0
  BY DEF One

LEMMA OneLess ==
    ASSUME NEW f \in [Servers -> Nat], NEW s \in Servers, f[s] > 0
    PROVE  /\ Less(f, s) \in [Servers -> Nat]
           /\ \A t \in Servers \ {s} : Less(f, s)[t] = f[t]
  BY DEF Less

(* A step that moves no server off its way keeps all on it.                 *)
LEMMA WayKept ==
    ASSUME MeasureShape, OnTheWay, req' = req, hpc' = hpc, gone' = gone, answered' = answered,
           ~gone /\ hpc \in {"outbounds", "stream"} =>
               \A s \in Of("endpoint") : Endpoint(s) => Endpoint(s)',
           ~gone /\ hpc = "stream" =>
               \A s \in req.ask \ Of("endpoint") : Outbound(s) => Outbound(s)'
    PROVE  OnTheWay'
<1>1. Of("endpoint")' = Of("endpoint")
  BY Zenon DEF Of
<1> QED
  BY <1>1, Zenon DEF OnTheWay

-----------------------------------------------------------------------------
(* The goroutines of the prober.                                            *)

LEMMA TaskStep ==
    ASSUME MeasureInv, NEW s \in Servers, NEW c \in Calls, TaskSlot(s) \/ TaskSend(c, s)
    PROVE  MeasureInv'
<1> USE DEF MeasureInv
<1>0. /\ UNCHANGED <<call, probed, mover, group, batch, meas, fails, out, req, hpc, gone, forward, orphans, results, answered>>
      /\ task[s] \in {"slot", "dial"} /\ task'[s] \in {"dial", "done"}
      /\ \A t \in Servers \ {s} : task'[t] = task[t]
      /\ task' \in [Servers -> {"none", "slot", "dial", "done"}]
      /\ found' \in [Calls -> SUBSET Servers]
      /\ \A k \in Calls : found[k] \subseteq found'[k]
  BY DEF TaskSlot, TaskSend, MeasureShape, engineVars, handlerVars, Calls
<1>1. MeasureShape'
  BY <1>0, Zenon DEF MeasureShape
<1>2. Apart' /\ Stages'
  BY <1>0, Zenon DEF Apart, Stages
<1>3. Closing'
  BY <1>0 DEF Closing, MeasureShape
<1>4. ASSUME NEW k \in Calls, NEW t \in Servers, ~gone, hpc \in {"outbounds", "stream"}, InProbe(k, t),
             \A j \in Calls : t \in probed[j] => j = k
      PROVE  InProbe(k, t)'
  <2>1. CASE t # s
    BY <1>0, <1>4, <2>1, Zenon DEF InProbe
  <2>2. CASE t = s /\ TaskSlot(s)
    BY <1>0, <1>4, <2>2 DEF InProbe, TaskSlot, Cancelled, MeasureShape
  <2>3. CASE t = s /\ TaskSend(c, s)
    BY <1>0, <1>4, <2>3 DEF InProbe, TaskSend, Cancelled, MeasureShape
  <2> QED
    BY <2>1, <2>2, <2>3, Zenon
<1>5. ASSUME NEW t \in Servers, NEW k \in Calls, InProbe(k, t)
      PROVE  \A j \in Calls : t \in probed[j] => j = k
  BY <1>5, Zenon DEF InProbe, Apart, Calls
<1>6. \A t \in Servers : Delivered(t)' = Delivered(t) /\ Waiting(t)' = Waiting(t) /\ \A e \in Engines : Pending(e, t)' = Pending(e, t)
  BY <1>0, Zenon DEF Delivered, Waiting, Pending
<1>7. req.ask \subseteq Servers /\ Of("endpoint") \subseteq Servers
  BY MeasureAssumption, Zenon DEF MeasureShape, Of
<1>8. ~gone /\ hpc \in {"outbounds", "stream"} => \A t \in Of("endpoint") : Endpoint(t) => Endpoint(t)'
  BY <1>4, <1>5, <1>6, <1>7, Zenon DEF Endpoint, Calls
<1>9. ~gone /\ hpc = "stream" => \A t \in req.ask \ Of("endpoint") : Outbound(t) => Outbound(t)'
  BY <1>0, <1>4, <1>5, <1>6, <1>7, Zenon DEF Outbound, Calls
<1>10. OnTheWay'
  BY <1>0, <1>8, <1>9, WayKept, Zenon
<1> QED
  BY <1>1, <1>2, <1>3, <1>10, Zenon

(* The end of a call, and what comes to the handler from it.                *)
LEMMA MoveStep ==
    ASSUME MeasureInv, NEW c \in Calls, CallEnds(c) \/ Move(c)
    PROVE  MeasureInv'
<1> USE DEF MeasureInv
<1>0. /\ UNCHANGED <<probed, task, group, batch, meas, fails, out, req, hpc, gone, forward, orphans, answered>>
  BY Zenon DEF CallEnds, Move, engineVars, handlerVars
<1>1. MeasureShape' /\ \A t \in Servers : results[t] > 0 => results'[t] > 0
  <2>1. CASE CallEnds(c)
    BY <1>0, <2>1, Zenon DEF CallEnds, MeasureShape, handlerVars
  <2>2. CASE Move(c)
    <3>1. call' = call /\ mover' \in [Calls -> {"none", "run", "ending", "done"}] /\ found' \in [Calls -> SUBSET Servers]
      BY <2>2, Zenon DEF Move, MeasureShape
    <3>2. results' \in [Servers -> Nat] /\ \A t \in Servers : results[t] > 0 => results'[t] > 0
      BY <2>2, OneMore DEF Move, MeasureShape
    <3> QED
      BY <1>0, <3>1, <3>2, Zenon DEF MeasureShape
  <2> QED
    BY <2>1, <2>2, Zenon
<1>2. Apart' /\ Stages'
  BY <1>0, Zenon DEF Apart, Stages
<1>3. Closing'
  BY <1>0, Zenon DEF Closing, CallEnds, Move, MeasureShape
<1>4. ASSUME NEW k \in Calls, NEW t \in Servers, InProbe(k, t)
      PROVE  InProbe(k, t)' \/ Delivered(t)'
  <2>1. CASE CallEnds(c)
    BY <1>0, <1>4, <2>1, Zenon DEF InProbe, CallEnds, MeasureShape, handlerVars
  <2>2. CASE Move(c) /\ mover' = mover
    <3> PICK u \in found[c] : results' = One(results, u) /\ found' = [found EXCEPT ![c] = @ \ {u}]
      BY <2>2, Zenon DEF Move, MeasureShape
    <3>1. u \in Servers
      BY Zenon DEF MeasureShape
    <3>2. CASE t = u
      BY <3>1, <3>2, OneMore, Zenon DEF MeasureShape, Delivered
    <3>3. CASE t # u
      BY <1>0, <1>4, <2>2, <3>3, Zenon DEF InProbe, MeasureShape
    <3> QED
      BY <3>2, <3>3, Zenon
  <2>3. CASE Move(c) /\ mover' # mover
    BY <1>0, <1>4, <2>3, Zenon DEF InProbe, Move, Closing, MeasureShape
  <2> QED
    BY <2>1, <2>2, <2>3, Zenon
<1>5. \A t \in Servers : (Delivered(t) => Delivered(t)') /\ Waiting(t)' = Waiting(t) /\ \A e \in Engines : Pending(e, t)' = Pending(e, t)
  BY <1>0, <1>1, Zenon DEF Delivered, Waiting, Pending
<1>6. req.ask \subseteq Servers /\ Of("endpoint") \subseteq Servers
  BY MeasureAssumption, Zenon DEF MeasureShape, Of
<1>7. \A t \in Of("endpoint") : Endpoint(t) => Endpoint(t)'
  BY <1>4, <1>5, <1>6, Zenon DEF Endpoint, Calls
<1>8. \A t \in req.ask \ Of("endpoint") : Outbound(t) => Outbound(t)'
  BY <1>0, <1>4, <1>5, <1>6, Zenon DEF Outbound, Calls
<1>9. OnTheWay'
  BY <1>0, <1>7, <1>8, WayKept, Zenon
<1> QED
  BY <1>1, <1>2, <1>3, <1>9, Zenon

(* Requests of others, and a client that leaves.                            *)
LEMMA AsideStep ==
    ASSUME MeasureInv, OtherBegins \/ OtherEnds \/ ClientLeaves \/ UNCHANGED measureVars
    PROVE  MeasureInv'
<1>1. /\ UNCHANGED <<call, probed, task, found, mover, group, batch, meas, fails, out, req, hpc, forward, orphans, results, answered>>
      /\ gone' \in BOOLEAN /\ (gone => gone')
  BY Zenon DEF OtherBegins, OtherEnds, ClientLeaves, measureVars, engineVars, handlerVars, proberVars, MeasureInv, MeasureShape
<1>2. MeasureShape' /\ Apart' /\ Closing' /\ Stages'
  BY <1>1, Zenon DEF MeasureInv, MeasureShape, Apart, Closing, Stages
<1>3. \A s : /\ Delivered(s)' = Delivered(s) /\ Waiting(s)' = Waiting(s)
             /\ \A c \in Calls : InProbe(c, s)' = InProbe(c, s)
             /\ \A e \in Engines : Pending(e, s)' = Pending(e, s)
  BY <1>1, Zenon DEF Delivered, Waiting, Pending, InProbe
<1>4. OnTheWay'
  <2>1. \A s : Endpoint(s)' = Endpoint(s) /\ Outbound(s)' = Outbound(s)
    BY <1>1, <1>3, Zenon DEF Endpoint, Outbound, Calls
  <2>2. Of("endpoint")' = Of("endpoint")
    BY <1>1, Zenon DEF Of
  <2> QED
    BY <1>1, <2>1, <2>2, Zenon DEF OnTheWay, MeasureInv
<1> QED
  BY <1>2, <1>4, Zenon DEF MeasureInv

-----------------------------------------------------------------------------
(* The engines.                                                             *)

LEMMA EngineStep ==
    ASSUME MeasureInv,
           \/ \E u \in Servers : Timed(u)
           \/ \E d \in Engines : GroupStart(d) \/ GroupNext(d) \/ GroupFails(d)
    PROVE  MeasureInv'
<1> USE DEF MeasureInv
<1>0. UNCHANGED <<call, probed, task, found, mover, req, hpc, gone, forward, orphans, results, answered>>
  BY Zenon DEF Timed, GroupStart, GroupNext, GroupFails, proberVars, handlerVars
<1>a. req.ask \subseteq Servers /\ \A class : Of(class) \subseteq req.ask
  BY MeasureAssumption, Zenon DEF MeasureShape, Of
<1>1. /\ group' \in [Engines -> {"none", "start", "measure", "fail", "done"}]
      /\ meas' \in [Servers -> {"none", "run", "done"}]
      /\ fails' \in [Engines -> SUBSET Servers]
      /\ batch' \in Nat /\ out' \in [Servers -> Nat]
      /\ \A t \in Servers : out[t] > 0 => out'[t] > 0
  <2>1. CASE \E u \in Servers : Timed(u)
    BY <2>1, OneMore DEF Timed, MeasureShape
  <2>2. ASSUME NEW d \in Engines, GroupStart(d) PROVE <1>1!:
    BY <1>a, <2>2 DEF GroupStart, MeasureShape
  <2>3. ASSUME NEW d \in Engines, GroupNext(d) PROVE <1>1!:
    BY <2>3 DEF GroupNext, MeasureShape
  <2>4. ASSUME NEW d \in Engines, GroupFails(d) PROVE <1>1!:
    <3>1. ASSUME NEW u \in fails[d], out' = One(out, u), fails' = [fails EXCEPT ![d] = @ \ {u}]
          PROVE  <1>1!:
      <4>1. u \in Servers /\ fails' \in [Engines -> SUBSET Servers]
        BY <3>1, Zenon DEF MeasureShape
      <4>2. out' \in [Servers -> Nat] /\ \A t \in Servers : out[t] > 0 => out'[t] > 0
        BY <3>1, <4>1, OneMore, Zenon DEF MeasureShape
      <4> QED
        BY <2>4, <4>1, <4>2, Zenon DEF GroupFails, MeasureShape
    <3>2. CASE UNCHANGED <<fails, out>>
      BY <2>4, <3>2, Zenon DEF GroupFails, MeasureShape
    <3> QED
      BY <2>4, <3>1, <3>2, Zenon DEF GroupFails
  <2> QED
    BY <2>1, <2>2, <2>3, <2>4, Zenon
<1>2. MeasureShape'
  BY <1>0, <1>1, Zenon DEF MeasureShape
<1>3. Apart' /\ Closing' /\ Stages'
  <2>1. hpc \notin {"connect", "outbounds"}
    BY Zenon DEF Stages, Timed, GroupStart, GroupNext, GroupFails
  <2> QED
    BY <1>0, <2>1, Zenon DEF Apart, Closing, Stages
<1>4. ASSUME NEW e \in Engines, NEW s \in Of(e), Pending(e, s)
      PROVE  Pending(e, s)' \/ out'[s] > 0
  <2>0. s \in Servers /\ Class(s) = e /\ s \in req.ask /\ Batch(s) \in Nat /\ batch \in Nat
    BY <1>a, MeasureAssumption, Zenon DEF Of, MeasureShape
  <2>1. ASSUME NEW u \in Servers, Timed(u) PROVE Pending(e, s)' \/ out'[s] > 0
    <3>1. CASE u = s
      BY <2>0, <2>1, <3>1, OneMore, Zenon DEF Timed, MeasureShape
    <3>2. CASE u # s
      BY <1>4, <2>0, <2>1, <3>2, Zenon DEF Timed, Pending, MeasureShape
    <3> QED
      BY <3>1, <3>2, Zenon
  <2>2. ASSUME NEW d \in Engines, GroupStart(d) PROVE Pending(e, s)' \/ out'[s] > 0
    <3>1. InBatch(d) \subseteq Of(d) /\ \A t \in Servers : meas'[t] = "done" => meas[t] = "done"
      BY <1>a, <2>2 DEF GroupStart, InBatch, MeasureShape
    <3>2. CASE d # e
      BY <1>4, <2>0, <2>2, <3>1, <3>2, Zenon DEF GroupStart, Pending, MeasureShape
    <3>3. CASE d = e
      BY <1>4, <2>0, <2>2, <3>1, <3>3, Zenon DEF GroupStart, Pending, MeasureShape
    <3> QED
      BY <3>2, <3>3, Zenon
  <2>3. ASSUME NEW d \in Engines, GroupNext(d) PROVE Pending(e, s)' \/ out'[s] > 0
    <3>1. CASE d # e
      BY <1>4, <2>0, <2>3, <3>1, Zenon DEF GroupNext, Pending, MeasureShape, Engines
    <3>2. CASE d = e
      <4>1. s \in InBatch(e) => meas[s] = "done"
        BY <2>3, <3>2, Zenon DEF GroupNext
      <4>2. group[e] = "measure" /\ meas[s] # "done" /\ (e = "xray" => Batch(s) > batch) /\ e = "xray"
        BY <1>4, <2>0, <2>3, <3>2, <4>1 DEF GroupNext, Pending, InBatch
      <4>3. group'[e] = "start" /\ batch' = batch + 1 /\ meas' = meas
        BY <2>3, <3>2, <4>2, Zenon DEF GroupNext, MeasureShape
      <4> QED
        BY <2>0, <4>2, <4>3 DEF Pending
    <3> QED
      BY <3>1, <3>2, Zenon
  <2>4. ASSUME NEW d \in Engines, GroupFails(d) PROVE Pending(e, s)' \/ out'[s] > 0
    <3>0. group[d] = "fail" /\ UNCHANGED <<batch, meas>>
      BY <2>4, Zenon DEF GroupFails
    <3>1. CASE fails[d] = {} /\ group' = [group EXCEPT ![d] = "done"] /\ fails' = fails
      <4>1. d # e
        BY <1>4, <3>0, <3>1, Zenon DEF Pending
      <4>2. group'[e] = group[e]
        BY <3>1, <4>1, Zenon DEF MeasureShape
      <4> QED
        BY <1>4, <3>0, <3>1, <4>2, Zenon DEF Pending
    <3>2. ASSUME NEW u \in fails[d], out' = One(out, u), fails' = [fails EXCEPT ![d] = @ \ {u}], group' = group
          PROVE  Pending(e, s)' \/ out'[s] > 0
      <4>1. CASE u = s
        BY <2>0, <3>2, <4>1, OneMore, Zenon DEF MeasureShape
      <4>2. CASE u # s
        <5>1. s \in fails[e] => s \in fails'[e]
          BY <3>2, <4>2, Zenon DEF MeasureShape
        <5> QED
          BY <1>4, <3>0, <3>2, <5>1, Zenon DEF Pending
      <4> QED
        BY <4>1, <4>2, Zenon
    <3> QED
      BY <2>4, <3>1, <3>2, Zenon DEF GroupFails
  <2> QED
    BY <2>1, <2>2, <2>3, <2>4, Zenon
<1>5. \A s \in Servers : /\ Delivered(s)' = Delivered(s) /\ (Waiting(s) => Waiting(s)')
                         /\ \A c \in Calls : InProbe(c, s)' = InProbe(c, s)
  BY <1>0, <1>1, Zenon DEF Delivered, Waiting, InProbe
<1>6. \A s \in Of("endpoint") : Endpoint(s) => Endpoint(s)'
  BY <1>a, <1>5, Zenon DEF Endpoint, Calls
<1>7. \A s \in req.ask \ Of("endpoint") : Outbound(s) => Outbound(s)'
  <2> SUFFICES ASSUME NEW s \in req.ask \ Of("endpoint"), Outbound(s) PROVE Outbound(s)'
    BY Zenon
  <2>1. CASE Class(s) \in Engines /\ forward = "run" /\ Pending(Class(s), s)
    <3>1. s \in Of(Class(s))
      BY Zenon DEF Of
    <3>2. Pending(Class(s), s)' \/ out'[s] > 0
      BY <1>4, <2>1, <3>1, Zenon
    <3> QED
      BY <1>0, <2>1, <3>2, Zenon DEF Outbound, Waiting
  <2>2. CASE ~(Class(s) \in Engines /\ forward = "run" /\ Pending(Class(s), s))
    BY <1>a, <1>5, <2>2, Zenon DEF Outbound, Calls
  <2> QED
    BY <2>1, <2>2, Zenon
<1>8. OnTheWay'
  BY <1>0, <1>6, <1>7, WayKept, Zenon
<1> QED
  BY <1>2, <1>3, <1>8, Zenon

-----------------------------------------------------------------------------
(* The handler.                                                             *)

(* A new call of the prober takes its servers and leaves the other call be. *)
LEMMA ProbeTakes ==
    ASSUME MeasureShape, NEW c \in Calls, NEW set \in SUBSET Servers, Probe(c, set)
    PROVE  /\ found' = found
           /\ call' \in [Calls -> {"none", "run", "freed", "closed"}]
           /\ probed' \in [Calls -> SUBSET Servers]
           /\ task' \in [Servers -> {"none", "slot", "dial", "done"}]
           /\ mover' \in [Calls -> {"none", "run", "ending", "done"}]
           /\ probed'[c] = set /\ mover'[c] = "run"
           /\ \A k \in Calls \ {c} : probed'[k] = probed[k] /\ mover'[k] = mover[k]
           /\ \A t \in Servers : task'[t] = IF t \in set THEN "slot" ELSE task[t]
  BY Zenon DEF Probe, MeasureShape

LEMMA ProbeApart ==
    ASSUME MeasureInv, NEW c \in Calls, NEW set \in SUBSET Servers, Probe(c, set), probed[c] = {},
           \A k \in Calls \ {c} : probed[k] \cap set = {}
    PROVE  /\ Closing'
           /\ \A t \in set : InProbe(c, t)'
           /\ \A k \in Calls, t \in Servers : InProbe(k, t) => InProbe(k, t)'
<1>0. /\ found' = found /\ probed'[c] = set /\ mover'[c] = "run"
      /\ \A k \in Calls \ {c} : probed'[k] = probed[k] /\ mover'[k] = mover[k]
      /\ \A t \in Servers : t \in set => task'[t] = "slot"
      /\ \A t \in Servers : t \notin set => task'[t] = task[t]
  <2>1. \A t \in Servers : task'[t] = IF t \in set THEN "slot" ELSE task[t]
    BY ProbeTakes DEF MeasureInv
  <2>2. /\ found' = found /\ probed'[c] = set /\ mover'[c] = "run"
        /\ \A k \in Calls \ {c} : probed'[k] = probed[k] /\ mover'[k] = mover[k]
    BY ProbeTakes DEF MeasureInv
  <2> QED
    BY <2>1, <2>2, Zenon
<1>1. Closing'
  <2>1. ASSUME NEW k \in Calls, mover'[k] = "ending", NEW t \in probed'[k]
        PROVE  task'[t] = "done"
    <3>1. k # c
      BY <1>0, <2>1, Zenon
    <3>2. t \in probed[k] /\ mover[k] = "ending" /\ t \notin set
      BY <1>0, <2>1, <3>1, Zenon
    <3>3. task[t] = "done" /\ t \in Servers
      BY <3>2, Zenon DEF MeasureInv, Closing, MeasureShape
    <3> QED
      BY <1>0, <3>2, <3>3, Zenon
  <2> QED
    BY <2>1, Zenon DEF Closing
<1>2. \A t \in set : InProbe(c, t)'
  <2>1. \A t \in set : task'[t] = "slot"
    BY <1>0, Zenon
  <2> QED
    BY <1>0, <2>1, Zenon DEF InProbe
<1>3. ASSUME NEW k \in Calls, NEW t \in Servers, InProbe(k, t) PROVE InProbe(k, t)'
  <2>1. k # c /\ t \in probed[k] /\ t \notin set
    BY <1>3, Zenon DEF InProbe
  <2>2. probed'[k] = probed[k] /\ mover'[k] = mover[k] /\ task'[t] = task[t] /\ found' = found
    BY <1>0, <2>1, Zenon
  <2> QED
    BY <1>3, <2>2, Zenon DEF InProbe
<1> QED
  BY <1>1, <1>2, <1>3, Zenon

(* From the registry's channel to the handler, or aside for the prober.     *)
LEMMA ForwardStep ==
    ASSUME MeasureInv, Forward
    PROVE  MeasureInv'
<1> USE DEF MeasureInv
<1>0. forward = "run" /\ UNCHANGED <<call, probed, task, found, mover, group, batch, meas, fails, req, hpc, gone, forward, answered>>
  BY Zenon DEF Forward, proberVars
<1> PICK u \in Servers :
      /\ out[u] > 0 /\ out' = Less(out, u)
      /\ \/ /\ Class(u) = "orphan" /\ orphans' = orphans \cup {u} /\ results' = results
         \/ /\ orphans' = orphans /\ results' = One(results, u)
  BY Zenon DEF Forward
<1>1. /\ out' \in [Servers -> Nat] /\ \A t \in Servers \ {u} : out'[t] = out[t]
      /\ results' \in [Servers -> Nat] /\ \A t \in Servers : results[t] > 0 => results'[t] > 0
      /\ orphans' \subseteq Servers /\ orphans \subseteq orphans'
      /\ u \in orphans' \/ results'[u] > 0
  <2>1. out \in [Servers -> Nat] /\ results \in [Servers -> Nat] /\ orphans \subseteq Servers
    BY Zenon DEF MeasureShape
  <2>2. out' \in [Servers -> Nat] /\ \A t \in Servers \ {u} : out'[t] = out[t]
    BY <2>1, OneLess, Zenon
  <2>3. /\ results' \in [Servers -> Nat] /\ \A t \in Servers : results[t] > 0 => results'[t] > 0
        /\ u \in orphans' \/ results'[u] > 0
    BY <2>1, OneMore, Zenon
  <2>4. orphans' \subseteq Servers /\ orphans \subseteq orphans'
    BY <2>1, Zenon
  <2> QED
    BY <2>2, <2>3, <2>4, Zenon
<1>2. MeasureShape'
  BY <1>0, <1>1, Zenon DEF MeasureShape
<1>3. Apart'
  BY <1>0, Zenon DEF Apart
<1>4. Closing' /\ Stages'
  BY <1>0, Zenon DEF Closing, Stages
<1>5. \A t \in Servers : /\ Delivered(t) => Delivered(t)'
                         /\ Waiting(t) => Waiting(t)' \/ Delivered(t)'
                         /\ \A c \in Calls : InProbe(c, t)' = InProbe(c, t)
                         /\ \A e \in Engines : Pending(e, t)' = Pending(e, t)
  BY <1>0, <1>1, Zenon DEF Delivered, Waiting, InProbe, Pending
<1>6. req.ask \subseteq Servers /\ Of("endpoint") \subseteq Servers
  BY MeasureAssumption, Zenon DEF MeasureShape, Of
<1>7. \A t \in Of("endpoint") : Endpoint(t) => Endpoint(t)'
  BY <1>5, <1>6, Zenon DEF Endpoint, Calls
<1>8. \A t \in req.ask \ Of("endpoint") : Outbound(t) => Outbound(t)'
  BY <1>0, <1>5, <1>6, Zenon DEF Outbound, Calls
<1>9. OnTheWay'
  BY <1>0, <1>7, <1>8, WayKept, Zenon
<1> QED
  BY <1>2, <1>3, <1>4, <1>9, Zenon

(* The registry's channel is closed and empty: no engine has anything left. *)
LEMMA FallbackStep ==
    ASSUME MeasureInv, Fallback
    PROVE  MeasureInv'
<1> USE DEF MeasureInv
<1>0. /\ forward = "run" /\ outClosed /\ out = Empty
      /\ UNCHANGED <<group, batch, meas, fails, out, req, hpc, gone, orphans, results, answered>>
  BY Zenon DEF Fallback, engineVars
<1>1. probed["fallback"] = {} /\ hpc \notin {"connect", "outbounds"}
  BY <1>0, Zenon DEF Stages
<1>2. req.ask \subseteq Servers /\ Of("endpoint") \subseteq Servers
  BY MeasureAssumption, Zenon DEF MeasureShape, Of
<1>3. ASSUME NEW t \in Servers
      PROVE  /\ Delivered(t)' = Delivered(t)
             /\ \A e \in Engines : ~Pending(e, t)
             /\ Waiting(t) => t \in orphans
  BY <1>0 DEF Delivered, Waiting, Pending, outClosed, Empty
<1>4. CASE orphans # {} /\ Probe("fallback", orphans) /\ forward' = "done"
  <2>1. orphans \in SUBSET Servers /\ \A k \in Calls \ {"fallback"} : probed[k] \cap orphans = {}
    BY Zenon DEF MeasureShape, Apart, Calls
  <2>2. /\ Closing' /\ \A t \in orphans : InProbe("fallback", t)'
        /\ \A k \in Calls, t \in Servers : InProbe(k, t) => InProbe(k, t)'
    BY <1>1, <1>4, <2>1, ProbeApart, Zenon DEF Calls
  <2>3. MeasureShape' /\ Apart' /\ Stages'
    BY <1>0, <1>1, <1>4, <2>1, ProbeTakes, SMTT(30) DEF MeasureShape, Apart, Stages, Calls
  <2>4. \A t \in Of("endpoint") : Endpoint(t) => Endpoint(t)'
    BY <1>2, <1>3, <2>2, Zenon DEF Endpoint, Calls
  <2>5. \A t \in req.ask \ Of("endpoint") : Outbound(t) => Outbound(t)'
    BY <1>2, <1>3, <2>2, Zenon DEF Outbound, Calls
  <2>6. OnTheWay'
    BY <1>0, <2>4, <2>5, WayKept, Zenon
  <2> QED
    BY <2>2, <2>3, <2>6, Zenon
<1>5. CASE UNCHANGED proberVars /\ forward' \in {"done", "report"} /\ (orphans # {} => forward' = "report")
  <2>1. UNCHANGED <<call, probed, task, found, mover>>
    BY <1>5, Zenon DEF proberVars
  <2>2. MeasureShape' /\ Apart' /\ Closing' /\ Stages'
    BY <1>0, <1>1, <1>5, <2>1, Zenon DEF MeasureShape, Apart, Closing, Stages
  <2>3. \A t \in Servers : /\ \A k \in Calls : InProbe(k, t)' = InProbe(k, t)
                           /\ Waiting(t) => Waiting(t)'
    BY <1>0, <1>3, <1>5, <2>1, Zenon DEF InProbe, Waiting
  <2>4. \A t \in Of("endpoint") : Endpoint(t) => Endpoint(t)'
    BY <1>2, <1>3, <2>3, Zenon DEF Endpoint, Calls
  <2>5. \A t \in req.ask \ Of("endpoint") : Outbound(t) => Outbound(t)'
    BY <1>2, <1>3, <2>3, Zenon DEF Outbound, Calls
  <2>6. OnTheWay'
    BY <1>0, <2>4, <2>5, WayKept, Zenon
  <2> QED
    BY <2>2, <2>6, Zenon
<1> QED
  BY <1>4, <1>5, Zenon DEF Fallback

LEMMA ReportStep ==
    ASSUME MeasureInv, ReportOrphans
    PROVE  MeasureInv'
<1> USE DEF MeasureInv
<1>0. /\ forward = "report" /\ forward' \in {"report", "done"}
      /\ UNCHANGED <<call, probed, task, found, mover, group, batch, meas, fails, out, req, hpc, gone, answered>>
  BY Zenon DEF ReportOrphans, proberVars, engineVars
<1>1. /\ results' \in [Servers -> Nat] /\ \A t \in Servers : results[t] > 0 => results'[t] > 0
      /\ orphans' \subseteq orphans
      /\ \A t \in orphans : (t \in orphans' /\ forward' = "report") \/ results'[t] > 0
  BY OneMore DEF ReportOrphans, MeasureShape
<1>2. MeasureShape' /\ Apart' /\ Closing' /\ Stages'
  BY <1>0, <1>1, Zenon DEF MeasureShape, Apart, Closing, Stages
<1>3. \A t \in Servers : /\ Delivered(t) => Delivered(t)'
                         /\ Waiting(t) => Waiting(t)' \/ Delivered(t)'
                         /\ \A c \in Calls : InProbe(c, t)' = InProbe(c, t)
  BY <1>0, <1>1, Zenon DEF Delivered, Waiting, InProbe
<1>4. req.ask \subseteq Servers /\ Of("endpoint") \subseteq Servers
  BY MeasureAssumption, Zenon DEF MeasureShape, Of
<1>5. \A t \in Of("endpoint") : Endpoint(t) => Endpoint(t)'
  BY <1>3, <1>4, Zenon DEF Endpoint, Calls
<1>6. \A t \in req.ask \ Of("endpoint") : Outbound(t) => Outbound(t)'
  BY <1>0, <1>3, <1>4, Zenon DEF Outbound, Calls
<1>7. OnTheWay'
  BY <1>0, <1>5, <1>6, WayKept, Zenon
<1> QED
  BY <1>2, <1>7, Zenon

LEMMA ConnectStep ==
    ASSUME MeasureInv, Connect
    PROVE  MeasureInv'
<1> USE DEF MeasureInv
<1>0. /\ hpc = "connect" /\ hpc' \in {"outbounds", "refused"}
      /\ UNCHANGED <<group, batch, meas, fails, out, req, gone, forward, orphans, results, answered>>
  BY Zenon DEF Connect, engineVars
<1>1. probed["direct"] = {} /\ probed["fallback"] = {} /\ forward = "none"
  BY <1>0, Zenon DEF Stages
<1>2. Of("endpoint")' = Of("endpoint") /\ Of("endpoint") \subseteq Servers /\ \A s \in Of("endpoint") : Class(s) = "endpoint"
  BY <1>0, MeasureAssumption, Zenon DEF MeasureShape, Of
<1>3. CASE Probe("direct", Of("endpoint")) /\ hpc' = "outbounds"
  <2>1. Of("endpoint") \in SUBSET Servers /\ \A k \in Calls \ {"direct"} : probed[k] \cap Of("endpoint") = {}
    BY <1>1, <1>2, Zenon DEF Calls
  <2>2. Closing' /\ \A t \in Of("endpoint") : InProbe("direct", t)'
    BY <1>1, <1>3, <2>1, ProbeApart, Zenon DEF Calls
  <2>3. MeasureShape' /\ Apart' /\ Stages'
    BY <1>0, <1>1, <1>2, <1>3, <2>1, ProbeTakes DEF MeasureShape, Apart, Stages, Calls
  <2>4. OnTheWay'
    BY <1>2, <1>3, <2>2, Zenon DEF OnTheWay, Endpoint
  <2> QED
    BY <2>2, <2>3, <2>4, Zenon
<1>4. CASE UNCHANGED proberVars /\ (hpc' = "outbounds" => Of("endpoint") = {})
  <2>1. UNCHANGED <<call, probed, task, found, mover>>
    BY <1>4, Zenon DEF proberVars
  <2>2. MeasureShape' /\ Apart' /\ Closing' /\ Stages'
    BY <1>0, <1>1, <2>1 DEF MeasureShape, Apart, Closing, Stages
  <2>3. OnTheWay'
    BY <1>0, <1>2, <1>4, Zenon DEF OnTheWay
  <2> QED
    BY <2>2, <2>3, Zenon
<1> QED
  BY <1>3, <1>4, Zenon DEF Connect

LEMMA OutboundsStep ==
    ASSUME MeasureInv, OutboundsConnect \/ OutboundsMeasure \/ OutboundsRefused \/ OutboundsNone
    PROVE  MeasureInv'
<1> USE DEF MeasureInv
<1>0. hpc = "outbounds" /\ hpc' \in {"stream", "refused"} /\ UNCHANGED <<req, gone, orphans, answered>>
  BY Zenon DEF OutboundsConnect, OutboundsMeasure, OutboundsRefused, OutboundsNone
<1>1. probed["fallback"] = {} /\ forward = "none"
  BY <1>0, Zenon DEF Stages
<1>2. /\ \A class : Of(class)' = Of(class) /\ \A s \in Of(class) : Class(s) = class
      /\ req.ask \subseteq Servers /\ Of("endpoint") \subseteq Servers
      /\ \A s \in req.ask \ Of("endpoint") : Class(s) # "endpoint"
  BY <1>0, MeasureAssumption, Zenon DEF MeasureShape, Of
<1>3. CASE OutboundsConnect /\ Probe("fallback", req.ask \ Of("endpoint")) /\ hpc' = "stream"
  <2>0. UNCHANGED <<group, batch, meas, fails, out, forward, results>>
    BY <1>3, Zenon DEF OutboundsConnect, engineVars
  <2>1. /\ req.ask \ Of("endpoint") \in SUBSET Servers
        /\ \A k \in Calls \ {"fallback"} : probed[k] \cap (req.ask \ Of("endpoint")) = {}
    BY <1>2, Zenon DEF Apart, Calls
  <2>2. /\ Closing' /\ \A t \in req.ask \ Of("endpoint") : InProbe("fallback", t)'
        /\ \A k \in Calls, t \in Servers : InProbe(k, t) => InProbe(k, t)'
    BY <1>1, <1>3, <2>1, ProbeApart, Zenon DEF Calls
  <2>3. MeasureShape' /\ Apart' /\ Stages'
    <3>1. /\ found' = found
          /\ call' \in [Calls -> {"none", "run", "freed", "closed"}]
          /\ probed' \in [Calls -> SUBSET Servers]
          /\ task' \in [Servers -> {"none", "slot", "dial", "done"}]
          /\ mover' \in [Calls -> {"none", "run", "ending", "done"}]
          /\ probed'["fallback"] = req.ask \ Of("endpoint") /\ probed'["direct"] = probed["direct"]
      BY <1>3, <2>1, ProbeTakes, Zenon DEF Calls
    <3>2. MeasureShape'
      BY <1>0, <1>3, <2>0, <3>1, Zenon DEF MeasureShape
    <3>3. Apart'
      BY <1>0, <1>2, <3>1, Zenon DEF Apart
    <3>4. Stages'
      BY <1>0, <1>3, <2>0, Zenon DEF Stages
    <3> QED
      BY <3>2, <3>3, <3>4, Zenon
  <2>4. \A t \in Of("endpoint") : Endpoint(t) => Endpoint(t)'
    BY <1>0, <1>2, <2>0, <2>2, Zenon DEF Endpoint, Delivered, Calls
  <2>5. OnTheWay'
    BY <1>0, <1>2, <1>3, <2>2, <2>4, Zenon DEF OnTheWay, Outbound
  <2> QED
    BY <2>2, <2>3, <2>5, Zenon
<1>4. CASE OutboundsMeasure
  <2>0. /\ UNCHANGED <<call, probed, task, found, mover, batch, meas, fails>>
        /\ forward' = "run" /\ hpc' = "stream"
    BY <1>4, Zenon DEF OutboundsMeasure, MeasureBegins, proberVars
  <2>1. /\ group' \in [Engines -> {"start", "done"}]
        /\ \A e \in Engines : Of(e) # {} => group'[e] = "start"
    BY <1>4, Zenon DEF OutboundsMeasure, MeasureBegins
  <2>2. /\ out' \in [Servers -> Nat] /\ \A s \in Servers : s \in Of("orphan") => out'[s] > 0
    BY <1>4 DEF OutboundsMeasure, MeasureBegins
  <2>3. /\ results' \in [Servers -> Nat] /\ \A s \in Servers : results[s] > 0 => results'[s] > 0
        /\ \A s \in Servers : s \in Of("bad") => results'[s] > 0
    <3>1. \A n \in Nat : n + 1 \in Nat /\ n + 1 > 0
      OBVIOUS
    <3>2. results' = [s \in Servers |-> IF s \in Of("bad") THEN results[s] + 1 ELSE results[s]]
      BY <1>4, Zenon DEF OutboundsMeasure
    <3>3. \A s \in Servers : results[s] \in Nat
      BY Zenon DEF MeasureShape
    <3> QED
      BY <3>1, <3>2, <3>3, Zenon
  <2>4. MeasureShape' /\ Apart' /\ Closing' /\ Stages'
    <3>1. MeasureShape'
      BY <1>0, <2>0, <2>1, <2>2, <2>3, Zenon DEF MeasureShape
    <3>2. Apart' /\ Closing' /\ Stages'
      BY <1>0, <1>1, <2>0, Zenon DEF Apart, Closing, Stages
    <3> QED
      BY <3>1, <3>2, Zenon
  <2>5. \A t \in Of("endpoint") : Endpoint(t) => Endpoint(t)'
    BY <1>0, <1>2, <2>0, <2>3, Zenon DEF Endpoint, Delivered, InProbe
  <2>6. ASSUME NEW t \in req.ask \ Of("endpoint") PROVE Outbound(t)'
    <3>0. t \in Servers /\ t \in Of(Class(t)) /\ Class(t) \in {"xray", "clash", "orphan", "bad"}
      BY <1>2, MeasureAssumption, Zenon DEF Of
    <3>1. CASE Class(t) \in Engines
      <4>1. group'[Class(t)] = "start"
        BY <2>1, <3>0, <3>1, Zenon
      <4>2. meas'[t] = "none" /\ batch' = 1 /\ Batch(t) >= 1
        <5>1. \A n \in Nat \ {0} : n >= 1
          OBVIOUS
        <5> QED
          BY <1>0, <2>0, <3>0, <5>1, MeasureAssumption, Zenon DEF Stages
      <4> QED
        BY <2>0, <3>1, <4>1, <4>2, Zenon DEF Outbound, Pending
    <3>2. CASE Class(t) = "orphan"
      BY <2>0, <2>2, <3>0, <3>2, Zenon DEF Outbound, Waiting
    <3>3. CASE Class(t) = "bad"
      BY <2>3, <3>0, <3>3, Zenon DEF Outbound, Delivered
    <3> QED
      BY <3>0, <3>1, <3>2, <3>3, Zenon DEF Engines
  <2>7. OnTheWay'
    BY <1>0, <1>2, <2>0, <2>5, <2>6, Zenon DEF OnTheWay
  <2> QED
    BY <2>4, <2>7, Zenon
<1>5. CASE /\ UNCHANGED <<proberVars, engineVars, forward, results>>
           /\ hpc' = "refused" \/ req.ask = Of("endpoint")
  <2>1. UNCHANGED <<call, probed, task, found, mover, group, batch, meas, fails, out, forward, results>>
    BY <1>5, Zenon DEF proberVars, engineVars
  <2>2. MeasureShape' /\ Apart' /\ Closing' /\ Stages'
    BY <1>0, <1>1, <2>1 DEF MeasureShape, Apart, Closing, Stages
  <2>3. \A t : Endpoint(t)' = Endpoint(t)
    BY <1>0, <2>1, Zenon DEF Endpoint, Delivered, InProbe
  <2>4. OnTheWay'
    BY <1>0, <1>2, <1>5, <2>3, Zenon DEF OnTheWay
  <2> QED
    BY <2>2, <2>4, Zenon
<1> QED
  BY <1>3, <1>4, <1>5, Zenon DEF OutboundsConnect, OutboundsRefused, OutboundsNone

LEMMA StreamStep ==
    ASSUME MeasureInv, SendResult \/ StreamEnds
    PROVE  MeasureInv'
<1> USE DEF MeasureInv
<1>0. /\ hpc = "stream"
      /\ UNCHANGED <<call, probed, task, found, mover, group, batch, meas, fails, out, req, gone, forward, orphans>>
  BY Zenon DEF SendResult, StreamEnds, proberVars, engineVars
<1>1. Apart' /\ Closing' /\ req.ask \subseteq Servers /\ Of("endpoint") \subseteq Servers /\ Of("endpoint")' = Of("endpoint")
  BY <1>0, MeasureAssumption, Zenon DEF Apart, Closing, MeasureShape, Of
<1>2. CASE SendResult
  <2> PICK u \in Servers : /\ results[u] > 0 /\ results' = Less(results, u)
                           /\ \/ ~gone /\ answered' = One(answered, u) /\ hpc' = hpc
                              \/ gone /\ answered' = answered /\ hpc' = "broken"
    BY <1>2, Zenon DEF SendResult
  <2>1. /\ results' \in [Servers -> Nat] /\ \A t \in Servers \ {u} : results'[t] = results[t]
    BY OneLess DEF MeasureShape
  <2>2. /\ answered' \in [Servers -> Nat] /\ \A t \in Servers : answered[t] > 0 => answered'[t] > 0
        /\ ~gone => answered'[u] > 0
    BY OneMore, Zenon DEF MeasureShape
  <2>3. MeasureShape' /\ Stages'
    BY <1>0, <2>1, <2>2, Zenon DEF MeasureShape, Stages
  <2>4. ~gone => \A t \in Servers : Delivered(t) => Delivered(t)'
    BY <2>1, <2>2, Zenon DEF Delivered
  <2>5. \A t \in Servers : /\ Waiting(t)' = Waiting(t)
                           /\ \A c \in Calls : InProbe(c, t)' = InProbe(c, t)
                           /\ \A e \in Engines : Pending(e, t)' = Pending(e, t)
    BY <1>0, Zenon DEF Waiting, InProbe, Pending
  <2>6. ~gone => /\ \A t \in Of("endpoint") : Endpoint(t) => Endpoint(t)'
                 /\ \A t \in req.ask \ Of("endpoint") : Outbound(t) => Outbound(t)'
    BY <1>0, <1>1, <2>4, <2>5, Zenon DEF Endpoint, Outbound, Calls
  <2>7. OnTheWay'
    BY <1>0, <1>1, <2>6, Zenon DEF OnTheWay
  <2> QED
    BY <1>1, <2>3, <2>7, Zenon
<1>3. CASE StreamEnds
  <2>1. /\ resultsClosed /\ results = Empty /\ hpc' = "ended" /\ UNCHANGED <<results, answered>>
    BY <1>3, Zenon DEF StreamEnds
  <2>2. MeasureShape' /\ Stages'
    BY <1>0, <2>1, Zenon DEF MeasureShape, Stages
  <2>3. \A t \in Servers : /\ Delivered(t) => answered[t] > 0
                           /\ ~Waiting(t) /\ \A c \in Calls : ~InProbe(c, t)
    BY <2>1 DEF Delivered, Empty, Waiting, InProbe, resultsClosed
  <2>4. forward # "run"
    BY <2>1, Zenon DEF resultsClosed
  <2>5. ~gone => \A t \in req.ask : answered[t] > 0
    BY <1>0, <1>1, <2>3, <2>4, Zenon DEF OnTheWay, Endpoint, Outbound, Calls
  <2>6. OnTheWay'
    BY <1>0, <2>1, <2>5, Zenon DEF OnTheWay
  <2> QED
    BY <1>1, <2>2, <2>6, Zenon
<1> QED
  BY <1>2, <1>3, Zenon

(* A client that stays to the end of its stream has an answer for every     *)
(* server it named, for any servers, batches, failing engines and other     *)
(* requests of the prober.  (ProbeServers, measureOutbounds, Measure)       *)
THEOREM EveryServerAnswered == MeasureSpec => []AllAnswered
<1>1. MeasureInv /\ [MeasureNext]_measureVars => MeasureInv'
  <2> SUFFICES ASSUME MeasureInv, [MeasureNext]_measureVars PROVE MeasureInv'
    BY Zenon
  <2>1. CASE Goroutine
    <3>1. CASE \E s \in Servers : TaskSlot(s) \/ \E c \in Calls : TaskSend(c, s)
      BY <3>1, TaskStep, Zenon DEF Calls
    <3>2. CASE \E c \in Calls : CallEnds(c) \/ Move(c)
      BY <3>2, MoveStep, Zenon
    <3>3. CASE \/ \E s \in Servers : Timed(s)
               \/ \E e \in Engines : GroupStart(e) \/ GroupNext(e) \/ GroupFails(e)
      BY <3>3, EngineStep, Zenon
    <3>4. CASE Forward \/ Fallback \/ ReportOrphans
      BY <3>4, ForwardStep, FallbackStep, ReportStep, Zenon
    <3>5. CASE Connect \/ OutboundsConnect \/ OutboundsMeasure \/ OutboundsRefused \/ OutboundsNone
      BY <3>5, ConnectStep, OutboundsStep, Zenon
    <3>6. CASE SendResult \/ StreamEnds
      BY <3>6, StreamStep, Zenon
    <3> QED
      BY <2>1, <3>1, <3>2, <3>3, <3>4, <3>5, <3>6, Zenon DEF Goroutine
  <2>2. CASE OtherBegins \/ OtherEnds \/ ClientLeaves \/ UNCHANGED measureVars
    BY <2>2, AsideStep, Zenon
  <2> QED
    BY <2>1, <2>2, Zenon DEF MeasureNext, MeasureOver
<1>2. MeasureInv => AllAnswered
  BY Zenon DEF MeasureInv, OnTheWay, AllAnswered
<1> QED
  BY MeasureStarts, <1>1, <1>2, PTL DEF MeasureSpec

=============================================================================
