------------------------------- MODULE Measure ------------------------------
(***************************************************************************)
(* One ProbeServers request (control/server.go): endpoints are dialled by   *)
(* the prober (probe/probe.go), outbounds are timed through temporary       *)
(* engines (engine/registry, engine/xray), and an outbound no engine        *)
(* carries falls back to the prober.  Every goroutine and every channel of  *)
(* the request is modelled; the client may leave at any time, and other     *)
(* requests share the prober.                                               *)
(***************************************************************************)
EXTENDS Naturals, FiniteSets

CONSTANTS
    Servers,        \* servers a request may name
    Requests,       \* the requests: [ask : SUBSET Servers, method]
    Class(_),       \* "endpoint", "xray", "clash", "orphan" or "bad"
    Batch(_),       \* the batch of an Xray server: 1 or 2
    Concurrency,    \* sockets of the prober
    MaxRequests,    \* MaxConcurrentRequests
    MaxBusy         \* bound on the requests of others

(* An outbound has one class; Xray's batches are numbered from one.         *)
ASSUME MeasureAssumption ==
    /\ \A r \in Requests : r.ask \subseteq Servers
    /\ \A s \in Servers : Class(s) \in {"endpoint", "xray", "clash", "orphan", "bad"} /\ Batch(s) \in Nat \ {0}

VARIABLES
    req,            \* the request
    hpc,            \* the handler: "connect", "outbounds", "stream", "ended", "refused", "broken"
    gone,           \* whether the client left, which ends the context
    others, busy,   \* requests of others: running, so far
    call,           \* the two calls of Probe: "none", "run", "freed", "closed"
    probed,         \* the servers each was given
    task,           \* the goroutine of each server in it
    found,          \* the results in each call's channel
    mover,          \* the goroutine that moves them to results
    group,          \* the measuring goroutine of each engine
    batch,          \* the batch Xray measures
    meas,           \* the timing of each server
    fails,          \* servers a failed engine still has to report
    out,            \* the registry's channel: how often it holds a server
    forward,        \* the goroutine that reads it
    orphans,        \* what it keeps for the prober
    results,        \* the handler's channel
    answered        \* what the client got

measureVars ==
    <<req, hpc, gone, others, busy, call, probed, task, found, mover, group, batch, meas, fails, out, forward,
      orphans, results, answered>>

proberVars == <<others, busy, call, probed, task, found, mover>>
engineVars == <<group, batch, meas, fails, out>>
handlerVars == <<req, hpc, gone, forward, orphans, results, answered>>

Calls == {"direct", "fallback"}
Engines == {"xray", "clash"}
Of(class) == {s \in req.ask : Class(s) = class}
Empty == [s \in Servers |-> 0]
One(f, s) == [f EXCEPT ![s] = @ + 1]
Less(f, s) == [f EXCEPT ![s] = @ - 1]
Held(f) == Cardinality(UNION {{s} \X (1..f[s]) : s \in Servers})

(* The stream's context ends with the client and with the handler.          *)
Cancelled == gone \/ hpc \in {"ended", "refused", "broken"}

MeasureInit ==
    /\ req \in Requests
    /\ hpc = "connect" /\ gone = FALSE
    /\ others = 0 /\ busy = 0
    /\ call = [c \in Calls |-> "none"]
    /\ probed = [c \in Calls |-> {}]
    /\ task = [s \in Servers |-> "none"]
    /\ found = [c \in Calls |-> {}]
    /\ mover = [c \in Calls |-> "none"]
    /\ group = [e \in Engines |-> "none"]
    /\ batch = 1
    /\ meas = [s \in Servers |-> "none"]
    /\ fails = [e \in Engines |-> {}]
    /\ out = Empty
    /\ forward = "none"
    /\ orphans = {}
    /\ results = Empty
    /\ answered = Empty

-----------------------------------------------------------------------------
(* The prober.                                                              *)

Running == others + Cardinality({c \in Calls : call[c] = "run"})

(* Probe for some servers: a result channel that holds them all, and a      *)
(* goroutine for each.                                                      *)
Probe(c, set) ==
    /\ Running < MaxRequests
    /\ call' = [call EXCEPT ![c] = "run"]
    /\ probed' = [probed EXCEPT ![c] = set]
    /\ task' = [s \in Servers |-> IF s \in set THEN "slot" ELSE task[s]]
    /\ mover' = [mover EXCEPT ![c] = "run"]
    /\ UNCHANGED <<others, busy, found>>

ProbeRefused == Running >= MaxRequests

(* A goroutine waits for one of the shared sockets or the end of the        *)
(* context; measure always has a result, which only that end can drop.      *)
TaskSlot(s) ==
    /\ task[s] = "slot"
    /\ \/ /\ Cardinality({t \in Servers : task[t] = "dial"}) < Concurrency
          /\ task' = [task EXCEPT ![s] = "dial"]
       \/ /\ Cancelled
          /\ task' = [task EXCEPT ![s] = "done"]
    /\ UNCHANGED <<others, busy, call, probed, found, mover, engineVars, handlerVars>>

TaskSend(c, s) ==
    /\ task[s] = "dial" /\ s \in probed[c]
    /\ \/ found' = [found EXCEPT ![c] = @ \cup {s}]
       \/ Cancelled /\ found' = found
    /\ task' = [task EXCEPT ![s] = "done"]
    /\ UNCHANGED <<others, busy, call, probed, mover, engineVars, handlerVars>>

(* The request is given back before the channel is closed.                  *)
CallEnds(c) ==
    /\ \A s \in probed[c] : task[s] = "done"
    /\ \/ call[c] = "run" /\ call' = [call EXCEPT ![c] = "freed"] /\ mover' = mover
       \/ /\ call[c] = "freed" /\ call' = [call EXCEPT ![c] = "closed"]
          /\ mover' = [mover EXCEPT ![c] = "ending"]
    /\ UNCHANGED <<others, busy, probed, task, found, engineVars, handlerVars>>

(* Requests of other clients.                                               *)
OtherBegins ==
    /\ Running < MaxRequests /\ busy < MaxBusy
    /\ others' = others + 1 /\ busy' = busy + 1
    /\ UNCHANGED <<call, probed, task, found, mover, engineVars, handlerVars>>

OtherEnds ==
    /\ others > 0
    /\ others' = others - 1
    /\ UNCHANGED <<busy, call, probed, task, found, mover, engineVars, handlerVars>>

-----------------------------------------------------------------------------
(* The engines: Registry.Measure.                                           *)

Carried == Of("xray") \cup Of("clash") \cup Of("orphan")

outFull == Held(out) >= Cardinality(Carried)

(* The servers of each engine go to a goroutine; the others into the        *)
(* channel at once.                                                         *)
MeasureBegins ==
    /\ group' = [e \in Engines |-> IF Of(e) = {} THEN "done" ELSE "start"]
    /\ out' = [s \in Servers |-> IF s \in Of("orphan") THEN 1 ELSE 0]
    /\ UNCHANGED <<batch, meas, fails>>

InBatch(e) == {s \in Of(e) : e = "xray" => Batch(s) = batch}

(* Mutant: only the servers of the batch are reported.                      *)
GroupStartBatch(e) ==
    /\ group[e] = "start"
    /\ \/ /\ group' = [group EXCEPT ![e] = "measure"]
          /\ meas' = [s \in Servers |-> IF s \in InBatch(e) THEN "run" ELSE meas[s]]
          /\ fails' = fails
       \/ /\ group' = [group EXCEPT ![e] = "fail"]
          /\ fails' = [fails EXCEPT ![e] = InBatch(e)]
          /\ meas' = meas
    /\ UNCHANGED <<batch, out, proberVars, handlerVars>>

(* A temporary engine for all servers of a batch; one that does not come up *)
(* is reported for every server of the engine.                              *)
GroupStart(e) ==
    /\ group[e] = "start"
    /\ \/ /\ group' = [group EXCEPT ![e] = "measure"]
          /\ meas' = [s \in Servers |-> IF s \in InBatch(e) THEN "run" ELSE meas[s]]
          /\ fails' = fails
       \/ /\ group' = [group EXCEPT ![e] = "fail"]
          /\ fails' = [fails EXCEPT ![e] = Of(e)]
          /\ meas' = meas
    /\ UNCHANGED <<batch, out, proberVars, handlerVars>>

Timed(s) ==
    /\ meas[s] = "run" /\ ~outFull
    /\ meas' = [meas EXCEPT ![s] = "done"]
    /\ out' = One(out, s)
    /\ UNCHANGED <<group, batch, fails, proberVars, handlerVars>>

GroupNext(e) ==
    LET more == e = "xray" /\ \E s \in Of(e) : Batch(s) > batch
    IN  /\ group[e] = "measure" /\ \A s \in InBatch(e) : meas[s] = "done"
        /\ group' = [group EXCEPT ![e] = IF more THEN "start" ELSE "done"]
        /\ batch' = IF more THEN batch + 1 ELSE batch
        /\ UNCHANGED <<meas, fails, out, proberVars, handlerVars>>

GroupFails(e) ==
    /\ group[e] = "fail"
    /\ \/ /\ \E s \in fails[e] : ~outFull /\ out' = One(out, s) /\ fails' = [fails EXCEPT ![e] = @ \ {s}]
          /\ group' = group
       \/ /\ fails[e] = {}
          /\ group' = [group EXCEPT ![e] = "done"]
          /\ UNCHANGED <<fails, out>>
    /\ UNCHANGED <<batch, meas, proberVars, handlerVars>>

outClosed == \A e \in Engines : group[e] = "done"

-----------------------------------------------------------------------------
(* The handler: ProbeServers and measureOutbounds.                          *)

capacity == Cardinality(req.ask)

resultsFull == Held(results) >= capacity

Connect ==
    /\ hpc = "connect"
    /\ \/ Of("endpoint") = {} /\ hpc' = "outbounds" /\ UNCHANGED proberVars
       \/ Of("endpoint") # {} /\ Probe("direct", Of("endpoint")) /\ hpc' = "outbounds"
       \/ Of("endpoint") # {} /\ ProbeRefused /\ hpc' = "refused" /\ UNCHANGED proberVars
    /\ UNCHANGED <<engineVars, req, gone, forward, orphans, results, answered>>

(* All outbounds dialled instead of measured, if the client asks for it.    *)
OutboundsConnect ==
    LET set == req.ask \ Of("endpoint")
    IN  /\ hpc = "outbounds" /\ req.method = "connect" /\ set # {}
        /\ \/ Probe("fallback", set) /\ hpc' = "stream"
           \/ ProbeRefused /\ hpc' = "refused" /\ UNCHANGED proberVars
        /\ UNCHANGED <<engineVars, req, gone, forward, orphans, results, answered>>

(* A spec that is no outbound is answered at once.                          *)
OutboundsMeasure ==
    /\ hpc = "outbounds" /\ req.method # "connect" /\ req.ask # Of("endpoint")
    /\ hpc' = "stream"
    /\ results' = [s \in Servers |-> IF s \in Of("bad") THEN results[s] + 1 ELSE results[s]]
    /\ MeasureBegins
    /\ forward' = "run"
    /\ UNCHANGED <<proberVars, req, gone, orphans, answered>>

(* An engine the request names and the registry does not know.              *)
OutboundsRefused ==
    /\ hpc = "outbounds" /\ req.method # "connect" /\ req.ask # Of("endpoint")
    /\ hpc' = "refused"
    /\ UNCHANGED <<proberVars, engineVars, req, gone, forward, orphans, results, answered>>

OutboundsNone ==
    /\ hpc = "outbounds" /\ req.ask = Of("endpoint")
    /\ hpc' = "stream"
    /\ UNCHANGED <<proberVars, engineVars, req, gone, forward, orphans, results, answered>>

(* From the prober's channel to the handler's.                              *)
Move(c) ==
    /\ mover[c] \in {"run", "ending"}
    /\ \/ \E s \in found[c] : /\ ~resultsFull
                              /\ results' = One(results, s)
                              /\ found' = [found EXCEPT ![c] = @ \ {s}]
                              /\ mover' = mover
       \/ /\ mover[c] = "ending" /\ found[c] = {}
          /\ mover' = [mover EXCEPT ![c] = "done"]
          /\ UNCHANGED <<results, found>>
    /\ UNCHANGED <<others, busy, call, probed, task, engineVars, req, hpc, gone, forward, orphans, answered>>

(* From the registry's channel; orphans wait for its end.                   *)
Forward ==
    /\ forward = "run"
    /\ \E s \in Servers :
          LET later == Class(s) = "orphan" /\ req.method = "auto"
          IN  /\ out[s] > 0
              /\ ~(~later /\ resultsFull)
              /\ out' = Less(out, s)
              /\ orphans' = IF later THEN orphans \cup {s} ELSE orphans
              /\ results' = IF later THEN results ELSE One(results, s)
    /\ UNCHANGED <<group, batch, meas, fails, proberVars, req, hpc, gone, forward, answered>>

(* Then they are dialled, or reported if the prober is full.                *)
Fallback ==
    /\ forward = "run" /\ outClosed /\ out = Empty
    /\ \/ orphans = {} /\ forward' = "done" /\ UNCHANGED proberVars
       \/ orphans # {} /\ Probe("fallback", orphans) /\ forward' = "done"
       \/ orphans # {} /\ ProbeRefused /\ forward' = "report" /\ UNCHANGED proberVars
    /\ UNCHANGED <<engineVars, req, hpc, gone, orphans, results, answered>>

ReportOrphans ==
    /\ forward = "report"
    /\ \/ \E s \in orphans : ~resultsFull /\ results' = One(results, s) /\ orphans' = orphans \ {s} /\ forward' = forward
       \/ orphans = {} /\ forward' = "done" /\ UNCHANGED <<results, orphans>>
    /\ UNCHANGED <<proberVars, engineVars, req, hpc, gone, answered>>

resultsClosed ==
    /\ hpc # "connect" /\ hpc # "outbounds"
    /\ forward \in {"none", "done"}
    /\ \A c \in Calls : mover[c] \in {"none", "done"}

(* A result that cannot be sent ends the stream.                            *)
SendResult ==
    /\ hpc = "stream"
    /\ \E s \in Servers :
          /\ results[s] > 0
          /\ results' = Less(results, s)
          /\ \/ ~gone /\ answered' = One(answered, s) /\ hpc' = hpc
             \/ gone /\ answered' = answered /\ hpc' = "broken"
    /\ UNCHANGED <<proberVars, engineVars, req, gone, forward, orphans>>

StreamEnds ==
    /\ hpc = "stream" /\ resultsClosed /\ results = Empty
    /\ hpc' = "ended"
    /\ UNCHANGED <<proberVars, engineVars, req, gone, forward, orphans, results, answered>>

ClientLeaves ==
    /\ ~gone /\ hpc \in {"connect", "outbounds", "stream"}
    /\ gone' = TRUE
    /\ UNCHANGED <<proberVars, engineVars, req, hpc, forward, orphans, results, answered>>

Ended == hpc \in {"ended", "refused", "broken"}

MeasureOver == Ended /\ UNCHANGED measureVars

Goroutine ==
    \/ \E s \in Servers : TaskSlot(s) \/ Timed(s) \/ \E c \in Calls : TaskSend(c, s)
    \/ \E c \in Calls : CallEnds(c) \/ Move(c)
    \/ \E e \in Engines : GroupStart(e) \/ GroupNext(e) \/ GroupFails(e)
    \/ Forward \/ Fallback \/ ReportOrphans
    \/ Connect \/ OutboundsConnect \/ OutboundsMeasure \/ OutboundsRefused \/ OutboundsNone \/ SendResult \/ StreamEnds

MeasureNext ==
    \/ Goroutine
    \/ OtherBegins \/ OtherEnds \/ ClientLeaves
    \/ MeasureOver

(* Some goroutine that can run does: every step is one of finitely many.    *)
MeasureFairness == WF_measureVars(Goroutine)

MeasureSpec == MeasureInit /\ [][MeasureNext]_measureVars /\ MeasureFairness

-----------------------------------------------------------------------------
MeasureTypeOK ==
    /\ Held(results) <= Cardinality(req.ask)
    /\ Held(out) <= Cardinality(Carried)
    /\ Running <= MaxRequests
    /\ \A c \in Calls : found[c] \subseteq probed[c]

(* A client that stays to the end of its stream has an answer for every     *)
(* server it named, whichever engine failed and however full the prober     *)
(* was.  (ProbeServers, measureOutbounds, Measure: "Startup failures must   *)
(* produce a result for every affected server")                             *)
AllAnswered == hpc = "ended" /\ ~gone => \A s \in req.ask : answered[s] > 0

(* ... and only one, except for a server of an Xray whose later batch could *)
(* not be started.  (measureOutbounds, Probe, measureThroughController)     *)
AnsweredOnce ==
    \A s \in Servers : answered[s] + results[s] > 1 => Class(s) = "xray" /\ meas[s] = "done" /\ batch > 1

(* When the stream has ended, so have its requests to the prober: a client  *)
(* that asks again is not refused on account of itself.  (Probe: the order  *)
(* of its deferred calls)                                                   *)
FreedBeforeEnd == hpc = "ended" => \A c \in Calls : call[c] # "run"

Finished ==
    /\ \A s \in Servers : task[s] \in {"none", "done"} /\ meas[s] \in {"none", "done"}
    /\ \A c \in Calls : call[c] \in {"none", "closed"} /\ mover[c] \in {"none", "done"}
    /\ \A e \in Engines : group[e] \in {"none", "done"}
    /\ forward \in {"none", "done"}

Twice == \E s \in Servers : Class(s) = "xray" /\ meas[s] = "done" /\ group["xray"] \in {"fail", "done"} /\ fails["xray"] # {}

(* Every goroutine of a request ends, also when the client left and nobody  *)
(* reads the results, unless Xray failed after its first batch: then more   *)
(* results are sent than the channels hold.  (the capacities of results in  *)
(* ProbeServers and of out in Measure)                                      *)
GoroutinesEnd == []<>(Ended => Finished \/ Twice)
=============================================================================
