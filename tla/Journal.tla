------------------------------ MODULE Journal -------------------------------
(***************************************************************************)
(* The event journal of a session (core/session/journal.go) and the        *)
(* streams that replay and follow it (WatchEvents in core/control).        *)
(*                                                                         *)
(* Several goroutines append: the supervise loop and the handlers.  Append *)
(* numbers and stores the event under j.mu and sends it to the subscribers *)
(* it saw there after unlocking.  One client (app/lib/src/sora.dart) opens *)
(* streams one after the other, each from the last event it received; the  *)
(* server may still be ending the old stream while the new one begins.     *)
(* An event is its sequence number.                                        *)
(***************************************************************************)
EXTENDS Naturals, Sequences, Functions

CONSTANTS
    Appenders,  \* goroutines that append
    MaxEvents,  \* bound: events in one behaviour
    MaxFeeds,   \* bound: streams the client opens
    Capacity,   \* j.capacity (512 in production)
    Buffer      \* streamBuffer (128 in production)

ASSUME JournalAssumption ==
    {MaxEvents, MaxFeeds} \subseteq Nat /\ {Capacity, Buffer} \subseteq Nat \ {0}

Feeds == 1 .. MaxFeeds
Numbers == 1 .. MaxEvents

VARIABLES
    next,      \* j.next
    history,   \* j.history
    subs,      \* j.subs
    dropped,   \* events lost to a full queue
    pending,   \* the events of each Append not yet sent: <<feed, number>>
    chan,      \* the queue of each subscriber
    closed,    \* the queues that are closed
    panicked,  \* a send on a closed queue ended the core
    fpc,       \* where the handler of each stream is
    after,     \* the cursor of its request
    head,      \* the journal head it captured
    replay,    \* history it still has to send, in the order of the numbers
    sent,      \* what it sent, in order
    active,    \* the stream the client listens to, 0 if none
    cursor,    \* _seenSequence of the client
    received   \* events the client has seen

journalVars == <<next, history, subs, dropped, pending, chan, closed, panicked>>
feedVars == <<fpc, after, head, replay, sent>>
clientVars == <<active, cursor, received>>
jVars == <<journalVars, feedVars, clientVars>>

JournalTypeOK ==
    /\ next \in 0 .. MaxEvents /\ dropped \subseteq Feeds \X Numbers
    /\ history = [i \in 1 .. Len(history) |-> next - Len(history) + i] /\ Len(history) <= Capacity
    /\ subs \subseteq Feeds /\ closed \subseteq Feeds /\ panicked \in BOOLEAN
    /\ pending \in [Appenders -> SUBSET (Feeds \X Numbers)]
    /\ \A f \in Feeds : chan[f] \in Seq(Numbers) /\ Len(chan[f]) <= Buffer
    /\ \A f \in Feeds : replay[f] \subseteq Numbers /\ sent[f] \in Seq(Numbers)
    /\ fpc \in [Feeds -> {"new", "open", "subscribed", "headed", "live", "ended"}]
    /\ after \in [Feeds -> 0 .. MaxEvents] /\ head \in [Feeds -> 0 .. MaxEvents]
    /\ active \in 0 .. MaxFeeds /\ cursor \in 0 .. MaxEvents /\ received \subseteq Numbers

JournalInit ==
    /\ next = 0 /\ history = << >> /\ subs = {} /\ dropped = {} /\ closed = {}
    /\ pending = [a \in Appenders |-> {}] /\ panicked = FALSE
    /\ chan = [f \in Feeds |-> << >>]
    /\ fpc = [f \in Feeds |-> "new"]
    /\ after = [f \in Feeds |-> 0] /\ head = [f \in Feeds |-> 0]
    /\ replay = [f \in Feeds |-> {}] /\ sent = [f \in Feeds |-> << >>]
    /\ active = 0 /\ cursor = 0 /\ received = {}

-----------------------------------------------------------------------------
(***************************************************************************)
(* Journal.Append.                                                         *)
(***************************************************************************)

Trimmed(h) == IF Len(h) > Capacity THEN SubSeq(h, Len(h) - Capacity + 1, Len(h)) ELSE h

AppendEvent(a) ==
    /\ pending[a] = {} /\ next < MaxEvents
    /\ next' = next + 1
    /\ history' = Trimmed(Append(history, next'))
    /\ pending' = [pending EXCEPT ![a] = subs \X {next'}]
    /\ UNCHANGED <<subs, dropped, chan, closed, panicked, feedVars, clientVars>>

\* The send to one subscriber, in the order of a map: any.  It never blocks;
\* a queue that was closed meanwhile makes it panic.
Send(a) ==
    \E p \in pending[a] :
        LET f == p[1] IN
        /\ pending' = [pending EXCEPT ![a] = @ \ {p}]
        /\ panicked' = (f \in closed)
        /\ IF f \notin closed /\ Len(chan[f]) < Buffer
           THEN chan' = [chan EXCEPT ![f] = Append(@, p[2])] /\ UNCHANGED dropped
           ELSE dropped' = dropped \cup {p} /\ UNCHANGED chan
        /\ UNCHANGED <<next, history, subs, closed, feedVars, clientVars>>

-----------------------------------------------------------------------------
(***************************************************************************)
(* WatchEvents and its eventFeed.                                          *)
(***************************************************************************)

\* The client cancels the stream it has and opens the next one (_watchSession).
OpenStream(f) ==
    /\ fpc[f] = "new" /\ \A g \in Feeds : g < f => fpc[g] # "new"
    /\ fpc' = [fpc EXCEPT ![f] = "open"]
    /\ after' = [after EXCEPT ![f] = cursor]
    /\ active' = f
    /\ UNCHANGED <<journalVars, head, replay, sent, cursor, received>>

\* newEventFeed subscribes first ...
SubscribeFeed(f) ==
    /\ fpc[f] = "open"
    /\ subs' = subs \cup {f}
    /\ fpc' = [fpc EXCEPT ![f] = "subscribed"]
    /\ UNCHANGED <<next, history, dropped, pending, chan, closed, panicked,
                   after, head, replay, sent, clientVars>>

\* ... and then captures the head (Journal.Latest).
Latest(f) ==
    /\ fpc[f] = "subscribed"
    /\ head' = [head EXCEPT ![f] = next]
    /\ fpc' = [fpc EXCEPT ![f] = "headed"]
    /\ UNCHANGED <<journalVars, after, replay, sent, clientVars>>

\* eventFeed.history over Journal.Since: Append numbers the events under j.mu, so
\* the order of the history is that of the numbers.
ReplayedBelow(f, n) == after[f] < n /\ n < head[f]
Replayed(f, n) == after[f] < n /\ n <= head[f]

History(f) ==
    /\ fpc[f] = "headed"
    /\ replay' = [replay EXCEPT ![f] = {n \in Range(history) : Replayed(f, n)}]
    /\ fpc' = [fpc EXCEPT ![f] = "live"]
    /\ UNCHANGED <<journalVars, after, head, sent, clientVars>>

\* stream.Send: the client takes the events of the stream it listens to.
Transmit(f, n) ==
    /\ sent' = [sent EXCEPT ![f] = Append(@, n)]
    /\ IF active = f THEN cursor' = n /\ received' = received \cup {n}
       ELSE UNCHANGED <<cursor, received>>
    /\ UNCHANGED active

SendHistory(f) ==
    /\ fpc[f] = "live"
    /\ \E n \in replay[f] :
          /\ \A m \in replay[f] : n <= m
          /\ replay' = [replay EXCEPT ![f] = @ \ {n}]
          /\ Transmit(f, n)
    /\ UNCHANGED <<journalVars, fpc, after, head>>

UnsentAfter(f, n) == n > after[f]
Unsent(f, n) == n > head[f] /\ n > after[f]

SendLive(f) ==
    /\ fpc[f] = "live" /\ replay[f] = {} /\ chan[f] # << >>
    /\ chan' = [chan EXCEPT ![f] = Tail(@)]
    /\ IF Unsent(f, Head(chan[f])) THEN Transmit(f, Head(chan[f]))
       ELSE UNCHANGED <<sent, clientVars>>
    /\ UNCHANGED <<next, history, subs, dropped, pending, closed, panicked, fpc, after, head, replay>>

\* The stream broke: the client has none until it opens the next.
Disconnected ==
    /\ active # 0 /\ active' = 0
    /\ UNCHANGED <<journalVars, feedVars, cursor, received>>

\* The handler of a stream without a listener returns: the deferred
\* cancellation unregisters the queue and closes it.
CloseFeed(f) ==
    /\ fpc[f] \in {"subscribed", "headed", "live"} /\ active # f
    /\ subs' = subs \ {f} /\ closed' = closed \cup {f}
    /\ fpc' = [fpc EXCEPT ![f] = "ended"]
    /\ UNCHANGED <<next, history, dropped, pending, chan, panicked, after, head, replay, sent,
                   clientVars>>

JournalNext ==
    /\ ~panicked
    /\ \/ \E a \in Appenders : AppendEvent(a) \/ Send(a)
       \/ \E f \in Feeds : \/ OpenStream(f) \/ SubscribeFeed(f) \/ Latest(f) \/ History(f)
                           \/ SendHistory(f) \/ SendLive(f) \/ CloseFeed(f)
       \/ Disconnected

JournalSpec == JournalInit /\ [][JournalNext]_jVars

-----------------------------------------------------------------------------
(***************************************************************************)
(* Properties.                                                             *)
(***************************************************************************)

InFlight(f) == {p[2] : p \in {q \in UNION {pending[a] : a \in Appenders} : q[1] = f}}
Forgotten(n) == n <= next - Len(history)
Lost(f, n) == <<f, n>> \in dropped \/ (n <= head[f] /\ Forgotten(n))

\* No event falls between the replay and the live queue: what lies after the
\* cursor was sent, will be sent, or is one the bounds of the journal gave up.
EventCovered ==
    \A f \in Feeds : fpc[f] = "live" =>
        \A n \in (after[f] + 1) .. next :
            n \in Range(sent[f]) \cup replay[f] \cup Range(chan[f]) \cup InFlight(f)
                \/ Lost(f, n)

\* No event is sent twice on one stream, although one appended between the
\* subscription and the head read is in the history and in the queue.
NoRepeat == \A f \in Feeds : IsInjective(sent[f])

\* "unregisters and closes it safely" (Journal.Subscribe): ending a stream
\* never makes an Append panic.
NoPanic == ~panicked

=============================================================================
