------------------------------ MODULE SubFeed -------------------------------
(***************************************************************************)
(* The stream of subscription states (control/subscriptions.go, handler    *)
(* WatchSubscriptions): the list of all of them, then what notifyLocked    *)
(* queues.  The book's operations run under its lock, so each is one step; *)
(* registering the queue, taking the list and every send are steps of the  *)
(* handler, and operations of the book fall between them.                  *)
(*                                                                         *)
(* A record is reduced to its link and to a revision that every change of  *)
(* what a state shows raises.  Subscriptions.tla models what the book      *)
(* stores; here it is what a watcher gets to see.                          *)
(***************************************************************************)
EXTENDS Naturals, Sequences, FiniteSets

CONSTANTS
    Subs,           \* identifiers of subscriptions
    Links,          \* their links
    Absent,         \* not there yet: no record, no state, no fetch
    Deleted,        \* deleted; newSubscriptionID draws no identifier twice
    MaxRevision,    \* bound on the changes of the book
    FeedLen,        \* room in a watcher's queue (64 in watch)
    MaxStreams      \* bound on the streams a client opens

ASSUME FeedAssumption ==
    /\ MaxRevision \in Nat /\ FeedLen \in Nat \ {0} /\ MaxStreams \in Nat
    /\ Absent # Deleted /\ Absent \notin Links
    /\ {Absent, Deleted} \cap [rev : Nat, updating : BOOLEAN] = {}

VARIABLES
    book,       \* b.records: link and revision
    fetching,   \* b.updating: the link that a running refresh fetches
    revision,   \* changes so far
    handler,    \* "closed", "watch", "list", "stream"
    queue,      \* changes
    listed,     \* what list returned and is not sent yet
    view,       \* what the client has been told on this stream
    streams,    \* streams opened
    full,       \* ghost: subscriptions whose last change found the queue full
    unsaid      \* ghost: subscriptions whose refresh ended without a notice

bookVars == <<book, fetching, revision>>
watchVars == <<handler, listed, view, streams>>
ghosts == <<full, unsaid>>
subFeedVars == <<bookVars, watchVars, queue, ghosts>>

Present(b) == {s \in Subs : b[s] \notin {Absent, Deleted}}

\* stateLocked; a deleted subscription is told without one.
StateOf(b, f, s) == IF s \in Present(b) THEN [rev |-> b[s].rev, updating |-> f[s] # Absent] ELSE b[s]
Message(b, f, s) == [sub |-> s, state |-> StateOf(b, f, s)]

FeedInit ==
    /\ book = [s \in Subs |-> Absent] /\ fetching = [s \in Subs |-> Absent]
    /\ revision = 0 /\ handler = "closed" /\ queue = << >> /\ listed = {}
    /\ view = [s \in Subs |-> Absent] /\ streams = 0 /\ full = {} /\ unsaid = {}

-----------------------------------------------------------------------------
(* The book. *)

\* watch's registration.
WatchingLate == handler = "stream"
Watching == handler # "closed"

\* notifyLocked, with the state of s after the step.  A full queue drops it.
NotifyLocked(s) ==
    LET room == Len(queue) < FeedLen
    IN /\ queue' = IF Watching /\ room THEN Append(queue, Message(book', fetching', s)) ELSE queue
       /\ full' = IF Watching /\ ~room THEN full \cup {s} ELSE full \ {s}
       /\ unsaid' = unsaid \ {s}

\* The record of s is stored with another revision.
Revise(s, link) ==
    /\ revision < MaxRevision /\ revision' = revision + 1
    /\ book' = [book EXCEPT ![s] = [link |-> link, rev |-> revision']]

\* save: a new subscription, other settings or another link.  A link of another
\* subscription is refused, and a record that cannot be written changes nothing.
SaveState(s, link) ==
    /\ book[s] # Deleted
    /\ \A other \in Present(book) \ {s} : book[other].link # link
    /\ Revise(s, link) /\ UNCHANGED fetching
    /\ NotifyLocked(s) /\ UNCHANGED watchVars

\* delete: b.updating keeps its entry until the fetch is over.
DeleteState(s) ==
    /\ s \in Present(book)
    /\ book' = [book EXCEPT ![s] = Deleted] /\ UNCHANGED <<fetching, revision>>
    /\ NotifyLocked(s) /\ UNCHANGED watchVars

\* refresh up to the fetch.  One that runs already is left alone.
BeginRefresh(s) ==
    /\ s \in Present(book) /\ fetching[s] = Absent
    /\ fetching' = [fetching EXCEPT ![s] = book[s].link] /\ UNCHANGED <<book, revision>>
    /\ NotifyLocked(s) /\ UNCHANGED watchVars

\* refresh after the fetch, which succeeded or failed: both change the record.
\* A result for a record that is gone or has another link is dropped, and a
\* failure that cannot be stored returns, both without a notice.
EndRefresh(s, stored) ==
    /\ fetching[s] # Absent
    /\ fetching' = [fetching EXCEPT ![s] = Absent]
    /\ IF stored /\ s \in Present(book) /\ book[s].link = fetching[s]
         THEN Revise(s, fetching[s]) /\ NotifyLocked(s)
         ELSE unsaid' = unsaid \cup {s} /\ UNCHANGED <<book, revision, queue, full>>
    /\ UNCHANGED watchVars

-----------------------------------------------------------------------------
(* WatchSubscriptions. *)

\* watch registers a queue of its own.
OpenWatch ==
    /\ handler = "closed" /\ streams < MaxStreams
    /\ handler' = "watch" /\ streams' = streams + 1
    /\ view' = [s \in Subs |-> Absent] /\ full' = {} /\ unsaid' = {}
    /\ UNCHANGED <<bookVars, queue, listed>>

TakeList ==
    /\ handler = "watch" /\ handler' = "list"
    /\ listed' = {Message(book, fetching, s) : s \in Present(book)}
    /\ UNCHANGED <<bookVars, view, streams, queue, ghosts>>

Tell(m) == view' = [view EXCEPT ![m.sub] = m.state]

SendListed ==
    /\ handler = "list"
    /\ IF listed = {} THEN handler' = "stream" /\ UNCHANGED <<listed, view>>
       ELSE \E m \in listed : Tell(m) /\ listed' = listed \ {m} /\ UNCHANGED handler
    /\ UNCHANGED <<bookVars, streams, queue, ghosts>>

SendChange ==
    /\ handler = "stream" /\ queue # << >>
    /\ Tell(Head(queue)) /\ queue' = Tail(queue)
    /\ UNCHANGED <<bookVars, handler, listed, streams, ghosts>>

\* The client leaves or a send fails; stop forgets the queue.
CloseWatch ==
    /\ handler # "closed" /\ handler' = "closed" /\ queue' = << >> /\ listed' = {}
    /\ UNCHANGED <<bookVars, view, streams, ghosts>>

FeedNext ==
    \/ \E s \in Subs, link \in Links : SaveState(s, link)
    \/ \E s \in Subs : DeleteState(s) \/ BeginRefresh(s)
    \/ \E s \in Subs, stored \in BOOLEAN : EndRefresh(s, stored)
    \/ OpenWatch \/ TakeList \/ SendListed \/ SendChange \/ CloseWatch

FeedSpec == FeedInit /\ [][FeedNext]_subFeedVars

-----------------------------------------------------------------------------
(* Properties. *)

States == [rev : 0 .. MaxRevision, updating : BOOLEAN] \cup {Absent, Deleted}

FeedTypeOK ==
    /\ \A s \in Subs : /\ fetching[s] \in Links \cup {Absent}
                       /\ s \in Present(book) => book[s] \in [link : Links, rev : 1 .. MaxRevision]
                       /\ view[s] \in States
    /\ Len(queue) <= FeedLen
    /\ handler = "closed" => queue = << >> /\ listed = {}
    /\ handler \in {"closed", "watch", "list", "stream"} /\ streams \in 0 .. MaxStreams

\* A watcher that has read its queue sees the book: whatever happened between
\* registering, listing and sending, and whatever states the queue repeats or
\* sets back on the way.  Only a subscription whose last change met a full queue
\* may differ, and the updating mark of one whose refresh ended in silence.
ViewCurrent ==
    handler = "stream" /\ queue = << >> =>
        \A s \in Subs \ full :
            IF s \in Present(book)
              THEN /\ view[s] \notin {Absent, Deleted}
                   /\ view[s].rev = book[s].rev
                   /\ s \notin unsaid => view[s].updating = (fetching[s] # Absent)
              ELSE view[s] \in {Absent, Deleted}

\* A client that was told of a deletion is not told of that subscription again
\* on the stream, also when its fetch was still running: "Discard results if the
\* subscription was deleted" (refresh).
DeletionIsFinal ==
    [][\A s \in Subs : view[s] = Deleted /\ streams' = streams => view'[s] = Deleted]_subFeedVars

=============================================================================
