----------------------------- MODULE LogCenter ------------------------------
(***************************************************************************)
(* core/logs.Center and the handlers of core/control/logs.go: a bounded    *)
(* record in memory, and a client that reads it page by page (QueryLogs)   *)
(* or follows it (WatchLogs) and resumes after it fell behind.  A client   *)
(* does not change the record, so one of either kind is enough.            *)
(*                                                                         *)
(* c.mu is held by every call, so each is one action.  A loop over the     *)
(* entries that picks some of them is the set of their places in the       *)
(* record.  Time is reduced to whether a message comes within foldWindow   *)
(* of the last one.                                                        *)
(***************************************************************************)
EXTENDS Integers, Sequences, FiniteSets

CONSTANTS
    Messages,        \* trimmed, cut messages: [level, source, text]
    Size(_),         \* bytes an entry with this text takes
    Hide(_),         \* HideDestinations
    Filters,         \* [min : level, sources : set of sources, {} for all]
    SettingsIn,      \* settings a client may ask for
    DefaultEntries, DefaultBytes,  \* DefaultMaxEntries, DefaultMaxBytes
    WatchBuffer,     \* watchBuffer
    PageLimit,       \* the limit of one page
    MaxWrites,       \* bound: entries written
    MaxRepeat        \* bound: messages folded into one entry

ASSUME LogBounds == /\ WatchBuffer \in Nat \ {0} /\ PageLimit \in Nat \ {0}
                    /\ MaxWrites \in Nat /\ MaxRepeat \in Nat \ {0}
                    /\ DefaultEntries \in Nat \ {0}
ASSUME MessagesAssumption == \A m \in Messages : DOMAIN m = {"level", "source", "text"}
ASSUME SettingsAssumption ==
    \A s \in SettingsIn : DOMAIN s = {"level", "dest", "entries", "bytes"} /\ s.entries \in Int

VARIABLES
    entries, bytes, next, dropped, settings,  \* Center
    client,   \* what the client does: "page" or "follow"
    watch,    \* the subscription: [on, filter, replay, buf, cap, lost]
    hand,     \* the entry taken from its channel and not sent yet, or Nothing
    last,     \* the highest sequence the following client has
    got,      \* the sequences it was sent
    page      \* the paging client: [at, filter, read, since]

logVars == <<entries, bytes, next, dropped, settings, client>>
centerVars == <<entries, bytes, next, dropped, settings, client, watch, hand, last, got, page>>

CoreSources == {"core", "subscription"}

\* Settings.normalized, and the defaults of an unset field.
Normalized(s) ==
    [s EXCEPT !.level = IF @ \in 1 .. 4 THEN @ ELSE 2,
              !.entries = IF @ <= 0 THEN DefaultEntries ELSE @,
              !.bytes = IF @ <= 0 THEN DefaultBytes ELSE @]

Nothing == [seq |-> 0]

\* A channel holds what is left of the replay, by its places in the record,
\* before the live entries.
Unwatched(f) == [on |-> FALSE, filter |-> f, replay |-> << >>, buf |-> << >>, cap |-> 0, lost |-> 0]

SomeFilter == CHOOSE f \in Filters : TRUE

Waiting(w) == Cardinality(DOMAIN w.replay) + Len(w.buf)

LogTypeOK ==
    /\ \A k \in 1 .. Len(entries) :
         /\ entries[k].seq \in 1 .. MaxWrites /\ entries[k].repeat \in 1 .. MaxRepeat
         /\ entries[k].level \in 1 .. 4
    /\ bytes \in Nat /\ next \in 1 .. MaxWrites + 1 /\ dropped \in 0 .. MaxWrites
    /\ settings.level \in 1 .. 4 /\ settings.entries > 0 /\ settings.bytes > 0
    /\ watch.on \in BOOLEAN /\ Waiting(watch) <= watch.cap /\ watch.lost \in Nat
    /\ hand.seq \in 0 .. MaxWrites /\ (hand # Nothing => watch.on)
    /\ last \in 0 .. MaxWrites /\ got \subseteq 1 .. MaxWrites
    /\ page.at \in -1 .. MaxWrites /\ page.read \in Seq(SUBSET (1 .. MaxWrites))

LogInit ==
    /\ entries = << >> /\ bytes = 0 /\ next = 1 /\ dropped = 0
    /\ settings = Normalized([level |-> 2, dest |-> TRUE, entries |-> 0, bytes |-> 0])
    /\ client \in {"page", "follow"}
    /\ watch = Unwatched(SomeFilter) /\ hand = Nothing /\ last = 0 /\ got = {}
    /\ page = [at |-> -1, filter |-> SomeFilter, read |-> << >>, since |-> {}]

Match(f, e) == e.level >= f.min /\ (f.sources # {} => e.source \in f.sources)

\* What ExportLogs renders.
Matching(f) == {k \in DOMAIN entries : Match(f, entries[k])}

Seqs(places) == {entries[k].seq : k \in places}

-----------------------------------------------------------------------------
(***************************************************************************)
(* Write, SetSettings, Clear.                                              *)
(***************************************************************************)

\* The bytes of all entries.
Total(es) == Cardinality(UNION {{k} \X (1 .. Size(es[k].text)) : k \in DOMAIN es})

\* The loop of evict ends with nothing left, or with the rest in both bounds;
\* `size' is c.bytes when it begins.
Enough(es, size, s, drop) ==
    \/ drop = Len(es)
    \/ /\ Len(es) - drop <= s.entries
       /\ size - Total(SubSeq(es, 1, drop)) <= s.bytes

\* Whole entries go, oldest first.
Drop(es, size, s) ==
    CHOOSE drop \in 0 .. Len(es) :
        Enough(es, size, s, drop) /\ \A d \in 0 .. drop - 1 : ~Enough(es, size, s, d)

Evict(es, size, s) ==
    LET drop == Drop(es, size, s)
    IN /\ entries' = SubSeq(es, drop + 1, Len(es))
       /\ bytes' = size - Total(SubSeq(es, 1, drop))
       /\ dropped' = dropped + drop

\* A full channel counts a loss and never blocks the writer.
NotifySilent(e) ==
    watch' = IF ~watch.on \/ ~Match(watch.filter, e) \/ Waiting(watch) = watch.cap THEN watch
             ELSE [watch EXCEPT !.buf = Append(@, e)]
Notify(e) ==
    watch' = IF ~watch.on \/ ~Match(watch.filter, e) THEN watch
             ELSE IF Waiting(watch) < watch.cap THEN [watch EXCEPT !.buf = Append(@, e)]
             ELSE [watch EXCEPT !.lost = @ + 1]

Recorded(m) ==
    IF settings.dest \/ m.source \in CoreSources THEN m ELSE [m EXCEPT !.text = Hide(@)]

\* A message like the newest entry and within foldWindow of it raises that
\* entry's Repeat; any other takes the next sequence number.
Write(message, soon) ==
    LET m == Recorded(message)
        n == Len(entries)
        folds == /\ n > 0 /\ soon
                 /\ entries[n].source = m.source /\ entries[n].level = m.level
                 /\ entries[n].text = m.text
    IN /\ m.level >= settings.level
       /\ soon => folds
       /\ IF folds
          THEN LET e == [entries[n] EXCEPT !.repeat = @ + 1]
               IN /\ e.repeat <= MaxRepeat
                  /\ entries' = [entries EXCEPT ![n] = e]
                  /\ Notify(e)
                  /\ UNCHANGED <<bytes, next, dropped>>
          ELSE LET e == [seq |-> next, level |-> m.level, source |-> m.source, text |-> m.text,
                         repeat |-> 1]
               IN /\ next <= MaxWrites
                  /\ next' = next + 1
                  /\ Evict(Append(entries, e), bytes + Size(e.text), settings)
                  /\ Notify(e)
       /\ UNCHANGED <<settings, client, hand, last, got, page>>

SetSettings(s) ==
    /\ settings' = Normalized(s) /\ settings' # settings
    /\ Evict(entries, bytes, Normalized(s))
    /\ UNCHANGED <<next, client, watch, hand, last, got, page>>

\* Sequence numbers go on, so that cursors stay unique.
Clear ==
    /\ entries # << >>
    /\ entries' = << >> /\ bytes' = 0
    /\ UNCHANGED <<next, dropped, settings, client, watch, hand, last, got, page>>

-----------------------------------------------------------------------------
(***************************************************************************)
(* Query: pages from the newest entry to the oldest.                       *)
(***************************************************************************)

\* The places of the matching entries older than the cursor.
Older(f, before) ==
    {k \in Matching(f) : before # 0 => entries[k].seq < before}

\* The newest of them, up to a page.
Newest(places) ==
    {k \in places : Cardinality({j \in places : j > k}) < PageLimit}

Oldest(places) == CHOOSE k \in places : \A j \in places : k <= j

\* Before is the last entry of a full page, or zero when nothing older is left.
QueryOffByOne(f, before) ==
    LET all == Older(f, before)
        taken == Newest(all)
    IN [places |-> taken,
        before |-> IF taken = all THEN 0 ELSE entries[Oldest(taken)].seq - 1]
Query(f, before) ==
    LET all == Older(f, before)
        taken == Newest(all)
    IN [places |-> taken,
        before |-> IF taken = all THEN 0 ELSE entries[Oldest(taken)].seq]

\* The client asks for the first page, then for the page before the cursor.
\* `at' is the cursor, -1 when it is not reading; `read' the pages it has.
QueryLogs(f, first) ==
    /\ client = "page"
    /\ first <=> page.at = -1
    /\ first \/ f = page.filter
    /\ LET answer == Query(f, IF first THEN 0 ELSE page.at)
           at == IF answer.before = 0 THEN -1 ELSE answer.before
           seqs == Seqs(answer.places)
       IN page' = IF first
                  THEN [at |-> at, filter |-> f, read |-> <<seqs>>, since |-> Seqs(Matching(f))]
                  ELSE [page EXCEPT !.at = at, !.read = Append(@, seqs)]
    /\ UNCHANGED <<logVars, watch, hand, last, got>>

-----------------------------------------------------------------------------
(***************************************************************************)
(* Watch: replay, then follow.                                             *)
(***************************************************************************)

\* The client resumes from its last sequence with the same filter.
WatchLogs(f) ==
    /\ client = "follow" /\ ~watch.on
    /\ last > 0 => f = watch.filter
    /\ LET places == {k \in Matching(f) : entries[k].seq > last}
       IN watch' = [on |-> TRUE, filter |-> f, replay |-> [k \in places |-> entries[k]],
                    buf |-> << >>, cap |-> Cardinality(places) + WatchBuffer, lost |-> 0]
    /\ UNCHANGED <<logVars, hand, last, got, page>>

\* The handler takes the oldest entry from the channel, which makes room.
Receive ==
    /\ watch.on /\ hand = Nothing
    /\ \/ \E k \in DOMAIN watch.replay :
            /\ \A j \in DOMAIN watch.replay : k <= j
            /\ hand' = watch.replay[k]
            /\ watch' = [watch EXCEPT !.replay = [j \in DOMAIN @ \ {k} |-> @[j]]]
       \/ /\ DOMAIN watch.replay = {} /\ watch.buf # << >>
          /\ hand' = Head(watch.buf)
          /\ watch' = [watch EXCEPT !.buf = Tail(@)]
    /\ UNCHANGED <<logVars, last, got, page>>

\* It sends the entry, and ends a stream that has lost any by now.
Send ==
    /\ hand # Nothing
    /\ last' = hand.seq
    /\ got' = got \cup {hand.seq}
    /\ hand' = Nothing
    /\ watch' = IF watch.lost > 0 THEN Unwatched(watch.filter) ELSE watch
    /\ UNCHANGED <<logVars, page>>

\* The client goes away, or its transport fails.
Hangup ==
    /\ watch.on
    /\ watch' = Unwatched(watch.filter) /\ hand' = Nothing
    /\ UNCHANGED <<logVars, last, got, page>>

LogNext ==
    \/ \E m \in Messages, soon \in BOOLEAN : Write(m, soon)
    \/ \E s \in SettingsIn : SetSettings(s)
    \/ Clear
    \/ \E f \in Filters, first \in BOOLEAN : QueryLogs(f, first)
    \/ \E f \in Filters : WatchLogs(f)
    \/ Receive \/ Send \/ Hangup

\* The handler goes on, and the client resumes.
LogFairness ==
    /\ WF_centerVars(Receive) /\ WF_centerVars(Send)
    /\ WF_centerVars(\E f \in Filters : WatchLogs(f))

LogSpec == LogInit /\ [][LogNext]_centerVars /\ LogFairness

-----------------------------------------------------------------------------
(***************************************************************************)
(* Properties.                                                             *)
(***************************************************************************)

\* bytes is kept by additions in Write and subtractions in evict, is set to zero
\* by Clear, and still is the size of what is on record, within both bounds.
Accounted ==
    /\ bytes = Total(entries)
    /\ Len(entries) <= settings.entries /\ bytes <= settings.bytes

\* A client that pages through the record while it is written, trimmed and
\* cleared sees no entry twice, each page older than the last, and misses none
\* that was there when it began and is there when it has the last page.
PagesAreWhole ==
    /\ \A j, k \in DOMAIN page.read : j < k =>
          \A m \in page.read[j], n \in page.read[k] : n < m
    /\ page.at = -1 => \A k \in DOMAIN entries : entries[k].seq \in page.since =>
          \E j \in DOMAIN page.read : entries[k].seq \in page.read[j]

\* However often the client fell behind or hung up, no entry on record that
\* matches is older than one it was sent and was not sent itself.
NothingSkipped ==
    \A k \in Matching(watch.filter) : entries[k].seq <= last => entries[k].seq \in got

\* "Slow clients receive RESOURCE_EXHAUSTED": a stream that lost entries ends.
LossEndsStream == []<>~(watch.on /\ watch.lost > 0)

=============================================================================
