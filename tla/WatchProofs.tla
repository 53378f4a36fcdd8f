---------------------------- MODULE WatchProofs -----------------------------
(***************************************************************************)
(* What the clients of the core are told: the events of the journal        *)
(* (Journal) and the states of the subscriptions (SubFeed), for any number *)
(* of goroutines, streams, events and subscriptions and any capacity.  The *)
(* two share no state and no definitions.                                  *)
(*                                                                         *)
(* The journal.  A stream of WatchEvents sends no event twice (NoRepeat)   *)
(* and passes none over in silence (EventCovered).  The inductive          *)
(* invariant has three parts: the history is the newest events without a   *)
(* hole (Contiguous); a number is at one place on its way to a stream, and *)
(* one that is queued though it was sent is not above the captured head,   *)
(* so the stream skips it (Once); a number above the head is in the queue  *)
(* or on its way there, and one up to the head is in the replay (Covered). *)
(* The proofs see queues only through what Append, Head and Tail do to     *)
(* their elements.                                                         *)
(***************************************************************************)
EXTENDS Journal, SubFeed, TLAPS

Queued(f) == Range(chan[f])
Sent(f) == Range(sent[f])

\* The part of JournalTypeOK the proofs need, without the bounds.
Shape ==
    /\ next \in Nat /\ cursor \in Nat
    /\ DOMAIN pending = Appenders /\ \A a \in Appenders : pending[a] \subseteq Feeds \X Nat
    /\ DOMAIN chan = Feeds /\ DOMAIN sent = Feeds /\ DOMAIN replay = Feeds
    /\ DOMAIN fpc = Feeds /\ DOMAIN after = Feeds /\ DOMAIN head = Feeds
    /\ \A f \in Feeds : /\ chan[f] \in Seq(Nat) /\ sent[f] \in Seq(Nat)
                        /\ replay[f] \subseteq Nat /\ after[f] \in Nat /\ head[f] \in Nat

\* j.history holds the newest events, without a hole.
Contiguous ==
    /\ history \in Seq(Nat) /\ Len(history) <= next
    /\ \A i \in 1 .. Len(history) : history[i] = next - Len(history) + i

\* Each number is at one place on its way to a stream.
Once ==
    /\ \A f \in Feeds : IsInjective(chan[f]) /\ IsInjective(sent[f])
    /\ \A f \in Feeds, a \in Appenders : \A n \in Nat : <<f, n>> \in pending[a] =>
          /\ n <= next /\ n \notin Queued(f) /\ (n \in Sent(f) => n <= head[f])
          /\ \A b \in Appenders : <<f, n>> \in pending[b] => b = a
    /\ \A f \in Feeds : \A n \in Queued(f) : n <= next /\ (n \in Sent(f) => n <= head[f])
    /\ \A f \in Feeds : \A n \in Sent(f) : n <= next /\ n \notin replay[f]
    /\ \A f \in Feeds : head[f] <= next /\ \A n \in replay[f] : n <= head[f]
    /\ \A f \in Feeds : fpc[f] \notin {"live", "ended"} => sent[f] = << >>

\* A number above the head is in the queue or on its way to it; one below is
\* still to be replayed.
Covered ==
    \A f \in Feeds :
        /\ fpc[f] \in {"subscribed", "headed", "live"} => f \in subs
        /\ fpc[f] \in {"headed", "live"} => \A n \in Nat :
              head[f] < n /\ n <= next /\ after[f] < n =>
                 \/ n \in Queued(f) \cup Sent(f) \/ <<f, n>> \in dropped
                 \/ \E a \in Appenders : <<f, n>> \in pending[a]
        /\ fpc[f] = "live" => \A n \in Nat :
              after[f] < n /\ n <= head[f] => n \in Sent(f) \cup replay[f] \/ Forgotten(n)

-----------------------------------------------------------------------------
(***************************************************************************)
(* Queues: what Append, Head and Tail do to their elements.                *)
(***************************************************************************)

LEMMA AppendElements ==
    ASSUME NEW s \in Seq(Nat), NEW e \in Nat
    PROVE  /\ Append(s, e) \in Seq(Nat)
           /\ Range(Append(s, e)) = Range(s) \cup {e}
           /\ IsInjective(s) /\ e \notin Range(s) => IsInjective(Append(s, e))
<1>1. Append(s, e) \in Seq(Nat)
  OBVIOUS
<1>2. Range(Append(s, e)) = Range(s) \cup {e}
  <2>1. \A i \in DOMAIN s : i \in DOMAIN Append(s, e) /\ Append(s, e)[i] = s[i]
    OBVIOUS
  <2>2. Len(s) + 1 \in DOMAIN Append(s, e) /\ Append(s, e)[Len(s) + 1] = e
    OBVIOUS
  <2>3. \A i \in DOMAIN Append(s, e) : i \in DOMAIN s \/ i = Len(s) + 1
    OBVIOUS
  <2> HIDE <1>1
  <2> QED BY <2>1, <2>2, <2>3, Zenon DEF Range
<1>3. IsInjective(s) /\ e \notin Range(s) => IsInjective(Append(s, e))
  BY SMTT(30) DEF Range, IsInjective
<1> QED BY <1>1, <1>2, <1>3, Zenon

LEMMA TailElements ==
    ASSUME NEW s \in Seq(Nat), s # << >>
    PROVE  /\ Head(s) \in Nat /\ Tail(s) \in Seq(Nat)
           /\ Range(s) = Range(Tail(s)) \cup {Head(s)}
           /\ IsInjective(s) => IsInjective(Tail(s)) /\ Head(s) \notin Range(Tail(s))
<1>1. Head(s) \in Nat /\ Tail(s) \in Seq(Nat)
  OBVIOUS
<1>2. Range(s) = Range(Tail(s)) \cup {Head(s)}
  <2>1. Range(Tail(s)) \cup {Head(s)} \subseteq Range(s)
    BY DEF Range
  <2>2. ASSUME NEW i \in DOMAIN s PROVE s[i] \in Range(Tail(s)) \cup {Head(s)}
    <3>1. CASE i = 1
      BY <3>1
    <3>2. CASE i # 1
      <4>1. i - 1 \in DOMAIN Tail(s) /\ Tail(s)[i - 1] = s[i]
        BY <3>2
      <4> QED BY <4>1, Zenon DEF Range
    <3> QED BY <3>1, <3>2, Zenon
  <2> QED BY <2>1, <2>2, Zenon DEF Range
<1>3. ASSUME IsInjective(s) PROVE IsInjective(Tail(s)) /\ Head(s) \notin Range(Tail(s))
  <2>1. \A i \in DOMAIN Tail(s) : /\ i \in Nat /\ i # 0
                               /\ i + 1 \in DOMAIN s /\ Tail(s)[i] = s[i + 1]
    OBVIOUS
  <2>2. 1 \in DOMAIN s /\ Head(s) = s[1]
    OBVIOUS
  <2>3. \A i, j \in DOMAIN s : s[i] = s[j] => i = j
    BY <1>3, Zenon DEF IsInjective
  <2>4. ASSUME NEW i \in DOMAIN Tail(s), NEW j \in DOMAIN Tail(s), Tail(s)[i] = Tail(s)[j]
        PROVE  i = j
    <3>1. s[i + 1] = s[j + 1]
      BY <2>1, <2>4, Zenon
    <3>2. i + 1 = j + 1
      BY <3>1, <2>1, <2>3, Zenon
    <3>3. i \in Nat /\ j \in Nat
      BY <2>1, Zenon
    <3> QED BY <3>2, <3>3
  <2>5. ASSUME NEW i \in DOMAIN Tail(s) PROVE Head(s) # Tail(s)[i]
    <3>1. SUFFICES ASSUME s[1] = s[i + 1] PROVE FALSE
      BY <2>1, <2>2, Zenon
    <3>2. 1 = i + 1
      BY <3>1, <2>1, <2>2, <2>3, Zenon
    <3>3. i \in Nat /\ i # 0
      BY <2>1, Zenon
    <3> QED BY <3>2, <3>3
  <2>6. IsInjective(Tail(s))
    BY <2>4, Zenon DEF IsInjective
  <2> QED BY <2>5, <2>6, Zenon DEF Range
<1> QED BY <1>1, <1>2, <1>3, Zenon

\* What truncation keeps: the last k elements, in their order.
LEMMA LastElements ==
    ASSUME NEW h \in Seq(Nat), NEW k \in Nat \ {0}, Len(h) > k
    PROVE  LET kept == SubSeq(h, Len(h) - k + 1, Len(h))
           IN  /\ kept \in Seq(Nat) /\ Len(kept) = k
               /\ \A i \in 1 .. k : kept[i] = h[Len(h) - k + i]
<1> DEFINE m == Len(h) - k + 1
           kept == SubSeq(h, m, Len(h))
<1>1. m \in 1 .. Len(h) /\ Len(h) \in Nat /\ Len(h) - m + 1 = k
  OBVIOUS
<1> HIDE DEF m
<1>2. /\ kept \in Seq(Nat) /\ Len(kept) = Len(h) - m + 1
      /\ \A i \in 1 .. Len(h) - m + 1 : kept[i] = h[m + i - 1]
  BY <1>1, SMTT(30)
<1>3. \A i \in 1 .. k : m + i - 1 = Len(h) - k + i
  BY DEF m
<1> QED BY <1>1, <1>2, <1>3, Zenon DEF m

LEMMA EmptyElements ==
    << >> \in Seq(Nat) /\ Range(<< >>) = {} /\ IsInjective(<< >>)
BY DEF Range, IsInjective

LEMMA NatElements ==
    ASSUME NEW s \in Seq(Nat)
    PROVE  Range(s) \subseteq Nat
BY DEF Range

-----------------------------------------------------------------------------
(***************************************************************************)
(* The steps, one conjunct of the invariant at a time.                     *)
(***************************************************************************)

LEMMA ShapeStep ==
    ASSUME Shape, Contiguous, subs \subseteq Feeds, [JournalNext]_jVars
    PROVE  Shape'
<1>1. ASSUME NEW a \in Appenders, AppendEvent(a) PROVE Shape'
  <2>1. next' \in Nat /\ next' = next + 1
    BY <1>1 DEF AppendEvent, Shape
  <2>2. DOMAIN pending' = Appenders /\ \A b \in Appenders : pending'[b] \subseteq Feeds \X Nat
    BY <1>1, <2>1, Zenon DEF AppendEvent, Shape
  <2>3. UNCHANGED <<cursor, chan, sent, replay, fpc, after, head>>
    BY <1>1, Zenon DEF AppendEvent, feedVars, clientVars
  <2> QED BY <2>1, <2>2, <2>3, Zenon DEF Shape
<1>2. ASSUME NEW a \in Appenders, Send(a) PROVE Shape'
  <2>1. PICK p \in pending[a] :
           /\ pending' = [pending EXCEPT ![a] = @ \ {p}]
           /\ \/ chan' = [chan EXCEPT ![p[1]] = Append(@, p[2])]
              \/ UNCHANGED chan
    BY <1>2, Zenon DEF Send
  <2>2. p[1] \in Feeds /\ p[2] \in Nat
    BY Zenon DEF Shape
  <2>3. DOMAIN chan' = Feeds /\ \A f \in Feeds : chan'[f] \in Seq(Nat)
    <3>1. Append(chan[p[1]], p[2]) \in Seq(Nat)
      BY <2>2, AppendElements, Zenon DEF Shape
    <3> QED BY <2>1, <3>1, Zenon DEF Shape
  <2>4. DOMAIN pending' = Appenders /\ \A b \in Appenders : pending'[b] \subseteq Feeds \X Nat
    BY <2>1, Zenon DEF Shape
  <2>5. UNCHANGED <<next, cursor, sent, replay, fpc, after, head>>
    BY <1>2, Zenon DEF Send, feedVars, clientVars
  <2> QED BY <2>3, <2>4, <2>5, Zenon DEF Shape
<1>3. ASSUME NEW f \in Feeds, OpenStream(f) PROVE Shape'
  BY <1>3, Zenon DEF OpenStream, journalVars, Shape
<1>4. ASSUME NEW f \in Feeds, SubscribeFeed(f) PROVE Shape'
  BY <1>4, Zenon DEF SubscribeFeed, clientVars, Shape
<1>5. ASSUME NEW f \in Feeds, Latest(f) PROVE Shape'
  BY <1>5, Zenon DEF Latest, journalVars, clientVars, Shape
<1>6. ASSUME NEW f \in Feeds, History(f) PROVE Shape'
  <2>1. DOMAIN replay' = Feeds /\ \A g \in Feeds : replay'[g] \subseteq Nat
    BY <1>6, NatElements, Zenon DEF History, Shape, Contiguous
  <2>2. DOMAIN fpc' = Feeds
    BY <1>6, Zenon DEF History, Shape
  <2>3. UNCHANGED <<next, cursor, pending, chan, sent, after, head>>
    BY <1>6, Zenon DEF History, journalVars, clientVars
  <2> QED BY <2>1, <2>2, <2>3, Zenon DEF Shape
<1>7. ASSUME NEW f \in Feeds, SendHistory(f) PROVE Shape'
  <2>1. PICK n \in replay[f] : replay' = [replay EXCEPT ![f] = @ \ {n}] /\ Transmit(f, n)
    BY <1>7, Zenon DEF SendHistory
  <2>2. n \in Nat
    BY Zenon DEF Shape
  <2>3. DOMAIN sent' = Feeds /\ \A g \in Feeds : sent'[g] \in Seq(Nat)
    BY <2>1, <2>2, AppendElements, Zenon DEF Transmit, Shape
  <2>4. DOMAIN replay' = Feeds /\ \A g \in Feeds : replay'[g] \subseteq Nat
    BY <2>1, Zenon DEF Shape
  <2>5. cursor' \in Nat
    BY <2>1, <2>2, Zenon DEF Transmit, Shape
  <2>6. UNCHANGED <<next, pending, chan, fpc, after, head>>
    BY <1>7, Zenon DEF SendHistory, journalVars
  <2> QED BY <2>3, <2>4, <2>5, <2>6, Zenon DEF Shape
<1>8. ASSUME NEW f \in Feeds, SendLive(f) PROVE Shape'
  <2>1. /\ chan' = [chan EXCEPT ![f] = Tail(@)] /\ chan[f] # << >>
        /\ Transmit(f, Head(chan[f])) \/ UNCHANGED <<sent, clientVars>>
    BY <1>8, Zenon DEF SendLive
  <2>2. Head(chan[f]) \in Nat /\ Tail(chan[f]) \in Seq(Nat)
    BY <2>1, TailElements, Zenon DEF Shape
  <2>3. DOMAIN chan' = Feeds /\ \A g \in Feeds : chan'[g] \in Seq(Nat)
    BY <2>1, <2>2, Zenon DEF Shape
  <2>4. DOMAIN sent' = Feeds /\ \A g \in Feeds : sent'[g] \in Seq(Nat)
    <3>1. Append(sent[f], Head(chan[f])) \in Seq(Nat)
      BY <2>2, AppendElements, Zenon DEF Shape
    <3> QED BY <2>1, <3>1, Zenon DEF Transmit, Shape
  <2>5. cursor' \in Nat
    BY <2>1, <2>2, SMTT(30) DEF Transmit, Shape, clientVars
  <2>6. UNCHANGED <<next, pending, replay, fpc, after, head>>
    BY <1>8, Zenon DEF SendLive
  <2> QED BY <2>3, <2>4, <2>5, <2>6, Zenon DEF Shape
<1>9. ASSUME NEW f \in Feeds, CloseFeed(f) PROVE Shape'
  BY <1>9, Zenon DEF CloseFeed, clientVars, Shape
<1>10. CASE Disconnected
  BY <1>10, Zenon DEF Disconnected, journalVars, feedVars, Shape
<1>11. CASE UNCHANGED jVars
  BY <1>11, Zenon DEF jVars, journalVars, feedVars, clientVars, Shape
<1> QED
  BY <1>1, <1>2, <1>3, <1>4, <1>5, <1>6, <1>7, <1>8, <1>9, <1>10, <1>11, Zenon DEF
     JournalNext

\* Append keeps the newest events and drops the oldest.
LEMMA ContiguousStep ==
    ASSUME Contiguous, Shape, [JournalNext]_jVars
    PROVE  /\ Contiguous'
           /\ next - Len(history) <= (next - Len(history))'
<1> DEFINE Goal == Contiguous' /\ next - Len(history) <= (next - Len(history))'
<1>1. ASSUME NEW a \in Appenders, AppendEvent(a) PROVE Goal
  <2>1. next' = next + 1 /\ next \in Nat /\ history' = Trimmed(Append(history, next + 1))
    BY <1>1, Zenon DEF AppendEvent, Shape
  <2> DEFINE h == Append(history, next + 1)
  <2>2. h \in Seq(Nat) /\ Len(h) = Len(history) + 1 /\ Len(h) <= next'
    BY <2>1 DEF Contiguous
  <2>3. ASSUME NEW i \in 1 .. Len(h) PROVE h[i] = next' - Len(h) + i
    <3>1. CASE i = Len(h)
      BY <2>1, <2>2, <3>1 DEF Contiguous
    <3>2. CASE i # Len(h)
      <4>1. i \in 1 .. Len(history) /\ h[i] = history[i]
        BY <2>1, <2>2, <3>2 DEF Contiguous
      <4>2. Len(history) \in Nat /\ history[i] = next - Len(history) + i
        BY <4>1 DEF Contiguous
      <4> HIDE DEF h
      <4> QED BY <2>1, <2>2, <4>1, <4>2
    <3> QED BY <3>1, <3>2, Zenon
  <2>4. Len(history) \in Nat /\ Len(h) \in Nat /\ Capacity \in Nat \ {0}
    BY <2>2, JournalAssumption DEF Contiguous
  <2>5. CASE Len(h) > Capacity
    <3>1. history' = SubSeq(h, Len(h) - Capacity + 1, Len(h))
      BY <2>1, <2>5, Zenon DEF Trimmed
    <3> HIDE DEF h
    <3>2. /\ history' \in Seq(Nat) /\ Len(history') = Capacity
          /\ \A i \in 1 .. Capacity : history'[i] = h[Len(h) - Capacity + i]
      BY <2>2, <2>4, <2>5, <3>1, LastElements, Zenon
    <3>3. ASSUME NEW i \in 1 .. Capacity PROVE history'[i] = next' - Capacity + i
      <4>1. Len(h) - Capacity + i \in 1 .. Len(h)
        BY <2>4, <2>5
      <4>2. h[Len(h) - Capacity + i] = next' - Len(h) + (Len(h) - Capacity + i)
        BY <2>3, <4>1, Zenon
      <4>3. history'[i] = h[Len(h) - Capacity + i]
        BY <3>2, Zenon
      <4> QED BY <2>1, <2>4, <4>2, <4>3
    <3>4. \A i \in 1 .. Len(history') : history'[i] = next' - Len(history') + i
      BY <3>2, <3>3, Zenon
    <3>5. Len(history') <= next' /\ next - Len(history) <= next' - Len(history')
      <4>1. /\ next \in Nat /\ next' = next + 1 /\ Len(history) <= next
            /\ Len(h) = Len(history) + 1 /\ Len(history') = Capacity
        BY <2>1, <2>2, <3>2, Zenon DEF Contiguous, Shape
      <4> QED BY <2>4, <2>5, <4>1
    <3> QED BY <3>2, <3>4, <3>5, Zenon DEF Contiguous
  <2>6. CASE ~(Len(h) > Capacity)
    <3>1. history' = h
      BY <2>1, <2>6, Zenon DEF Trimmed
    <3> HIDE DEF h
    <3>2. \A i \in 1 .. Len(history') : history'[i] = next' - Len(history') + i
      BY <2>3, <3>1, Zenon
    <3>3. history' \in Seq(Nat) /\ Len(history') = Len(history) + 1 /\ Len(history') <= next'
      BY <2>2, <3>1, Zenon
    <3> QED BY <2>1, <2>4, <3>2, <3>3 DEF Contiguous
  <2> QED BY <2>5, <2>6, Zenon
<1>2. CASE UNCHANGED <<next, history>>
  BY <1>2 DEF Contiguous, Shape
<1>3. ASSUME ~UNCHANGED <<next, history>> PROVE \E a \in Appenders : AppendEvent(a)
  BY <1>3, Zenon DEF JournalNext, Send, OpenStream, SubscribeFeed, Latest, History, SendHistory,
     SendLive, CloseFeed, Disconnected, jVars, journalVars
<1> QED BY <1>1, <1>2, <1>3, Zenon

-----------------------------------------------------------------------------
(***************************************************************************)
(* The three steps that move a number: from an Append to a queue, from the *)
(* replay to the stream, and from the queue to the stream.                 *)
(***************************************************************************)

\* The send of one event fills the queue of its subscriber or drops it.
LEMMA SendMoves ==
    ASSUME Shape, NEW a \in Appenders, Send(a)
    PROVE  \E f \in Feeds, n \in Nat :
              /\ <<f, n>> \in pending[a]
              /\ pending' = [pending EXCEPT ![a] = @ \ {<<f, n>>}]
              /\ \A g \in Feeds : g # f => chan'[g] = chan[g]
              /\ \/ /\ Queued(f)' = Queued(f) \cup {n}
                    /\ IsInjective(chan[f]) /\ n \notin Queued(f) => IsInjective(chan'[f])
                 \/ chan'[f] = chan[f] /\ <<f, n>> \in dropped'
              /\ dropped \subseteq dropped'
              /\ UNCHANGED <<next, history, subs, fpc, after, head, replay, sent, cursor>>
<1>1. PICK p \in pending[a] :
         /\ pending' = [pending EXCEPT ![a] = @ \ {p}]
         /\ \/ chan' = [chan EXCEPT ![p[1]] = Append(@, p[2])] /\ UNCHANGED dropped
            \/ UNCHANGED chan /\ dropped' = dropped \cup {p}
  BY Zenon DEF Send
<1>2. PICK f \in Feeds, n \in Nat : p = <<f, n>>
  BY DEF Shape
<1>3. p[1] = f /\ p[2] = n
  BY <1>2, Zenon
<1>4. UNCHANGED <<next, history, subs, fpc, after, head, replay, sent, cursor>>
  BY Zenon DEF Send, feedVars, clientVars
<1>5. CASE chan' = [chan EXCEPT ![p[1]] = Append(@, p[2])] /\ UNCHANGED dropped
  <2>1. chan'[f] = Append(chan[f], n) /\ \A g \in Feeds : g # f => chan'[g] = chan[g]
    BY <1>3, <1>5, Zenon DEF Shape
  <2>2. chan[f] \in Seq(Nat)
    BY Zenon DEF Shape
  <2>3. Queued(f)' = Queued(f) \cup {n}
    BY <2>1, <2>2, AppendElements, Zenon DEF Queued
  <2>4. IsInjective(chan[f]) /\ n \notin Queued(f) => IsInjective(chan'[f])
    BY <2>1, <2>2, AppendElements, Zenon DEF Queued
  <2> QED BY <1>1, <1>2, <1>4, <1>5, <2>1, <2>3, <2>4, Zenon
<1>6. CASE UNCHANGED chan /\ dropped' = dropped \cup {p}
  BY <1>1, <1>2, <1>4, <1>6, Zenon
<1> QED BY <1>1, <1>5, <1>6, Zenon

\* The replay sends a number once.
LEMMA HistoryMoves ==
    ASSUME Shape, NEW f \in Feeds, SendHistory(f)
    PROVE  \E n \in replay[f] :
              /\ fpc[f] = "live" /\ replay' = [replay EXCEPT ![f] = @ \ {n}]
              /\ \A g \in Feeds : g # f => sent'[g] = sent[g]
              /\ Sent(f)' = Sent(f) \cup {n}
              /\ IsInjective(sent[f]) /\ n \notin Sent(f) => IsInjective(sent'[f])
              /\ UNCHANGED <<next, history, subs, dropped, pending, chan, fpc, after, head>>
<1>1. PICK n \in replay[f] : /\ replay' = [replay EXCEPT ![f] = @ \ {n}]
                             /\ sent' = [sent EXCEPT ![f] = Append(@, n)]
  BY Zenon DEF SendHistory, Transmit
<1>2. /\ fpc[f] = "live"
      /\ UNCHANGED <<next, history, subs, dropped, pending, chan, fpc, after, head>>
  BY Zenon DEF SendHistory, journalVars
<1>3. sent'[f] = Append(sent[f], n) /\ \A g \in Feeds : g # f => sent'[g] = sent[g]
  BY <1>1, Zenon DEF Shape
<1>4. sent[f] \in Seq(Nat) /\ n \in Nat
  BY Zenon DEF Shape
<1>5. Sent(f)' = Sent(f) \cup {n}
  BY <1>3, <1>4, AppendElements, Zenon DEF Sent
<1>6. IsInjective(sent[f]) /\ n \notin Sent(f) => IsInjective(sent'[f])
  BY <1>3, <1>4, AppendElements, Zenon DEF Sent
<1> QED BY <1>1, <1>2, <1>3, <1>5, <1>6, Zenon

\* The queue gives up its head, and the stream sends it unless the replay did.
LEMMA LiveMoves ==
    ASSUME Shape, Once, NEW f \in Feeds, SendLive(f)
    PROVE  \E n \in Nat :
              /\ fpc[f] = "live" /\ replay[f] = {}
              /\ Queued(f) = Queued(f)' \cup {n} /\ n \notin Queued(f)' /\ IsInjective(chan'[f])
              /\ \A g \in Feeds : g # f => chan'[g] = chan[g] /\ sent'[g] = sent[g]
              /\ \/ /\ n > head[f] /\ n > after[f] /\ Sent(f)' = Sent(f) \cup {n}
                    /\ IsInjective(sent[f]) /\ n \notin Sent(f) => IsInjective(sent'[f])
                 \/ ~(n > head[f] /\ n > after[f]) /\ sent'[f] = sent[f]
              /\ UNCHANGED <<next, history, subs, dropped, pending, fpc, after, head, replay>>
<1> DEFINE n == Head(chan[f])
<1>1. /\ chan[f] # << >> /\ chan' = [chan EXCEPT ![f] = Tail(@)]
      /\ \/ Unsent(f, n) /\ sent' = [sent EXCEPT ![f] = Append(@, n)]
         \/ ~Unsent(f, n) /\ UNCHANGED sent
  BY Zenon DEF SendLive, Transmit
<1>2. /\ fpc[f] = "live" /\ replay[f] = {}
      /\ UNCHANGED <<next, history, subs, dropped, pending, fpc, after, head, replay>>
  BY Zenon DEF SendLive
<1>3. chan[f] \in Seq(Nat) /\ sent[f] \in Seq(Nat) /\ IsInjective(chan[f])
  BY Zenon DEF Shape, Once
<1>4. chan'[f] = Tail(chan[f]) /\ \A g \in Feeds : g # f => chan'[g] = chan[g]
  BY <1>1, Zenon DEF Shape
<1>5. /\ n \in Nat /\ Queued(f) = Queued(f)' \cup {n}
      /\ n \notin Queued(f)' /\ IsInjective(chan'[f])
  <2>1. /\ n \in Nat /\ Range(chan[f]) = Range(Tail(chan[f])) \cup {n}
        /\ IsInjective(Tail(chan[f])) /\ n \notin Range(Tail(chan[f]))
    BY <1>1, <1>3, TailElements, Zenon
  <2> HIDE DEF n
  <2> QED BY <1>4, <2>1, Zenon DEF Queued
<1> HIDE DEF n
<1>6. CASE Unsent(f, n) /\ sent' = [sent EXCEPT ![f] = Append(@, n)]
  <2>1. sent'[f] = Append(sent[f], n) /\ \A g \in Feeds : g # f => sent'[g] = sent[g]
    BY <1>6, Zenon DEF Shape
  <2>2. Sent(f)' = Sent(f) \cup {n}
    BY <1>3, <1>5, <2>1, AppendElements, Zenon DEF Sent
  <2>3. IsInjective(sent[f]) /\ n \notin Sent(f) => IsInjective(sent'[f])
    BY <1>3, <1>5, <2>1, AppendElements, Zenon DEF Sent
  <2> QED BY <1>2, <1>4, <1>5, <1>6, <2>1, <2>2, <2>3, Zenon DEF Unsent
<1>7. CASE ~Unsent(f, n) /\ UNCHANGED sent
  BY <1>2, <1>4, <1>5, <1>7, Zenon DEF Unsent
<1> QED BY <1>1, <1>6, <1>7, Zenon

\* No step sends or queues a number a second time.
LEMMA OnceStep ==
    ASSUME Once, Shape, [JournalNext]_jVars
    PROVE  Once'
<1>1. ASSUME NEW a \in Appenders, AppendEvent(a) PROVE Once'
  <2>1. next \in Nat /\ next' = next + 1
    BY <1>1, Zenon DEF AppendEvent, Shape
  <2>2. UNCHANGED <<chan, fpc, after, head, replay, sent>>
    BY <1>1, Zenon DEF AppendEvent, feedVars
  <2>3. \A f \in Feeds, b \in Appenders : \A n \in Nat : <<f, n>> \in pending'[b] =>
           \/ b = a /\ n = next + 1
           \/ b # a /\ <<f, n>> \in pending[b]
    BY <1>1, <2>1, Zenon DEF AppendEvent, Shape
  <2>4. ASSUME NEW f \in Feeds
        PROVE  /\ next + 1 \notin Queued(f) /\ next + 1 \notin Sent(f)
               /\ \A b \in Appenders : <<f, next + 1>> \notin pending[b]
    BY <2>1 DEF Once
  <2>5. \A f \in Feeds, b \in Appenders : \A n \in Nat : <<f, n>> \in pending'[b] =>
           /\ n <= next' /\ n \notin Queued(f) /\ (n \in Sent(f) => n <= head[f])
           /\ \A c \in Appenders : <<f, n>> \in pending'[c] => c = b
    <3> SUFFICES ASSUME NEW f \in Feeds, NEW b \in Appenders, NEW n \in Nat,
                        <<f, n>> \in pending'[b]
                 PROVE  /\ n <= next' /\ n \notin Queued(f) /\ (n \in Sent(f) => n <= head[f])
                        /\ \A c \in Appenders : <<f, n>> \in pending'[c] => c = b
      BY Zenon
    <3>1. CASE b = a
      <4>1. n = next + 1
        BY <2>3, <3>1, Zenon
      <4>2. \A c \in Appenders : <<f, n>> \in pending'[c] => c = b
        BY <2>3, <2>4, <3>1, <4>1, Zenon
      <4>3. n <= next'
        BY <2>1, <4>1
      <4> QED BY <2>4, <4>1, <4>2, <4>3, Zenon
    <3>2. CASE b # a
      <4>1. <<f, n>> \in pending[b]
        BY <2>3, <3>2, Zenon
      <4>2. n <= next /\ n # next + 1
        BY <2>4, <4>1, Zenon DEF Once
      <4>3. \A c \in Appenders : <<f, n>> \in pending'[c] => c = b
        BY <2>3, <4>1, <4>2, Zenon DEF Once
      <4>4. n <= next'
        BY <2>1, <4>2
      <4> QED BY <4>1, <4>3, <4>4, Zenon DEF Once
    <3> QED BY <3>1, <3>2, Zenon
  <2>6. \A f \in Feeds : /\ \A n \in Queued(f) \cup Sent(f) : n <= next'
                         /\ head[f] <= next'
    <3>1. \A f \in Feeds : Queued(f) \cup Sent(f) \subseteq Nat /\ head[f] \in Nat
      BY NatElements, Zenon DEF Shape, Queued, Sent
    <3> QED BY <2>1, <3>1 DEF Once
  <2>7. \A f \in Feeds : Queued(f)' = Queued(f) /\ Sent(f)' = Sent(f)
    BY <2>2, Zenon DEF Queued, Sent
  <2> QED BY <2>2, <2>5, <2>6, <2>7, Zenon DEF Once, Queued, Sent
<1>2. ASSUME NEW a \in Appenders, Send(a) PROVE Once'
  <2>1. PICK f \in Feeds, n \in Nat :
           /\ <<f, n>> \in pending[a]
           /\ pending' = [pending EXCEPT ![a] = @ \ {<<f, n>>}]
           /\ \A g \in Feeds : g # f => chan'[g] = chan[g]
           /\ \/ /\ Queued(f)' = Queued(f) \cup {n}
                 /\ IsInjective(chan[f]) /\ n \notin Queued(f) => IsInjective(chan'[f])
              \/ chan'[f] = chan[f]
           /\ UNCHANGED <<next, fpc, head, replay, sent>>
    BY <1>2, SendMoves, Zenon
  <2>2. /\ n <= next /\ n \notin Queued(f) /\ (n \in Sent(f) => n <= head[f])
        /\ \A b \in Appenders : <<f, n>> \in pending[b] => b = a
    BY <2>1, Zenon DEF Once, Queued, Sent
  <2>3. \A g \in Feeds : Sent(g)' = Sent(g) /\ IsInjective(chan'[g])
    BY <2>1, <2>2, Zenon DEF Once, Queued, Sent
  <2>4. /\ \A g \in Feeds : g # f => Queued(g)' = Queued(g)
        /\ Queued(f)' = Queued(f) \cup {n} \/ Queued(f)' = Queued(f)
    BY <2>1, Zenon DEF Queued
  <2>5. \A g \in Feeds, b \in Appenders : \A m \in Nat : <<g, m>> \in pending'[b] =>
           <<g, m>> \in pending[b] /\ (g = f => m # n)
    BY <2>1, <2>2, Zenon DEF Shape
  <2>6. \A g \in Feeds, b \in Appenders : \A m \in Nat : <<g, m>> \in pending'[b] =>
           /\ m <= next /\ m \notin Queued(g)' /\ (m \in Sent(g) => m <= head[g])
           /\ \A c \in Appenders : <<g, m>> \in pending'[c] => c = b
    <3> SUFFICES ASSUME NEW g \in Feeds, NEW b \in Appenders, NEW m \in Nat,
                        <<g, m>> \in pending[b], g = f => m # n
                 PROVE  /\ m <= next /\ m \notin Queued(g)' /\ (m \in Sent(g) => m <= head[g])
                        /\ \A c \in Appenders : <<g, m>> \in pending[c] => c = b
      BY <2>5, ZenonT(60)
    <3>1. /\ m <= next /\ m \notin Queued(g) /\ (m \in Sent(g) => m <= head[g])
          /\ \A c \in Appenders : <<g, m>> \in pending[c] => c = b
      BY Zenon DEF Once
    <3>2. m \notin Queued(g)'
      BY <2>4, <3>1, Zenon DEF Queued
    <3> QED BY <3>1, <3>2, Zenon
  <2>7. \A g \in Feeds : \A m \in Queued(g)' : m <= next /\ (m \in Sent(g) => m <= head[g])
    BY <2>2, <2>4, ZenonT(60) DEF Once, Queued, Sent
  <2> QED BY <2>1, <2>3, <2>6, <2>7, Zenon DEF Once, Queued, Sent
<1>3. ASSUME NEW f \in Feeds, OpenStream(f) PROVE Once'
  <2>1. UNCHANGED <<next, pending, chan, head, replay, sent>>
    BY <1>3, Zenon DEF OpenStream, journalVars
  <2>2. \A g \in Feeds : fpc'[g] \notin {"live", "ended"} => fpc[g] \notin {"live", "ended"}
    BY <1>3, Zenon DEF OpenStream, Shape
  <2> QED BY <2>1, <2>2, Zenon DEF Once, Queued, Sent
<1>4. ASSUME NEW f \in Feeds, SubscribeFeed(f) PROVE Once'
  <2>1. UNCHANGED <<next, pending, chan, head, replay, sent>>
    BY <1>4, Zenon DEF SubscribeFeed
  <2>2. \A g \in Feeds : fpc'[g] \notin {"live", "ended"} => fpc[g] \notin {"live", "ended"}
    BY <1>4, Zenon DEF SubscribeFeed, Shape
  <2> QED BY <2>1, <2>2, Zenon DEF Once, Queued, Sent
<1>5. ASSUME NEW f \in Feeds, Latest(f) PROVE Once'
  <2>1. fpc[f] = "subscribed" /\ UNCHANGED <<next, pending, chan, replay, sent>>
    BY <1>5, Zenon DEF Latest, journalVars
  <2>2. \A g \in Feeds : head'[g] = IF g = f THEN next ELSE head[g]
    BY <1>5, Zenon DEF Latest, Shape
  <2>3. \A g \in Feeds : fpc'[g] \notin {"live", "ended"} => fpc[g] \notin {"live", "ended"}
    BY <1>5, Zenon DEF Latest, Shape
  <2>4. Sent(f) = {}
    BY <2>1, EmptyElements, Zenon DEF Once, Queued, Sent
  <2>5. \A m \in replay[f] : m <= next
    <3>1. next \in Nat /\ head[f] \in Nat /\ replay[f] \subseteq Nat
      BY Zenon DEF Shape
    <3>2. head[f] <= next /\ \A m \in replay[f] : m <= head[f]
      BY Zenon DEF Once, Queued, Sent
    <3> QED BY <3>1, <3>2
  <2>6. next <= next
    BY DEF Shape
  <2> QED BY <2>1, <2>2, <2>3, <2>4, <2>5, <2>6, Zenon DEF Once, Queued, Sent
<1>6. ASSUME NEW f \in Feeds, History(f) PROVE Once'
  <2>1. fpc[f] = "headed" /\ UNCHANGED <<next, pending, chan, head, sent>>
    BY <1>6, Zenon DEF History, journalVars
  <2>2. \A g \in Feeds : \A m \in replay'[g] : IF g = f THEN m <= head[f] ELSE m \in replay[g]
    BY <1>6, Zenon DEF History, Replayed, Shape
  <2>3. \A g \in Feeds : fpc'[g] \notin {"live", "ended"} => fpc[g] \notin {"live", "ended"}
    BY <1>6, Zenon DEF History, Shape
  <2>4. Sent(f) = {}
    BY <2>1, EmptyElements, Zenon DEF Once, Queued, Sent
  <2> QED BY <2>1, <2>2, <2>3, <2>4, Zenon DEF Once, Queued, Sent
<1>7. ASSUME NEW f \in Feeds, SendHistory(f) PROVE Once'
  <2>1. PICK n \in replay[f] :
           /\ fpc[f] = "live" /\ replay' = [replay EXCEPT ![f] = @ \ {n}]
           /\ \A g \in Feeds : g # f => sent'[g] = sent[g]
           /\ Sent(f)' = Sent(f) \cup {n}
           /\ IsInjective(sent[f]) /\ n \notin Sent(f) => IsInjective(sent'[f])
           /\ UNCHANGED <<next, pending, chan, fpc, head>>
    BY <1>7, HistoryMoves, Zenon
  <2>2. n \notin Sent(f) /\ n <= head[f] /\ n <= next
    <3>1. n \in Nat /\ next \in Nat /\ head[f] \in Nat
      BY Zenon DEF Shape
    <3>2. n \notin Sent(f) /\ n <= head[f] /\ head[f] <= next
      BY Zenon DEF Once, Queued, Sent
    <3> QED BY <3>1, <3>2
  <2>3. \A g \in Feeds : Queued(g)' = Queued(g) /\ IsInjective(sent'[g])
    BY <2>1, <2>2, Zenon DEF Once, Queued
  <2>4. \A g \in Feeds : g # f => Sent(g)' = Sent(g)
    BY <2>1, Zenon DEF Sent
  <2>5. \A g \in Feeds : replay'[g] \subseteq replay[g] /\ n \notin replay'[f]
    BY <2>1, Zenon DEF Shape
  <2>6. ASSUME NEW g \in Feeds, NEW m \in Sent(g)' PROVE m <= next /\ m \notin replay'[g]
    <3>1. CASE m \in Sent(g)
      BY <2>5, <3>1, Zenon DEF Once
    <3>2. CASE m \notin Sent(g)
      <4>1. g = f /\ m = n
        BY <2>1, <2>4, <3>2, Zenon DEF Sent
      <4> QED BY <2>2, <2>5, <4>1, Zenon
    <3> QED BY <3>1, <3>2, Zenon
  <2>7. \A g \in Feeds : \A m \in replay'[g] : m <= head[g]
    BY <2>5, Zenon DEF Once, Queued, Sent
  <2>8. \A g \in Feeds : fpc[g] \notin {"live", "ended"} => sent'[g] = << >>
    BY <2>1, Zenon DEF Once, Queued, Sent
  <2>9. \A g \in Feeds : \A m : m \in Sent(g)' => m \in Sent(g) \/ m <= head[g]
    BY <2>1, <2>2, <2>4, Zenon DEF Sent
  <2> QED BY <2>1, <2>3, <2>6, <2>7, <2>8, <2>9, Zenon DEF Once, Queued, Sent
<1>8. ASSUME NEW f \in Feeds, SendLive(f) PROVE Once'
  <2>1. PICK n \in Nat :
           /\ fpc[f] = "live" /\ replay[f] = {}
           /\ Queued(f) = Queued(f)' \cup {n} /\ n \notin Queued(f)' /\ IsInjective(chan'[f])
           /\ \A g \in Feeds : g # f => chan'[g] = chan[g] /\ sent'[g] = sent[g]
           /\ \/ /\ n > head[f] /\ Sent(f)' = Sent(f) \cup {n}
                 /\ IsInjective(sent[f]) /\ n \notin Sent(f) => IsInjective(sent'[f])
              \/ sent'[f] = sent[f]
           /\ UNCHANGED <<next, pending, fpc, head, replay>>
    BY <1>8, LiveMoves, Zenon
  <2>2. n \in Queued(f) /\ n <= next /\ (n > head[f] => n \notin Sent(f))
    <3>1. n \in Queued(f) /\ n <= next /\ (n \in Sent(f) => n <= head[f])
      BY <2>1, Zenon DEF Once, Queued, Sent
    <3>2. head[f] \in Nat
      BY Zenon DEF Shape
    <3> QED BY <3>1, <3>2
  <2>3. \A g \in Feeds : IsInjective(chan'[g]) /\ IsInjective(sent'[g])
    BY <2>1, <2>2, Zenon DEF Once, Queued, Sent
  <2>4. /\ \A g \in Feeds : g # f => Sent(g)' = Sent(g) /\ Queued(g)' = Queued(g)
        /\ Sent(f)' = Sent(f) \/ Sent(f)' = Sent(f) \cup {n}
    BY <2>1, Zenon DEF Sent, Queued
  <2>5. \A g \in Feeds : \A m \in Queued(g)' :
           m \in Queued(g) /\ (m \in Sent(g)' => m \in Sent(g))
    BY <2>1, <2>4, Zenon DEF Queued, Sent
  <2>6. \A g \in Feeds : \A m \in Sent(g)' : m <= next /\ m \notin replay[g]
    BY <2>1, <2>2, <2>4, Zenon DEF Once, Queued, Sent
  <2>7. \A g \in Feeds, b \in Appenders : \A m \in Nat : <<g, m>> \in pending[b] =>
           m \notin Queued(g)' /\ (m \in Sent(g)' => m \in Sent(g))
    BY <2>1, <2>2, <2>4, <2>5, Zenon DEF Once, Queued, Sent
  <2>8. \A g \in Feeds : fpc[g] \notin {"live", "ended"} => sent'[g] = << >>
    BY <2>1, Zenon DEF Once, Queued, Sent
  <2> QED BY <2>1, <2>3, <2>5, <2>6, <2>7, <2>8, Zenon DEF Once, Queued, Sent
<1>9. ASSUME NEW f \in Feeds, CloseFeed(f) PROVE Once'
  <2>1. UNCHANGED <<next, pending, chan, head, replay, sent>>
    BY <1>9, Zenon DEF CloseFeed
  <2>2. \A g \in Feeds : fpc'[g] \notin {"live", "ended"} => fpc[g] \notin {"live", "ended"}
    BY <1>9, Zenon DEF CloseFeed, Shape
  <2> QED BY <2>1, <2>2, Zenon DEF Once, Queued, Sent
<1>10. CASE Disconnected
  BY <1>10, Zenon DEF Disconnected, journalVars, feedVars, Once, Queued, Sent
<1>11. CASE UNCHANGED jVars
  BY <1>11, Zenon DEF jVars, journalVars, feedVars, clientVars, Once, Queued, Sent
<1> QED
  BY <1>1, <1>2, <1>3, <1>4, <1>5, <1>6, <1>7, <1>8, <1>9, <1>10, <1>11, Zenon DEF
     JournalNext

\* No step leaves a number behind.
LEMMA CoveredStep ==
    ASSUME Covered, Once, Contiguous, Shape, [JournalNext]_jVars
    PROVE  Covered'
<1>1. ASSUME NEW a \in Appenders, AppendEvent(a) PROVE Covered'
  <2>1. next \in Nat /\ next' = next + 1
    BY <1>1, Zenon DEF AppendEvent, Shape
  <2>2. UNCHANGED <<subs, dropped, chan, fpc, after, head, replay, sent>>
    BY <1>1, Zenon DEF AppendEvent, feedVars
  <2>3. \A g \in Feeds : Queued(g)' = Queued(g) /\ Sent(g)' = Sent(g)
    BY <2>2, Zenon DEF Queued, Sent
  <2>4. \A b \in Appenders : pending[b] \subseteq pending'[b]
    BY <1>1, Zenon DEF AppendEvent, Shape
  <2>5. \A g \in subs : <<g, next + 1>> \in pending'[a]
    BY <1>1, <2>1, Zenon DEF AppendEvent, Shape
  <2>6. ASSUME NEW g \in Feeds, fpc[g] \in {"headed", "live"}, NEW n \in Nat,
               head[g] < n, n <= next', after[g] < n
        PROVE  \/ n \in Queued(g) \cup Sent(g) \/ <<g, n>> \in dropped
               \/ \E b \in Appenders : <<g, n>> \in pending'[b]
    <3>1. CASE n = next + 1
      BY <2>5, <2>6, <3>1, Zenon DEF Covered
    <3>2. CASE n # next + 1
      <4>1. n <= next
        BY <2>1, <2>6, <3>2
      <4> QED BY <2>4, <2>6, <4>1, Zenon DEF Covered
    <3> QED BY <3>1, <3>2, Zenon
  <2>7. \A n \in Nat : Forgotten(n) => Forgotten(n)'
    <3>1. next - Len(history) <= next' - Len(history') /\ Len(history') \in Nat
      BY ContiguousStep DEF Contiguous
    <3>2. next' \in Nat /\ Len(history) \in Nat
      BY <2>1 DEF Contiguous
    <3> QED BY <2>1, <3>1, <3>2 DEF Forgotten
  <2> QED BY <2>2, <2>3, <2>6, <2>7, Zenon DEF Covered, Queued, Sent
<1>2. ASSUME NEW a \in Appenders, Send(a) PROVE Covered'
  <2>1. PICK f \in Feeds, n \in Nat :
           /\ <<f, n>> \in pending[a]
           /\ pending' = [pending EXCEPT ![a] = @ \ {<<f, n>>}]
           /\ \A g \in Feeds : g # f => chan'[g] = chan[g]
           /\ \/ Queued(f)' = Queued(f) \cup {n}
              \/ chan'[f] = chan[f] /\ <<f, n>> \in dropped'
           /\ dropped \subseteq dropped'
           /\ UNCHANGED <<next, history, subs, fpc, after, head, replay, sent>>
    BY <1>2, SendMoves, Zenon
  <2>2. \A g \in Feeds : Queued(g) \subseteq Queued(g)' /\ Sent(g)' = Sent(g)
    BY <2>1, Zenon DEF Queued, Sent
  <2>3. \A b \in Appenders : pending[b] \subseteq pending'[b] \cup {<<f, n>>}
    BY <2>1, Zenon DEF Shape
  <2>4. n \in Queued(f)' \/ <<f, n>> \in dropped'
    BY <2>1, Zenon
  <2>5. ASSUME NEW g \in Feeds, fpc[g] \in {"headed", "live"}, NEW m \in Nat,
               head[g] < m, m <= next, after[g] < m
        PROVE  \/ m \in Queued(g)' \cup Sent(g) \/ <<g, m>> \in dropped'
               \/ \E b \in Appenders : <<g, m>> \in pending'[b]
    <3>1. CASE \E b \in Appenders : <<g, m>> \in pending[b]
      <4>1. CASE <<g, m>> = <<f, n>>
        <5>1. g = f /\ m = n
          BY <4>1, Zenon
        <5> QED BY <2>4, <5>1, Zenon DEF Queued
      <4> QED BY <2>3, <3>1, <4>1, Zenon
    <3>2. CASE ~\E b \in Appenders : <<g, m>> \in pending[b]
      <4>1. m \in Queued(g) \cup Sent(g) \/ <<g, m>> \in dropped
        BY <2>5, <3>2, Zenon DEF Covered
      <4> QED BY <2>1, <2>2, <4>1, Zenon
    <3> QED BY <3>1, <3>2, Zenon
  <2> QED BY <2>1, <2>2, <2>5, Zenon DEF Covered, Queued, Sent, Forgotten
<1>3. ASSUME NEW f \in Feeds, OpenStream(f) PROVE Covered'
  <2>1. UNCHANGED <<next, history, dropped, pending, chan, head, replay, sent>>
    BY <1>3, Zenon DEF OpenStream, journalVars
  <2>2. \A g \in Feeds : /\ fpc'[g] = "subscribed" => g \in subs'
                         /\ fpc'[g] \in {"headed", "live"} => /\ fpc'[g] = fpc[g] /\ g \in subs'
                                                             /\ after'[g] = after[g]
    BY <1>3, Zenon DEF OpenStream, Shape, Covered, journalVars
  <2> QED BY <2>1, <2>2, Zenon DEF Covered, Queued, Sent, Forgotten
<1>4. ASSUME NEW f \in Feeds, SubscribeFeed(f) PROVE Covered'
  <2>1. UNCHANGED <<next, history, dropped, pending, chan, head, replay, sent>>
    BY <1>4, Zenon DEF SubscribeFeed
  <2>2. \A g \in Feeds : /\ fpc'[g] = "subscribed" => g \in subs'
                         /\ fpc'[g] \in {"headed", "live"} => /\ fpc'[g] = fpc[g] /\ g \in subs'
                                                             /\ after'[g] = after[g]
    BY <1>4, Zenon DEF SubscribeFeed, Shape, Covered
  <2> QED BY <2>1, <2>2, Zenon DEF Covered, Queued, Sent, Forgotten
<1>5. ASSUME NEW f \in Feeds, Latest(f) PROVE Covered'
  <2>1. UNCHANGED <<next, history, subs, dropped, pending, chan, after, replay, sent>>
    BY <1>5, Zenon DEF Latest, journalVars
  <2>2. /\ fpc[f] = "subscribed" /\ fpc'[f] = "headed" /\ head'[f] = next
        /\ \A g \in Feeds : g # f => fpc'[g] = fpc[g] /\ head'[g] = head[g]
    BY <1>5, Zenon DEF Latest, Shape
  <2>3. \A n \in Nat : ~(next < n /\ n <= next)
    BY DEF Shape
  <2> QED BY <2>1, <2>2, <2>3, Zenon DEF Covered, Queued, Sent, Forgotten
<1>6. ASSUME NEW f \in Feeds, History(f) PROVE Covered'
  <2>1. UNCHANGED <<next, history, subs, dropped, pending, chan, after, head, sent>>
    BY <1>6, Zenon DEF History, journalVars
  <2>2. /\ fpc[f] = "headed" /\ fpc'[f] = "live"
        /\ replay'[f] = {n \in Range(history) : Replayed(f, n)}
        /\ \A g \in Feeds : g # f => fpc'[g] = fpc[g] /\ replay'[g] = replay[g]
    BY <1>6, Zenon DEF History, Shape
  <2>3. ASSUME NEW n \in Nat, after[f] < n, n <= head[f], ~Forgotten(n)
        PROVE  n \in replay'[f]
    <3>1. head[f] <= next /\ head[f] \in Nat /\ next \in Nat /\ Len(history) \in Nat
      <4>1. Len(history) \in Nat
        BY DEF Contiguous
      <4> QED BY <4>1, Zenon DEF Once, Shape
    <3> DEFINE i == n - (next - Len(history))
    <3>2. i \in 1 .. Len(history) /\ next - Len(history) + i = n
      BY <2>3, <3>1 DEF Forgotten
    <3> HIDE DEF i
    <3>3. history[i] = n /\ i \in DOMAIN history
      BY <3>2 DEF Contiguous
    <3>4. n \in Range(history)
      BY <3>3, Zenon DEF Range
    <3> QED BY <2>2, <2>3, <3>4, Zenon DEF Replayed
  <2> QED BY <2>1, <2>2, <2>3, Zenon DEF Covered, Queued, Sent, Forgotten
<1>7. ASSUME NEW f \in Feeds, SendHistory(f) PROVE Covered'
  <2>1. PICK n \in replay[f] :
           /\ replay' = [replay EXCEPT ![f] = @ \ {n}]
           /\ \A g \in Feeds : g # f => sent'[g] = sent[g]
           /\ Sent(f)' = Sent(f) \cup {n}
           /\ UNCHANGED <<next, history, subs, dropped, pending, chan, fpc, after, head>>
    BY <1>7, HistoryMoves, Zenon
  <2>2. \A g \in Feeds : Queued(g)' = Queued(g) /\ Sent(g) \subseteq Sent(g)'
    BY <2>1, Zenon DEF Queued, Sent
  <2>3. \A g \in Feeds : replay[g] \subseteq replay'[g] \cup Sent(g)'
    <3>1. replay'[f] = replay[f] \ {n} /\ \A g \in Feeds : g # f => replay'[g] = replay[g]
      BY <2>1, Zenon DEF Shape
    <3> QED BY <2>1, <3>1, Zenon DEF Sent
  <2> QED BY <2>1, <2>2, <2>3, Zenon DEF Covered, Queued, Sent, Forgotten
<1>8. ASSUME NEW f \in Feeds, SendLive(f) PROVE Covered'
  <2>1. PICK n \in Nat :
           /\ Queued(f) = Queued(f)' \cup {n}
           /\ \A g \in Feeds : g # f => chan'[g] = chan[g] /\ sent'[g] = sent[g]
           /\ \/ Sent(f)' = Sent(f) \cup {n}
              \/ ~(n > head[f] /\ n > after[f]) /\ sent'[f] = sent[f]
           /\ UNCHANGED <<next, history, subs, dropped, pending, fpc, after, head, replay>>
    BY <1>8, LiveMoves, Zenon
  <2>2. \A g \in Feeds : Sent(g) \subseteq Sent(g)'
    BY <2>1, Zenon DEF Sent
  <2>3. ASSUME NEW g \in Feeds, NEW m \in Nat, head[g] < m, after[g] < m,
               m \in Queued(g) \cup Sent(g)
        PROVE  m \in Queued(g)' \cup Sent(g)'
    <3>1. CASE g = f /\ m = n
      <4>1. head[g] \in Nat /\ after[g] \in Nat
        BY Zenon DEF Shape
      <4>2. n > head[f] /\ n > after[f]
        BY <2>3, <3>1, <4>1, Zenon
      <4> QED BY <2>1, <3>1, <4>2, Zenon DEF Sent
    <3>2. CASE g = f /\ m # n
      BY <2>1, <2>2, <2>3, <3>2, Zenon DEF Queued, Sent
    <3>3. CASE g # f
      BY <2>1, <2>3, <3>3, Zenon DEF Queued, Sent
    <3> QED BY <3>1, <3>2, <3>3, Zenon
  <2> QED BY <2>1, <2>2, <2>3, Zenon DEF Covered, Queued, Sent, Forgotten
<1>9. ASSUME NEW f \in Feeds, CloseFeed(f) PROVE Covered'
  <2>1. UNCHANGED <<next, history, dropped, pending, chan, head, replay, sent>>
    BY <1>9, Zenon DEF CloseFeed
  <2>2. \A g \in Feeds : /\ fpc'[g] = "subscribed" => g \in subs'
                         /\ fpc'[g] \in {"headed", "live"} => /\ fpc'[g] = fpc[g] /\ g \in subs'
                                                             /\ after'[g] = after[g]
    BY <1>9, Zenon DEF CloseFeed, Shape, Covered
  <2> QED BY <2>1, <2>2, Zenon DEF Covered, Queued, Sent, Forgotten
<1>10. CASE Disconnected
  BY <1>10, Zenon DEF Disconnected, journalVars, feedVars, Covered, Queued, Sent,
     Forgotten
<1>11. CASE UNCHANGED jVars
  BY <1>11, Zenon DEF jVars, journalVars, feedVars, clientVars, Covered, Queued, Sent,
     Forgotten
<1> QED
  BY <1>1, <1>2, <1>3, <1>4, <1>5, <1>6, <1>7, <1>8, <1>9, <1>10, <1>11, Zenon DEF
     JournalNext

\* The streams are some of Feeds.
LEMMA SubsStep ==
    ASSUME subs \subseteq Feeds, [JournalNext]_jVars
    PROVE  (subs \subseteq Feeds)'
BY Zenon DEF JournalNext, AppendEvent, Send, OpenStream, SubscribeFeed, Latest, History,
   SendHistory, SendLive, CloseFeed, Disconnected, jVars, journalVars

JournalInv == Shape /\ Contiguous /\ Once /\ Covered /\ subs \subseteq Feeds

LEMMA JournalStarts == JournalInit => JournalInv
<1> SUFFICES ASSUME JournalInit PROVE JournalInv
  BY Zenon
<1>1. Shape
  BY EmptyElements, Zenon DEF JournalInit, Shape
<1>2. Contiguous
  BY EmptyElements DEF JournalInit, Contiguous
<1>3. \A f \in Feeds : /\ chan[f] = << >> /\ sent[f] = << >> /\ replay[f] = {}
                       /\ head[f] = 0 /\ next = 0 /\ fpc[f] = "new"
  BY Zenon DEF JournalInit
<1>4. \A f \in Feeds : /\ Queued(f) = {} /\ IsInjective(chan[f])
                       /\ Sent(f) = {} /\ IsInjective(sent[f])
  BY <1>3, EmptyElements, Zenon DEF Queued, Sent
<1>5. \A a \in Appenders : pending[a] = {}
  BY Zenon DEF JournalInit
<1>6. \A f \in Feeds : head[f] <= next
  BY <1>3
<1>7. Once
  BY <1>3, <1>4, <1>5, <1>6, Zenon DEF Once
<1>8. Covered
  BY <1>3, Zenon DEF Covered
<1> QED BY <1>1, <1>2, <1>7, <1>8, Zenon DEF JournalInv, JournalInit

LEMMA JournalInductive == JournalInv /\ [JournalNext]_jVars => JournalInv'
BY ShapeStep, ContiguousStep, OnceStep, CoveredStep, SubsStep, Zenon DEF JournalInv

-----------------------------------------------------------------------------
(***************************************************************************)
(* What a stream of WatchEvents may rely on.                               *)
(***************************************************************************)

\* No stream sends an event twice: the events Append puts in its queue while the
\* handler reads the head of the journal are the ones the replay leaves out.
THEOREM SentOnce == JournalSpec => []NoRepeat
<1>1. JournalInv => NoRepeat
  BY Zenon DEF JournalInv, Once, IsInjective, NoRepeat
<1> QED BY <1>1, JournalStarts, JournalInductive, PTL DEF JournalSpec

\* An event after the cursor of a live stream was sent, waits in its replay, its
\* queue or an Append that has not finished, or was given up by a full queue or
\* by the capacity of the journal: none falls between the replay and the queue.
THEOREM NothingBetween == JournalSpec => []EventCovered
<1>1. JournalInv => EventCovered
  <2> SUFFICES ASSUME JournalInv, NEW f \in Feeds, fpc[f] = "live",
                      NEW n \in (after[f] + 1) .. next
               PROVE  n \in Range(sent[f]) \cup replay[f] \cup Range(chan[f]) \cup InFlight(f)
                          \/ Lost(f, n)
    BY Zenon DEF EventCovered
  <2>1. after[f] \in Nat /\ head[f] \in Nat /\ next \in Nat
    BY Zenon DEF JournalInv, Shape
  <2>2. n \in Nat /\ after[f] < n /\ n <= next /\ (head[f] < n \/ n <= head[f])
    BY <2>1
  <2>3. CASE head[f] < n
    <3>1. \/ n \in Queued(f) \cup Sent(f) \/ <<f, n>> \in dropped
          \/ \E a \in Appenders : <<f, n>> \in pending[a]
      BY <2>2, <2>3, Zenon DEF JournalInv, Covered
    <3>2. ASSUME NEW a \in Appenders, <<f, n>> \in pending[a] PROVE n \in InFlight(f)
      <4>1. <<f, n>> \in {q \in UNION {pending[b] : b \in Appenders} : q[1] = f}
        BY <3>2, Zenon
      <4>2. <<f, n>>[2] = n
        BY Zenon
      <4> QED BY <4>1, <4>2, Zenon DEF InFlight
    <3> QED BY <3>1, <3>2, Zenon DEF Queued, Sent, Lost
  <2>4. CASE n <= head[f]
    BY <2>2, <2>4, Zenon DEF JournalInv, Covered, Sent, Lost
  <2> QED BY <2>2, <2>3, <2>4, Zenon
<1> QED BY <1>1, JournalStarts, JournalInductive, PTL DEF JournalSpec

-----------------------------------------------------------------------------
(***************************************************************************)
(* The feed of subscription states.  ViewCurrent speaks of an empty queue; *)
(* the invariant says where the truth about a subscription is until then:  *)
(* in the last change queued about it (Settled), or, with none queued, in  *)
(* what the list still has to send about it or the client was told last    *)
(* (Shown).                                                                *)
(***************************************************************************)

Told == [rev : Nat, updating : BOOLEAN] \cup {Absent, Deleted}
Messages == [sub : Subs, state : Told]

\* st is the state of s in a book, but for the mark of a refresh that ended in
\* silence.
Shows(b, f, quiet, s, st) ==
    IF s \in Present(b)
    THEN /\ st \notin {Absent, Deleted} /\ st.rev = b[s].rev
         /\ s \notin quiet => st.updating = (f[s] # Absent)
    ELSE st \in {Absent, Deleted}

Current(s, st) == Shows(book, fetching, unsaid, s, st)
Said(s) == \E i \in DOMAIN queue : queue[i].sub = s
Settled(s) ==
    \E i \in DOMAIN queue :
        /\ queue[i].sub = s /\ Current(s, queue[i].state)
        /\ \A j \in DOMAIN queue : j > i => queue[j].sub # s
Shown(s) ==
    IF \E m \in listed : m.sub = s THEN \A m \in listed : m.sub = s => Current(s, m.state)
    ELSE Current(s, view[s])

FeedShape ==
    /\ DOMAIN book = Subs /\ DOMAIN fetching = Subs /\ DOMAIN view = Subs /\ revision \in Nat
    /\ \A s \in Present(book) : book[s].rev \in Nat
    /\ queue \in Seq(Messages) /\ listed \subseteq Messages
    /\ handler = "closed" => queue = << >>
    /\ handler = "watch" => \A s \in Subs : view[s] = Absent
    /\ handler = "stream" => listed = {}
    /\ handler \in {"closed", "watch", "list", "stream"}

Tracks ==
    handler # "closed" => \A s \in Subs \ full :
        Settled(s) \/ (~Said(s) /\ (handler # "watch" => Shown(s)))

\* A message says the state of its subscription.
LEMMA MessageShows ==
    ASSUME NEW s \in Subs, NEW b, NEW f, NEW quiet, s \in Present(b) => b[s].rev \in Nat
    PROVE  /\ Message(b, f, s) \in Messages /\ Message(b, f, s).sub = s
           /\ Shows(b, f, quiet, s, Message(b, f, s).state)
<1> DEFINE st == StateOf(b, f, s)
<1>1. CASE s \in Present(b)
  <2>1. st = [rev |-> b[s].rev, updating |-> f[s] # Absent]
    BY <1>1, Zenon DEF StateOf
  <2>2. st \in [rev : Nat, updating : BOOLEAN]
    BY <1>1, <2>1
  <2>3. st \notin {Absent, Deleted}
    BY <2>2, FeedAssumption, Zenon
  <2>4. st.rev = b[s].rev /\ st.updating = (f[s] # Absent)
    BY <2>1
  <2> HIDE DEF st
  <2>5. st \in Told /\ Shows(b, f, quiet, s, st)
    BY <1>1, <2>2, <2>3, <2>4, Zenon DEF Told, Shows
  <2>6. Message(b, f, s) = [sub |-> s, state |-> st]
    BY Zenon DEF Message, st
  <2> QED BY <2>5, <2>6 DEF Messages
<1>2. CASE s \notin Present(b)
  <2>1. st = b[s] /\ b[s] \in {Absent, Deleted}
    BY <1>2, Zenon DEF StateOf, Present
  <2> HIDE DEF st
  <2>2. st \in Told /\ Shows(b, f, quiet, s, st)
    BY <1>2, <2>1, Zenon DEF Told, Shows
  <2>3. Message(b, f, s) = [sub |-> s, state |-> st]
    BY Zenon DEF Message, st
  <2> QED BY <2>2, <2>3 DEF Messages
<1> QED BY <1>1, <1>2, Zenon

\* A step of the book about s that notifies: what is true of the others stays true,
\* and the new change is the last about s unless the queue was full.
LEMMA NotifyTracks ==
    ASSUME FeedShape, Tracks, NEW s \in Subs, NotifyLocked(s), UNCHANGED watchVars,
           s \in Present(book') => book'[s].rev \in Nat,
           \A t \in Subs \ {s} : book'[t] = book[t] /\ fetching'[t] = fetching[t]
    PROVE  Tracks' /\ queue' \in Seq(Messages) /\ (handler = "closed" => queue' = queue)
<1> DEFINE m == Message(book', fetching', s)
<1>1. /\ m \in Messages /\ m.sub = s
      /\ Shows(book', fetching', unsaid', s, m.state)
  BY MessageShows, Zenon
<1>2. /\ \/ handler # "closed" /\ queue' = Append(queue, m) /\ full' = full \ {s}
         \/ handler # "closed" /\ queue' = queue /\ full' = full \cup {s}
         \/ handler = "closed" /\ queue' = queue
      /\ unsaid' = unsaid \ {s}
  BY Zenon DEF NotifyLocked, Watching
<1> HIDE DEF m
<1>3. UNCHANGED <<handler, listed, view>>
  BY Zenon DEF watchVars
<1>4. \A t \in Subs \ {s} : \A st : Current(t, st)' <=> Current(t, st)
  <2>1. \A t \in Subs \ {s} : /\ t \in Present(book') <=> t \in Present(book)
                              /\ t \in unsaid' <=> t \in unsaid
    BY <1>2, Zenon DEF Present
  <2> QED BY <2>1, Zenon DEF Current, Shows
<1>5. CASE handler # "closed" /\ queue' = Append(queue, m) /\ full' = full \ {s}
  <2> DEFINE n == Len(queue) + 1
  <2>1. /\ queue' \in Seq(Messages) /\ n \in DOMAIN queue' /\ queue'[n] = m
        /\ \A i \in DOMAIN queue : i \in DOMAIN queue' /\ queue'[i] = queue[i] /\ ~(i > n)
        /\ \A i \in DOMAIN queue' : (i \in DOMAIN queue \/ i = n) /\ ~(i > n)
    <3>1. queue \in Seq(Messages) /\ m \in Messages /\ queue' = Append(queue, m)
      BY <1>1, <1>5, Zenon DEF FeedShape
    <3> HIDE DEF n
    <3>2. Len(queue) \in Nat /\ DOMAIN queue = 1 .. Len(queue)
      BY <3>1
    <3>3. queue' \in Seq(Messages) /\ DOMAIN queue' = 1 .. Len(queue) + 1
      BY <3>1, <3>2
    <3>4. queue'[Len(queue) + 1] = m /\ \A i \in 1 .. Len(queue) : queue'[i] = queue[i]
      BY <3>1, <3>2
    <3>5. n \in Nat /\ n = Len(queue) + 1
      BY <3>2 DEF n
    <3> QED BY <3>2, <3>3, <3>4, <3>5
  <2> HIDE DEF n
  <2>2. Settled(s)'
    BY <1>1, <2>1, Zenon DEF Settled, Current
  <2>3. ASSUME NEW t \in Subs \ {s}, Settled(t) PROVE Settled(t)'
    <3>1. PICK i \in DOMAIN queue : /\ queue[i].sub = t /\ Current(t, queue[i].state)
                                    /\ \A j \in DOMAIN queue : j > i => queue[j].sub # t
      BY <2>3, Zenon DEF Settled
    <3>2. i \in DOMAIN queue' /\ queue'[i] = queue[i] /\ Current(t, queue[i].state)'
      BY <1>4, <2>1, <3>1, Zenon
    <3>3. \A j \in DOMAIN queue' : j > i => queue'[j].sub # t
      BY <1>1, <2>1, <3>1, Zenon
    <3>4. Shows(book', fetching', unsaid', t, queue'[i].state)
      BY <3>2, Zenon DEF Current
    <3> QED BY <3>1, <3>2, <3>3, <3>4, Zenon DEF Settled, Current
  <2>4. ASSUME NEW t \in Subs \ {s} PROVE ~Said(t) => ~Said(t)'
    BY <1>1, <2>1, Zenon DEF Said
  <2>5. ASSUME NEW t \in Subs \ {s} PROVE Shown(t) => Shown(t)'
    BY <1>3, <1>4, Zenon DEF Shown, Current
  <2>6. ASSUME NEW t \in Subs \ full'
        PROVE  Settled(t)' \/ (~Said(t)' /\ (handler' # "watch" => Shown(t)'))
    <3>1. CASE t = s
      BY <2>2, <3>1, Zenon DEF Settled, Current
    <3>2. CASE t # s
      <4>1. t \in Subs \ {s} /\ t \notin full
        BY <1>5, <3>2, Zenon
      <4>2. Settled(t) \/ (~Said(t) /\ (handler # "watch" => Shown(t)))
        BY <1>5, <4>1, Zenon DEF Tracks
      <4> QED BY <1>3, <2>3, <2>4, <2>5, <4>1, <4>2, Zenon
    <3> QED BY <3>1, <3>2, Zenon
  <2>7. Tracks'
    BY <2>6, Zenon DEF Tracks
  <2> QED BY <1>5, <2>1, <2>7, Zenon
<1>6. CASE queue' = queue /\ (handler = "closed" \/ full' = full \cup {s})
  <2>1. ASSUME NEW t \in Subs \ {s}
        PROVE  (Settled(t) => Settled(t)') /\ (~Said(t) => ~Said(t)') /\ (Shown(t) => Shown(t)')
    BY <1>3, <1>4, <1>6, Zenon DEF Settled, Said, Shown, Current
  <2> QED BY <1>3, <1>6, <2>1, Zenon DEF Tracks, FeedShape, Settled, Said, Shown, Current
<1> QED BY <1>2, <1>5, <1>6, Zenon

\* Steps of the book.
LEMMA BookStepTracks ==
    ASSUME FeedShape, Tracks, NEW s \in Subs,
           \/ \E link \in Links : SaveState(s, link)
           \/ DeleteState(s) \/ BeginRefresh(s) \/ \E stored \in BOOLEAN : EndRefresh(s, stored)
    PROVE  FeedShape' /\ Tracks'
<1>1. UNCHANGED watchVars /\ UNCHANGED <<handler, listed, view>>
  BY Zenon DEF SaveState, DeleteState, BeginRefresh, EndRefresh, watchVars
<1>2. /\ DOMAIN book' = Subs /\ DOMAIN fetching' = Subs
      /\ \A t \in Subs \ {s} : book'[t] = book[t] /\ fetching'[t] = fetching[t]
  BY Zenon DEF SaveState, DeleteState, BeginRefresh, EndRefresh, Revise, FeedShape
<1>3. revision' \in Nat /\ (s \in Present(book') => book'[s].rev \in Nat)
  <2>1. CASE \E link : Revise(s, link)
    <3>1. PICK link : /\ revision' = revision + 1
                      /\ book' = [book EXCEPT ![s] = [link |-> link, rev |-> revision']]
      BY <2>1, Zenon DEF Revise
    <3>2. revision' \in Nat
      BY <3>1, SMTT(30), ZenonT(30) DEF FeedShape
    <3>3. book'[s] = [link |-> link, rev |-> revision']
      BY <3>1, Zenon DEF FeedShape
    <3> QED BY <3>2, <3>3
  <2>2. CASE UNCHANGED <<book, revision>>
    BY <2>2, Zenon DEF FeedShape
  <2>3. CASE DeleteState(s)
    <3>1. book'[s] = Deleted /\ revision' = revision
      BY <2>3, Zenon DEF DeleteState, FeedShape
    <3> QED BY <3>1, Zenon DEF FeedShape, Present
  <2> QED BY <2>1, <2>2, <2>3, Zenon DEF SaveState, BeginRefresh, EndRefresh
<1>4. \A t \in Present(book') : book'[t].rev \in Nat
  <2>1. \A t \in Present(book') : t \in Subs /\ (t # s => t \in Present(book))
    BY <1>2, Zenon DEF Present
  <2> QED BY <1>2, <1>3, <2>1, Zenon DEF FeedShape
<1>5. CASE NotifyLocked(s)
  <2>1. Tracks' /\ queue' \in Seq(Messages) /\ (handler = "closed" => queue' = queue)
    BY <1>1, <1>2, <1>3, <1>5, NotifyTracks, Zenon
  <2> QED BY <1>1, <1>2, <1>3, <1>4, <2>1, Zenon DEF FeedShape
<1>6. CASE /\ UNCHANGED <<book, revision, queue, full>> /\ unsaid' = unsaid \cup {s}
           /\ fetching' = [fetching EXCEPT ![s] = Absent]
  <2>1. FeedShape'
    BY <1>1, <1>2, <1>6, Zenon DEF FeedShape
  <2>2. \A t \in Subs : \A st : Current(t, st) => Current(t, st)'
    BY <1>2, <1>6, Zenon DEF Current, Shows
  <2>3. \A t \in Subs : /\ Settled(t) => Settled(t)'
                        /\ Said(t)' <=> Said(t)
    BY <1>6, <2>2, Zenon DEF Settled, Said, Current
  <2>4. \A t \in Subs : Shown(t) => Shown(t)'
    BY <1>1, <2>2, Zenon DEF Shown, Current
  <2> QED BY <1>1, <1>6, <2>1, <2>3, <2>4, Zenon DEF Tracks, Settled, Said, Shown, Current
<1> QED BY <1>5, <1>6, Zenon DEF SaveState, DeleteState, BeginRefresh, EndRefresh

\* Steps of the handler.
LEMMA WatchStepTracks ==
    ASSUME FeedShape, Tracks, OpenWatch \/ TakeList \/ SendListed \/ SendChange \/ CloseWatch
    PROVE  FeedShape' /\ Tracks'
<1>1. UNCHANGED bookVars /\ UNCHANGED <<book, fetching, revision>>
  BY Zenon DEF OpenWatch, TakeList, SendListed, SendChange, CloseWatch, bookVars
<1>2. CASE OpenWatch
  <2>1. /\ queue' = queue /\ queue = << >> /\ listed' = listed /\ handler' = "watch"
        /\ view' = [s \in Subs |-> Absent]
    BY <1>2, Zenon DEF OpenWatch, FeedShape
  <2>2. \A s \in Subs : ~Said(s)'
    BY <2>1 DEF Said
  <2> QED BY <1>1, <2>1, <2>2, Zenon DEF FeedShape, Tracks
<1>3. CASE TakeList
  <2>1. /\ handler = "watch" /\ handler' = "list"
        /\ listed' = {Message(book, fetching, s) : s \in Present(book)}
        /\ UNCHANGED <<view, queue, full, unsaid>>
    BY <1>3, Zenon DEF TakeList, ghosts
  <2>2. ASSUME NEW s \in Present(book)
        PROVE  /\ Message(book, fetching, s) \in Messages /\ Message(book, fetching, s).sub = s
               /\ Current(s, Message(book, fetching, s).state)
    <3>1. s \in Subs /\ book[s].rev \in Nat
      BY Zenon DEF Present, FeedShape
    <3> QED BY <3>1, MessageShows, Zenon DEF Current
  <2>3. \A s \in Subs : \A st : Current(s, st)' <=> Current(s, st)
    BY <1>1, <2>1, Zenon DEF Current
  <2>4. ASSUME NEW s \in Subs PROVE Shown(s)'
    <3>1. CASE s \in Present(book)
      <4>1. \A m \in listed' : m.sub = s => Current(s, m.state)'
        BY <2>1, <2>2, <2>3, ZenonT(40) DEF Current
      <4>2. \E m \in listed' : m.sub = s
        BY <2>1, <2>2, <3>1, Zenon
      <4> QED BY <4>1, <4>2, Zenon DEF Shown, Current
    <3>2. CASE s \notin Present(book)
      <4>1. ~\E m \in listed' : m.sub = s
        BY <2>1, <2>2, <3>2, Zenon
      <4>2. view'[s] = Absent
        BY <2>1, Zenon DEF FeedShape
      <4>3. Shows(book', fetching', unsaid', s, view'[s])
        BY <1>1, <3>2, <4>2, Zenon DEF Current, Shows
      <4> QED BY <4>1, <4>3, Zenon DEF Shown, Current
    <3> QED BY <3>1, <3>2, Zenon
  <2>5. \A s \in Subs : (Settled(s) => Settled(s)') /\ (Said(s)' <=> Said(s))
    BY <2>1, <2>3, Zenon DEF Settled, Said, Current
  <2>6. Tracks'
    BY <2>1, <2>4, <2>5, Zenon DEF Tracks, Settled, Said, Shown, Current
  <2>7. listed' \subseteq Messages
    BY <2>1, <2>2, Zenon
  <2> QED BY <1>1, <2>1, <2>6, <2>7, Zenon DEF FeedShape
<1>4. CASE SendListed
  <2>1. handler = "list" /\ UNCHANGED <<queue, full, unsaid>>
    BY <1>4, Zenon DEF SendListed, ghosts
  <2>2. \A s \in Subs : \A st : Current(s, st)' <=> Current(s, st)
    BY <1>1, <2>1, Zenon DEF Current
  <2>3. \A s \in Subs : (Settled(s) => Settled(s)') /\ (Said(s)' <=> Said(s))
    BY <2>1, <2>2, Zenon DEF Settled, Said, Current
  <2>4. CASE listed = {}
    <3>1. handler' = "stream" /\ UNCHANGED <<listed, view>>
      BY <1>4, <2>4, Zenon DEF SendListed
    <3>2. \A s \in Subs : Shown(s) => Shown(s)'
      BY <2>2, <3>1, Zenon DEF Shown, Current
    <3> QED BY <1>1, <2>1, <2>3, <2>4, <3>1, <3>2, Zenon
          DEF FeedShape, Tracks, Settled, Said, Shown, Current
  <2>5. CASE listed # {}
    <3>1. PICK m \in listed : Tell(m) /\ listed' = listed \ {m} /\ handler' = handler
      BY <1>4, <2>5, Zenon DEF SendListed
    <3>2. m.sub \in Subs
      BY <3>1, Zenon DEF FeedShape, Messages
    <3>3. /\ view'[m.sub] = m.state /\ DOMAIN view' = Subs
          /\ \A s \in Subs : s # m.sub => view'[s] = view[s]
      BY <3>1, <3>2, Zenon DEF Tell, FeedShape
    <3>4. ASSUME NEW s \in Subs, Shown(s) PROVE Shown(s)'
      <4>1. CASE \E k \in listed' : k.sub = s
        <5>1. \A k \in listed : k.sub = s => Current(s, k.state)
          BY <3>1, <3>4, <4>1, Zenon DEF Shown
        <5>2. \A k \in listed' : k.sub = s => Current(s, k.state)'
          BY <2>2, <3>1, <5>1, Zenon DEF Current
        <5> QED BY <4>1, <5>2, Zenon DEF Shown, Current
      <4>2. CASE ~\E k \in listed' : k.sub = s
        <5>1. CASE m.sub = s
          <6>1. Current(s, m.state)
            BY <3>4, <5>1, Zenon DEF Shown
          <6>2. Shows(book', fetching', unsaid', s, view'[s])
            BY <2>2, <3>3, <5>1, <6>1, Zenon DEF Current
          <6> QED BY <4>2, <6>2, Zenon DEF Shown, Current
        <5>2. CASE m.sub # s
          <6>1. ~\E k \in listed : k.sub = s
            BY <3>1, <4>2, <5>2, Zenon
          <6>2. Current(s, view[s]) /\ view'[s] = view[s]
            BY <3>3, <3>4, <5>2, <6>1, Zenon DEF Shown
          <6>3. Shows(book', fetching', unsaid', s, view'[s])
            BY <2>2, <6>2, Zenon DEF Current
          <6> QED BY <4>2, <6>3, Zenon DEF Shown, Current
        <5> QED BY <5>1, <5>2, Zenon
      <4> QED BY <4>1, <4>2, Zenon
    <3>5. Tracks'
      BY <2>1, <2>3, <3>1, <3>4, Zenon DEF Tracks, Settled, Said, Shown, Current
    <3> QED BY <1>1, <2>1, <3>1, <3>3, <3>5, Zenon DEF FeedShape
  <2> QED BY <2>4, <2>5, Zenon
<1>5. CASE SendChange
  <2> DEFINE m == Head(queue)
  <2>1. /\ handler = "stream" /\ queue # << >> /\ Tell(m) /\ queue' = Tail(queue)
        /\ UNCHANGED <<handler, listed, full, unsaid>>
    BY <1>5, Zenon DEF SendChange, ghosts
  <2>2. /\ queue' \in Seq(Messages) /\ m \in Messages /\ 1 \in DOMAIN queue /\ m = queue[1]
        /\ \A i \in DOMAIN queue' : i + 1 \in DOMAIN queue /\ queue'[i] = queue[i + 1]
        /\ \A i \in DOMAIN queue : i = 1 \/ (i - 1 \in DOMAIN queue' /\ queue'[i - 1] = queue[i])
    BY <2>1 DEF FeedShape
  <2> HIDE DEF m
  <2>3. m.sub \in Subs
    BY <2>2, Zenon DEF Messages
  <2>4. /\ view'[m.sub] = m.state /\ DOMAIN view' = Subs
        /\ \A s \in Subs : s # m.sub => view'[s] = view[s]
    BY <2>1, <2>3, Zenon DEF Tell, FeedShape
  <2>5. \A s \in Subs : \A st : Current(s, st)' <=> Current(s, st)
    BY <1>1, <2>1, Zenon DEF Current
  <2>6. listed = {} /\ listed' = {}
    BY <2>1, Zenon DEF FeedShape
  <2>7. ASSUME NEW s \in Subs, ~Said(s), Shown(s) PROVE ~Said(s)' /\ Shown(s)'
    <3>1. m.sub # s /\ ~Said(s)'
      BY <2>2, <2>7, ZenonT(40) DEF Said
    <3>2. Current(s, view[s]) /\ view'[s] = view[s]
      BY <2>4, <2>6, <2>7, <3>1, Zenon DEF Shown
    <3>3. Shows(book', fetching', unsaid', s, view'[s])
      BY <2>5, <3>2, Zenon DEF Current
    <3> QED BY <2>6, <3>1, <3>3, Zenon DEF Shown, Current
  <2>8. ASSUME NEW s \in Subs, Settled(s) PROVE Settled(s)' \/ (~Said(s)' /\ Shown(s)')
    <3>1. PICK i \in DOMAIN queue : /\ queue[i].sub = s /\ Current(s, queue[i].state)
                                    /\ \A j \in DOMAIN queue : j > i => queue[j].sub # s
      BY <2>8, Zenon DEF Settled
    <3>2. CASE i = 1
      <4>1. \A j \in DOMAIN queue' : j + 1 > 1
        BY <2>2
      <4>2. ASSUME NEW j \in DOMAIN queue' PROVE queue'[j].sub # s
        <5>1. j + 1 \in DOMAIN queue /\ j + 1 > i /\ queue'[j] = queue[j + 1]
          BY <2>2, <3>2, <4>1, Zenon
        <5> QED BY <3>1, <5>1, Zenon
      <4>3. Shows(book', fetching', unsaid', s, view'[s])
        BY <2>2, <2>4, <2>5, <3>1, <3>2, Zenon DEF Current
      <4> QED BY <2>6, <4>2, <4>3, Zenon DEF Said, Shown, Current
    <3>3. CASE i # 1
      <4> DEFINE k == i - 1
      <4>1. k \in DOMAIN queue' /\ queue'[k] = queue[i]
        BY <2>2, <3>3, Zenon
      <4>4. i \in Nat /\ \A j \in DOMAIN queue' : j \in Nat
        BY <2>2 DEF FeedShape
      <4>5. \A j \in DOMAIN queue' : j > k => j + 1 > i
        BY <4>4
      <4> HIDE DEF k
      <4>2. ASSUME NEW j \in DOMAIN queue', j > k PROVE queue'[j].sub # s
        <5>1. j + 1 \in DOMAIN queue /\ j + 1 > i /\ queue'[j] = queue[j + 1]
          BY <2>2, <4>2, <4>5, Zenon
        <5> QED BY <3>1, <5>1, Zenon
      <4>3. Shows(book', fetching', unsaid', s, queue'[k].state)
        BY <2>5, <3>1, <4>1, Zenon DEF Current
      <4> QED BY <3>1, <4>1, <4>2, <4>3, Zenon DEF Settled, Current
    <3> QED BY <3>2, <3>3, Zenon
  <2>9. Tracks'
    BY <2>1, <2>7, <2>8, Zenon DEF Tracks, Settled, Said, Shown, Current
  <2> QED BY <1>1, <2>1, <2>2, <2>4, <2>6, <2>9, Zenon DEF FeedShape
<1>6. CASE CloseWatch
  <2>1. handler' = "closed" /\ queue' = << >> /\ listed' = {} /\ UNCHANGED view
    BY <1>6, Zenon DEF CloseWatch
  <2>2. << >> \in Seq(Messages)
    OBVIOUS
  <2> QED BY <1>1, <2>1, <2>2, Zenon DEF FeedShape, Tracks
<1> QED BY <1>2, <1>3, <1>4, <1>5, <1>6, Zenon

\* A watcher that has read its queue sees the book, whatever the book did while
\* WatchSubscriptions registered, listed and sent.
THEOREM WatcherSeesBook == FeedSpec => []ViewCurrent
<1>1. FeedInit => FeedShape /\ Tracks
  <2>1. << >> \in Seq(Messages)
    OBVIOUS
  <2>2. 0 \in Nat
    BY Zenon
  <2> QED BY <2>1, <2>2, Zenon DEF FeedInit, FeedShape, Tracks, Present
<1>2. ASSUME FeedShape, Tracks, [FeedNext]_subFeedVars PROVE FeedShape' /\ Tracks'
  <2>1. CASE UNCHANGED subFeedVars
    <3>1. UNCHANGED <<book, fetching, revision, handler, listed, view, queue, full, unsaid>>
      BY <2>1, Zenon DEF subFeedVars, bookVars, watchVars, ghosts
    <3>2. FeedShape'
      BY <1>2, <3>1, Zenon DEF FeedShape
    <3>3. ASSUME NEW s \in Subs
          PROVE  (Settled(s) => Settled(s)') /\ (Said(s)' => Said(s)) /\ (Shown(s) => Shown(s)')
      BY <3>1, Zenon DEF Settled, Said, Shown, Current
    <3>4. Tracks'
      BY <1>2, <3>1, <3>3, Zenon DEF Tracks
    <3> QED BY <3>2, <3>4, Zenon
  <2>2. CASE FeedNext
    BY <1>2, <2>2, BookStepTracks, WatchStepTracks, Zenon DEF FeedNext
  <2> QED BY <1>2, <2>1, <2>2, Zenon
<1>3. FeedShape /\ Tracks => ViewCurrent
  <2> SUFFICES ASSUME FeedShape, Tracks, handler = "stream", queue = << >>, NEW s \in Subs \ full
               PROVE  Current(s, view[s])
    BY Zenon DEF ViewCurrent, Current, Shows
  <2>1. DOMAIN queue = {}
    OBVIOUS
  <2>2. Shown(s) /\ listed = {}
    BY <2>1, Zenon DEF Tracks, Settled, FeedShape
  <2> QED BY <2>2, Zenon DEF Shown
<1> QED BY <1>1, <1>2, <1>3, PTL DEF FeedSpec

=============================================================================
