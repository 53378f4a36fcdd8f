------------------------------ MODULE LogProofs -----------------------------
(***************************************************************************)
(* The record of log lines, for any limits, messages and settings: a        *)
(* client that reads it page by page misses no entry that stayed in the     *)
(* record (PagesMissNothing), one that follows it is sent every entry that  *)
(* matches or is told of a loss (FollowersSkipNothing), and the record      *)
(* never outgrows its setting (RecordIsBounded).                            *)
(*                                                                         *)
(* Neither promise is inductive.  The pages rest on the order of the record *)
(* (Record): numbers rise with the place, so the cursor, the number of the  *)
(* oldest entry read, splits the record into what is read and what is left  *)
(* (Paging).  The follower rests on the order of its channel, behind the    *)
(* entry in hand and that behind what was sent (InOrder), and on every      *)
(* matching entry not yet sent being on its way or newer than everything on *)
(* its way, with the loss counted (Following).                              *)
(***************************************************************************)
EXTENDS LogCenter, FiniteSetTheorems, WellFoundedInduction, TLAPS

\* What an entry of the record or of a channel is.
Entry ==
    [seq : Nat \ {0}, level : {m.level : m \in Messages}, source : {m.source : m \in Messages},
     text : {m.text : m \in Messages} \cup {Hide(m.text) : m \in Messages}, repeat : Nat]

\* Entries in the order of their numbers; n - 1 is the last number given, and
\* the last entry has it.
Sorted(es, n) ==
    /\ es \in Seq(Entry) /\ n \in Nat \ {0}
    /\ \A k \in DOMAIN es : es[k].seq < n
    /\ \A j, k \in DOMAIN es : j < k => es[j].seq < es[k].seq
    /\ \A k \in DOMAIN es : k = Len(es) => es[k].seq = n - 1

Record == Sorted(entries, next)

Bounded == settings.entries \in Nat /\ Len(entries) <= settings.entries

HasRead(n) == \E j \in DOMAIN page.read : n \in page.read[j]

\* What is read is not older than the cursor, and all of it is read that was
\* there and is not older.
Paging ==
    /\ page = [at |-> page.at, filter |-> page.filter, read |-> page.read, since |-> page.since]
    /\ page.read \in Seq(SUBSET Nat) /\ page.since \in SUBSET Nat
    /\ page.at = -1 \/ page.at \in Nat \ {0}
    /\ \A n \in page.since : n < next
    /\ \A k \in DOMAIN entries : entries[k].seq \in page.since => Match(page.filter, entries[k])
    /\ page.at # -1 =>
          /\ \A j \in DOMAIN page.read : \A n \in page.read[j] : page.at <= n
          /\ \A k \in DOMAIN entries :
                entries[k].seq \in page.since /\ page.at <= entries[k].seq => HasRead(entries[k].seq)
    /\ PagesAreWhole

\* The numbers in the channel.
InReplay(n) == \E k \in DOMAIN watch.replay : watch.replay[k].seq = n
InBuf(n) == \E k \in DOMAIN watch.buf : watch.buf[k].seq = n
InChannel(n) == InReplay(n) \/ InBuf(n)

Channel ==
    /\ watch = [on |-> watch.on, filter |-> watch.filter, replay |-> watch.replay,
                buf |-> watch.buf, cap |-> watch.cap, lost |-> watch.lost]
    /\ watch.on \in BOOLEAN /\ watch.lost \in Nat
    /\ DOMAIN watch.replay \in SUBSET Nat
    /\ \A k \in DOMAIN watch.replay : watch.replay[k] \in Entry
    /\ watch.buf \in Seq(Entry)
    /\ hand = Nothing \/ hand \in Entry
    /\ hand # Nothing => watch.on
    /\ last \in Nat /\ last < next

\* The channel is in the order of the numbers, behind the entry in hand, and
\* that one behind what was sent.
InOrder ==
    /\ \A n \in Nat : InChannel(n) => last <= n /\ n < next
    /\ \A j, k \in DOMAIN watch.replay : j < k => watch.replay[j].seq < watch.replay[k].seq
    /\ \A j \in DOMAIN watch.replay, k \in DOMAIN watch.buf : watch.replay[j].seq <= watch.buf[k].seq
    /\ \A j, k \in DOMAIN watch.buf : j < k => watch.buf[j].seq <= watch.buf[k].seq
    /\ hand # Nothing => /\ last <= hand.seq /\ hand.seq < next
                         /\ \A n \in Nat : InChannel(n) => hand.seq <= n

\* What matches and was not sent is in hand or in the channel, or is newer than
\* all of it and counted as lost; with an entry in hand nothing that was lost
\* is older than that.
Coming(n) ==
    IF hand = Nothing
    THEN InChannel(n) \/ (watch.lost > 0 /\ \A m \in Nat : InChannel(m) => m < n)
    ELSE hand.seq <= n /\ (watch.lost = 0 => n = hand.seq \/ InChannel(n))

Following ==
    /\ watch.on => \A k \in Matching(watch.filter) : last < entries[k].seq => Coming(entries[k].seq)
    /\ watch.on /\ watch.lost > 0 /\ hand = Nothing => ~(Waiting(watch) < watch.cap)
    /\ NothingSkipped

LogInv == Record /\ Bounded /\ Paging /\ Channel /\ InOrder /\ Following

-----------------------------------------------------------------------------
(***************************************************************************)
(* Least and greatest elements, and what evict and Query choose with them. *)
(***************************************************************************)

LEMMA Least ==
    ASSUME NEW T \in SUBSET Nat, T # {}
    PROVE  \E x \in T : \A y \in T : x <= y
<1> DEFINE R == OpToRel(<, Nat)
<1>1. IsWellFoundedOn(R, Nat)
  BY NatLessThanWellFounded, Zenon
<1>2. \A a, b \in Nat : a < b => <<a, b>> \in R
  BY Zenon DEF OpToRel
<1> HIDE DEF R
<1>3. PICK x \in T : \A y \in T : ~(<<y, x>> \in R)
  BY <1>1, WFMin, Zenon
<1>4. \A y \in T : ~(y < x)
  BY <1>2, <1>3, Zenon
<1> QED BY <1>4

LEMMA Greatest ==
    ASSUME NEW n \in Nat, NEW T \in SUBSET (0 .. n), T # {}
    PROVE  \E x \in T : \A y \in T : y <= x
<1> DEFINE U == {k \in 0 .. n : n - k \in T}
<1>1. U \in SUBSET Nat /\ U # {}
  <2>1. PICK t \in T : TRUE
    BY Zenon
  <2>2. n - t \in 0 .. n /\ n - (n - t) = t
    BY <2>1
  <2> QED BY <2>1, <2>2
<1>2. PICK u \in U : \A v \in U : u <= v
  <2> HIDE DEF U
  <2> QED BY <1>1, Least, Zenon
<1>3. n - u \in T /\ u \in 0 .. n
  BY <1>2, Zenon
<1>4. \A y \in T : n - y \in U
  OBVIOUS
<1>5. ASSUME NEW y \in T
      PROVE  y <= n - u
  <2>1. u <= n - y
    BY <1>2, <1>4, Zenon
  <2>2. y \in 0 .. n
    BY Zenon
  <2> QED BY <1>3, <2>1, <2>2
<1> QED BY <1>3, <1>5, Zenon

\* evict ends: some number of entries is enough to drop.
LEMMA DropIsEnough ==
    ASSUME NEW es \in Seq(Entry), NEW b, NEW s
    PROVE  Drop(es, b, s) \in 0 .. Len(es) /\ Enough(es, b, s, Drop(es, b, s))
<1> DEFINE T == {d \in 0 .. Len(es) : Enough(es, b, s, d)}
           P(d) == Enough(es, b, s, d) /\ \A c \in 0 .. d - 1 : ~Enough(es, b, s, c)
<1>1. T \in SUBSET Nat /\ Len(es) \in T
  BY DEF Enough
<1>2. PICK d \in T : \A c \in T : d <= c
  <2> HIDE DEF T
  <2> QED BY <1>1, Least, Zenon
<1>3. d \in 0 .. Len(es) /\ P(d)
  <2>1. \A c \in 0 .. d - 1 : c \in 0 .. Len(es) /\ ~(d <= c)
    BY <1>1, <1>2
  <2> QED BY <1>2, <2>1, Zenon
<1>4. Drop(es, b, s) = CHOOSE c \in 0 .. Len(es) : P(c)
  BY Zenon DEF Drop
<1> QED BY <1>3, <1>4, Zenon

\* What is left of the record when its oldest entries are dropped.
LEMMA Rest ==
    ASSUME NEW es \in Seq(Entry), NEW d \in 0 .. Len(es),
           NEW rest, rest = SubSeq(es, d + 1, Len(es))
    PROVE  /\ rest \in Seq(Entry) /\ Len(rest) = Len(es) - d /\ DOMAIN rest = 1 .. Len(rest)
           /\ DOMAIN es = 1 .. Len(es)
           /\ \A k \in DOMAIN rest : k + d \in DOMAIN es /\ rest[k] = es[k + d]
<1>1. Len(es) \in Nat /\ DOMAIN es = 1 .. Len(es) /\ d \in Nat /\ d <= Len(es)
  OBVIOUS
<1>2. rest \in Seq(Entry) /\ Len(rest) = IF d + 1 <= Len(es) THEN Len(es) - (d + 1) + 1 ELSE 0
  BY <1>1
<1>3. \A k \in 1 .. Len(es) - (d + 1) + 1 : rest[k] = es[d + 1 + k - 1]
  BY <1>1
<1>4. DOMAIN rest = 1 .. Len(rest)
  BY <1>2
<1>5. Len(rest) = Len(es) - d
  <2>1. \A n, c \in Nat : c <= n => (IF c + 1 <= n THEN n - (c + 1) + 1 ELSE 0) = n - c
    OBVIOUS
  <2> QED BY <1>1, <1>2, <2>1, Zenon
<1>6. ASSUME NEW k \in DOMAIN rest
      PROVE  k + d \in DOMAIN es /\ rest[k] = es[k + d]
  <2>1. \A n, c \in Nat : \A i \in 1 .. n - c :
           i \in 1 .. n - (c + 1) + 1 /\ c + 1 + i - 1 = i + c /\ i + c \in 1 .. n
    OBVIOUS
  <2>2. k \in 1 .. Len(es) - d
    BY <1>4, <1>5, Zenon
  <2>3. k \in 1 .. Len(es) - (d + 1) + 1 /\ d + 1 + k - 1 = k + d /\ k + d \in 1 .. Len(es)
    BY <1>1, <2>1, <2>2, Zenon
  <2>4. rest[k] = es[d + 1 + k - 1]
    BY <1>3, <2>3, Zenon
  <2> QED BY <1>1, <2>3, <2>4, Zenon
<1> QED BY <1>1, <1>2, <1>4, <1>5, <1>6, Zenon

-----------------------------------------------------------------------------
(***************************************************************************)
(* The record: an entry of it was there before with the same number, level *)
(* and source, or has the next number.                                     *)
(***************************************************************************)

SameEntry(d, e) == d.seq = e.seq /\ d.level = e.level /\ d.source = e.source

Evolves ==
    /\ next' = next \/ next' = next + 1
    /\ \A k \in DOMAIN entries' :
          \/ \E j \in DOMAIN entries : SameEntry(entries'[k], entries[j])
          \/ entries'[k].seq = next /\ next' = next + 1

LEMMA EntryFields ==
    \A e \in Entry : e.seq \in Nat /\ e.seq # 0
BY Zenon DEF Entry

LEMMA EvictKeepsOrder ==
    ASSUME NEW es, NEW n, NEW b, NEW s, Sorted(es, n), Evict(es, b, s)
    PROVE  /\ Sorted(entries', n)
           /\ \A k \in DOMAIN entries' : \E j \in DOMAIN es : entries'[k] = es[j]
           /\ s.entries \in Nat => Len(entries') <= s.entries
<1> DEFINE d == Drop(es, b, s)
           rest == SubSeq(es, d + 1, Len(es))
<1>1. es \in Seq(Entry) /\ n \in Nat \ {0}
  BY Zenon DEF Sorted
<1>2. d \in 0 .. Len(es) /\ Enough(es, b, s, d)
  BY <1>1, DropIsEnough, Zenon
<1>3. entries' = rest
  BY Zenon DEF Evict
<1>4. /\ rest \in Seq(Entry) /\ Len(rest) = Len(es) - d /\ DOMAIN rest = 1 .. Len(rest)
      /\ DOMAIN es = 1 .. Len(es)
      /\ \A k \in DOMAIN rest : k + d \in DOMAIN es /\ rest[k] = es[k + d]
  <2> HIDE DEF d
  <2>1. rest = SubSeq(es, d + 1, Len(es))
    BY Zenon
  <2> HIDE DEF rest
  <2> QED BY <1>1, <1>2, <2>1, Rest
<1>5. d \in Nat /\ Len(es) \in Nat
  BY <1>1, <1>2
<1> HIDE DEF d, rest
<1>6. \A k \in DOMAIN rest : rest[k].seq < n
  BY <1>4, Zenon DEF Sorted
<1>7. ASSUME NEW j \in DOMAIN rest, NEW k \in DOMAIN rest, j < k
      PROVE  rest[j].seq < rest[k].seq
  <2>1. j + d < k + d
    BY <1>4, <1>5, <1>7
  <2> QED BY <1>4, <1>7, <2>1, Zenon DEF Sorted
<1>8. ASSUME NEW k \in DOMAIN rest, k = Len(rest)
      PROVE  rest[k].seq = n - 1
  <2>1. k + d = Len(es)
    BY <1>4, <1>5, <1>8
  <2> QED BY <1>4, <1>8, <2>1, Zenon DEF Sorted
<1>9. Sorted(entries', n)
  BY <1>1, <1>3, <1>4, <1>6, <1>7, <1>8, Zenon DEF Sorted
<1>10. ASSUME s.entries \in Nat
       PROVE  Len(rest) <= s.entries
  BY <1>2, <1>4, <1>5, <1>10 DEF Enough
<1> QED BY <1>3, <1>4, <1>9, <1>10, Zenon

LEMMA MessageIsRecorded ==
    ASSUME NEW m \in Messages
    PROVE  /\ Recorded(m).level = m.level /\ Recorded(m).source = m.source
           /\ Recorded(m).text \in {x.text : x \in Messages} \cup {Hide(x.text) : x \in Messages}
<1>1. DOMAIN m = {"level", "source", "text"}
  BY MessagesAssumption, Zenon
<1>2. CASE Recorded(m) = m
  BY <1>2, Zenon
<1>3. CASE Recorded(m) = [m EXCEPT !.text = Hide(m.text)]
  <2>1. Recorded(m).level = m.level /\ Recorded(m).source = m.source /\ Recorded(m).text = Hide(m.text)
    BY <1>1, <1>3, Zenon
  <2> QED BY <2>1, Zenon
<1> QED BY <1>2, <1>3, Zenon DEF Recorded

LEMMA NewEntry ==
    ASSUME Record, NEW e \in Entry, e.seq = next, next' = next + 1, NEW s,
           NEW b, Evict(Append(entries, e), b, s)
    PROVE  /\ Record'
           /\ \A k \in DOMAIN entries' : entries'[k] = e \/ \E j \in DOMAIN entries : entries'[k] = entries[j]
           /\ s.entries \in Nat => Len(entries') <= s.entries
<1>1. PICK more : more = Append(entries, e)
  BY Zenon
<1>2. Evict(more, b, s)
  BY <1>1, Zenon
<1>3. Sorted(entries, next)
  BY Zenon DEF Record
<1>4. /\ Sorted(more, next')
      /\ \A k \in DOMAIN more : more[k] = e \/ \E j \in DOMAIN entries : more[k] = entries[j]
  <2>1. /\ entries \in Seq(Entry) /\ next \in Nat \ {0} /\ Len(entries) \in Nat /\ DOMAIN entries = 1 .. Len(entries)
    BY <1>3 DEF Sorted
  <2>2. /\ more \in Seq(Entry) /\ Len(more) = Len(entries) + 1 /\ DOMAIN more = 1 .. Len(entries) + 1
        /\ more[Len(entries) + 1] = e /\ \A k \in DOMAIN entries : more[k] = entries[k]
    BY <1>1, <2>1
  <2>3. \A k \in DOMAIN more : k = Len(entries) + 1 \/ k \in DOMAIN entries
    BY <2>1, <2>2
  <2>4. \A k \in DOMAIN entries : entries[k].seq < next /\ entries[k].seq < next'
    <3>1. \A k \in DOMAIN entries : entries[k].seq \in Nat
      <4>1. \A k \in DOMAIN entries : entries[k] \in Entry
        BY <2>1
      <4> QED BY <4>1, EntryFields, Zenon
    <3>2. \A a \in Nat : a < next => a < next'
      BY <2>1
    <3> QED BY <3>1, <3>2, <1>3, Zenon DEF Sorted
  <2>5. next < next' /\ next' \in Nat \ {0} /\ next = next' - 1
    BY <2>1
  <2>6. \A k \in DOMAIN more : more[k].seq < next'
    BY <2>2, <2>3, <2>4, <2>5, Zenon
  <2>7. ASSUME NEW j \in DOMAIN more, NEW k \in DOMAIN more, j < k
        PROVE  more[j].seq < more[k].seq
    <3>1. j \in DOMAIN entries
      BY <2>1, <2>2, <2>7
    <3> QED BY <2>2, <2>3, <2>4, <2>7, <3>1, <1>3, Zenon DEF Sorted
  <2>8. \A k \in DOMAIN more : k = Len(more) => more[k].seq = next' - 1
    BY <2>2, <2>5, Zenon
  <2>9. Sorted(more, next')
    BY <2>2, <2>5, <2>6, <2>7, <2>8, <1>3, Zenon DEF Sorted
  <2> QED BY <2>2, <2>3, <2>9, Zenon
<1>5. /\ Sorted(entries', next')
      /\ \A k \in DOMAIN entries' : \E j \in DOMAIN more : entries'[k] = more[j]
      /\ s.entries \in Nat => Len(entries') <= s.entries
  BY <1>2, <1>4, EvictKeepsOrder, Zenon
<1>6. ASSUME NEW k \in DOMAIN entries'
      PROVE  entries'[k] = e \/ \E j \in DOMAIN entries : entries'[k] = entries[j]
  <2>1. PICK j \in DOMAIN more : entries'[k] = more[j]
    BY <1>5, Zenon
  <2>2. more[j] = e \/ \E i \in DOMAIN entries : more[j] = entries[i]
    BY <1>4, Zenon
  <2> QED BY <2>1, <2>2, Zenon
<1>7. Record'
  BY <1>5, Zenon DEF Record
<1> QED BY <1>5, <1>6, <1>7, Zenon

\* A new entry, or the newest one once more.
LEMMA WriteStep ==
    ASSUME Record, Bounded, NEW m \in Messages, NEW soon \in BOOLEAN, Write(m, soon)
    PROVE  /\ Record' /\ Evolves /\ Len(entries') <= settings.entries
           /\ \E e \in Entry :
                /\ Notify(e) /\ e.seq = next' - 1
                /\ \A k \in DOMAIN entries' : entries'[k].seq = e.seq => SameEntry(entries'[k], e)
                /\ \/ e.seq = next /\ next' = next + 1
                   \/ next' = next /\ \E k \in DOMAIN entries : SameEntry(e, entries[k])
<1> DEFINE r == Recorded(m)
           n == Len(entries)
           folds == /\ n > 0 /\ soon
                    /\ entries[n].source = r.source /\ entries[n].level = r.level
                    /\ entries[n].text = r.text
           again == [entries[n] EXCEPT !.repeat = @ + 1]
           new == [seq |-> next, level |-> r.level, source |-> r.source, text |-> r.text,
                   repeat |-> 1]
<1>1. /\ entries \in Seq(Entry) /\ next \in Nat \ {0} /\ n \in Nat /\ DOMAIN entries = 1 .. n
      /\ \A k \in DOMAIN entries : entries[k] \in Entry
  BY DEF Record, Sorted
<1>2. CASE folds
  <2>1. entries' = [entries EXCEPT ![n] = again] /\ Notify(again) /\ next' = next
    BY <1>2, Zenon DEF Write
  <2>2. n \in DOMAIN entries /\ n >= 1
    BY <1>1, <1>2
  <2>3. again \in Entry /\ SameEntry(again, entries[n])
    <3>1. entries[n] \in Entry
      BY <1>1, <2>2, Zenon
    <3> QED BY <3>1 DEF Entry, SameEntry
  <2>4. entries[n].seq = next - 1
    BY <2>2, Zenon DEF Record, Sorted
  <2>5. /\ DOMAIN entries' = DOMAIN entries /\ Len(entries') = n /\ entries' \in Seq(Entry)
    BY <1>1, <2>1, <2>2, <2>3
  <2>6. \A k \in DOMAIN entries : SameEntry(entries'[k], entries[k])
    BY <2>1, <2>2, <2>3, Zenon DEF SameEntry
  <2>7. Record'
    <3>1. \A k \in DOMAIN entries : entries'[k].seq = entries[k].seq
      BY <2>6, Zenon DEF SameEntry
    <3> HIDE DEF again
    <3>2. Sorted(entries', next)
      BY <1>1, <2>5, <3>1, Zenon DEF Record, Sorted
    <3> QED BY <2>1, <3>2, Zenon DEF Record
  <2>8. Evolves
    BY <2>1, <2>5, <2>6, Zenon DEF Evolves
  <2>9. \A k \in DOMAIN entries' : entries'[k].seq = again.seq => SameEntry(entries'[k], again)
    <3> SUFFICES ASSUME NEW k \in DOMAIN entries', entries'[k].seq = again.seq
                 PROVE  k = n
      BY <2>1, <2>2, <2>5, Zenon DEF SameEntry
    <3>1. entries[k].seq = entries[n].seq /\ k \in DOMAIN entries
      BY <2>3, <2>5, <2>6, Zenon DEF SameEntry
    <3>2. k < n => entries[k].seq < entries[n].seq
      BY <2>2, <3>1, Zenon DEF Record, Sorted
    <3>3. entries[n].seq \in Nat
      BY <1>1, <2>2, Zenon DEF Entry
    <3> QED BY <1>1, <3>1, <3>2, <3>3
  <2>10. Len(entries') <= settings.entries
    BY <2>5, Zenon DEF Bounded
  <2>11. again.seq = next' - 1
    BY <2>1, <2>3, <2>4, Zenon DEF SameEntry
  <2> HIDE DEF again, r, folds, n
  <2> QED BY <2>1, <2>2, <2>3, <2>7, <2>8, <2>9, <2>10, <2>11, Zenon
<1>3. CASE ~folds
  <2>1. /\ next' = next + 1 /\ Evict(Append(entries, new), bytes + Size(new.text), settings) /\ Notify(new)
    BY <1>3, Zenon DEF Write
  <2>2. new \in Entry /\ new.seq = next
    <3>1. /\ r.level = m.level /\ r.source = m.source
          /\ r.text \in {x.text : x \in Messages} \cup {Hide(x.text) : x \in Messages}
      BY MessageIsRecorded, Zenon
    <3> HIDE DEF r
    <3> QED BY <1>1, <3>1, Zenon DEF Entry
  <2> HIDE DEF new, r, folds, again, n
  <2>6. /\ Record'
        /\ \A k \in DOMAIN entries' : \/ \E j \in DOMAIN entries : entries'[k] = entries[j]
                                      \/ entries'[k] = new
        /\ settings.entries \in Nat => Len(entries') <= settings.entries
    BY <2>1, <2>2, NewEntry, Zenon
  <2>7. Evolves
    BY <2>1, <2>2, <2>6, Zenon DEF Evolves, SameEntry
  <2>8. \A k \in DOMAIN entries' : entries'[k].seq = new.seq => SameEntry(entries'[k], new)
    <3>1. \A k \in DOMAIN entries : entries[k].seq # next
      BY <1>1 DEF Record, Sorted, Entry
    <3> QED BY <2>2, <2>6, <3>1, Zenon DEF SameEntry
  <2>9. new.seq = next' - 1
    BY <1>1, <2>1, <2>2
  <2> QED BY <2>1, <2>2, <2>6, <2>7, <2>8, <2>9, Zenon DEF Bounded
<1> QED BY <1>2, <1>3, Zenon

LEMMA SettingsStep ==
    ASSUME Record, NEW s \in SettingsIn, SetSettings(s)
    PROVE  Record' /\ Evolves /\ Bounded'
<1>1. DOMAIN s = {"level", "dest", "entries", "bytes"} /\ s.entries \in Int
  BY SettingsAssumption, Zenon
<1>2. Normalized(s).entries \in Nat
  BY <1>1, LogBounds DEF Normalized
<1>3. /\ settings' = Normalized(s) /\ Evict(entries, bytes, Normalized(s)) /\ next' = next
  BY Zenon DEF SetSettings
<1>4. Sorted(entries, next)
  BY Zenon DEF Record
<1>5. /\ Sorted(entries', next)
      /\ \A k \in DOMAIN entries' : \E j \in DOMAIN entries : entries'[k] = entries[j]
      /\ Normalized(s).entries \in Nat => Len(entries') <= Normalized(s).entries
  BY <1>3, <1>4, EvictKeepsOrder, Zenon
<1>6. Record'
  BY <1>3, <1>5, Zenon DEF Record
<1>7. Evolves
  BY <1>3, <1>5, Zenon DEF Evolves, SameEntry
<1>8. Bounded'
  BY <1>2, <1>3, <1>5, Zenon DEF Bounded
<1> QED BY <1>6, <1>7, <1>8, Zenon

LEMMA ClearStep ==
    ASSUME Record, Bounded, Clear
    PROVE  Record' /\ Evolves /\ Bounded'
<1>1. entries' = << >> /\ next' = next /\ settings' = settings
  BY Zenon DEF Clear
<1>2. DOMAIN entries' = {} /\ entries' \in Seq(Entry) /\ Len(entries') = 0
  BY <1>1
<1>3. Record'
  <2>1. Sorted(entries', next)
    BY <1>2, Zenon DEF Record, Sorted
  <2> QED BY <1>1, <2>1, Zenon DEF Record
<1>4. Evolves
  BY <1>1, <1>2, Zenon DEF Evolves
<1>5. Bounded'
  BY <1>1, <1>2 DEF Bounded
<1> QED BY <1>3, <1>4, <1>5, Zenon

-----------------------------------------------------------------------------
(***************************************************************************)
(* The paging client.                                                      *)
(***************************************************************************)

\* Pages that were whole stay so: what is written has a number above all of
\* those that were there.
LEMMA PagingKept ==
    ASSUME Record, Paging, Evolves, page' = page
    PROVE  Paging'
<1>1. next \in Nat /\ next' \in Nat /\ next <= next'
  BY DEF Record, Sorted, Evolves
<1>2. \A k \in DOMAIN entries' : entries'[k].seq \in page.since =>
         \E j \in DOMAIN entries : SameEntry(entries'[k], entries[j])
  <2>1. next \notin page.since
    BY <1>1 DEF Paging
  <2> QED BY <2>1, Zenon DEF Evolves
<1>3. \A n \in page.since : n < next'
  BY <1>1 DEF Paging
<1>4. \A d, e : SameEntry(d, e) => (Match(page.filter, d) <=> Match(page.filter, e)) /\ d.seq = e.seq
  BY Zenon DEF SameEntry, Match
<1>5. ASSUME NEW k \in DOMAIN entries', entries'[k].seq \in page.since
      PROVE  Match(page.filter, entries'[k])
  <2>1. PICK j \in DOMAIN entries : SameEntry(entries'[k], entries[j])
    BY <1>2, <1>5, Zenon
  <2>2. entries[j].seq \in page.since
    BY <1>4, <1>5, <2>1, Zenon
  <2>3. Match(page.filter, entries[j])
    BY <2>2, Zenon DEF Paging
  <2> QED BY <1>4, <2>1, <2>3, Zenon
<1>6. ASSUME page.at # -1, NEW k \in DOMAIN entries',
             entries'[k].seq \in page.since, page.at <= entries'[k].seq
      PROVE  HasRead(entries'[k].seq)
  <2>1. PICK j \in DOMAIN entries : SameEntry(entries'[k], entries[j])
    BY <1>2, <1>6, Zenon
  <2>2. entries[j].seq = entries'[k].seq
    BY <1>4, <2>1, Zenon
  <2>3. HasRead(entries[j].seq)
    BY <1>6, <2>2, Zenon DEF Paging
  <2> QED BY <2>2, <2>3, Zenon
<1>7. ASSUME page.at = -1, NEW k \in DOMAIN entries', entries'[k].seq \in page.since
      PROVE  \E j \in DOMAIN page.read : entries'[k].seq \in page.read[j]
  <2>1. PICK i \in DOMAIN entries : SameEntry(entries'[k], entries[i])
    BY <1>2, <1>7, Zenon
  <2>2. entries[i].seq = entries'[k].seq
    BY <1>4, <2>1, Zenon
  <2> QED BY <1>7, <2>2, Zenon DEF Paging, PagesAreWhole
<1>8. PagesAreWhole'
  BY <1>7, Zenon DEF Paging, PagesAreWhole
<1> QED BY <1>3, <1>5, <1>6, <1>8, Zenon DEF Paging, HasRead, Match

\* A page takes the newest of what is left to read.
LEMMA PageTaken ==
    ASSUME Record, NEW all \in SUBSET (DOMAIN entries)
    PROVE  LET taken == Newest(all)
           IN  /\ taken \subseteq all
               /\ \A k \in taken, j \in all : k < j => j \in taken
               /\ all # {} => taken # {}
               /\ taken # {} => Oldest(taken) \in taken /\ \A j \in taken : Oldest(taken) <= j
<1> DEFINE taken == Newest(all)
           above(k) == {j \in all : j > k}
<1>1. Len(entries) \in Nat /\ DOMAIN entries = 1 .. Len(entries)
  BY DEF Record, Sorted
<1>2. all \in SUBSET (0 .. Len(entries)) /\ all \in SUBSET Nat
  BY <1>1
<1>3. taken = {k \in all : Cardinality(above(k)) < PageLimit}
  BY Zenon DEF Newest
<1>4. \A k \in all : IsFiniteSet(above(k)) /\ Cardinality(above(k)) \in Nat
  <2>1. IsFiniteSet(0 .. Len(entries))
    BY <1>1, FS_Interval
  <2>2. \A k \in all : above(k) \in SUBSET (0 .. Len(entries))
    BY <1>2, Zenon
  <2> HIDE DEF above
  <2> QED BY <2>1, <2>2, FS_Subset, FS_CardinalityType, Zenon
<1>5. PageLimit \in Nat \ {0}
  BY LogBounds, Zenon
<1>6. ASSUME NEW k \in taken, NEW j \in all, k < j
      PROVE  j \in taken
  <2>1. k \in all /\ Cardinality(above(k)) < PageLimit
    BY <1>3, <1>6, Zenon
  <2>2. above(j) \in SUBSET above(k)
    BY <1>2, <1>6, <2>1
  <2>3. Cardinality(above(j)) <= Cardinality(above(k))
    <3> HIDE DEF above
    <3> QED BY <1>4, <2>1, <2>2, FS_Subset, Zenon
  <2>4. Cardinality(above(j)) < PageLimit
    <3> HIDE DEF above
    <3> QED BY <1>4, <1>5, <2>1, <2>3
  <2> QED BY <1>3, <2>4, Zenon
<1>7. ASSUME all # {}
      PROVE  taken # {}
  <2>1. PICK k \in all : \A j \in all : j <= k
    BY <1>1, <1>2, <1>7, Greatest, Zenon
  <2>2. above(k) = {}
    BY <1>2, <2>1
  <2>3. Cardinality(above(k)) = 0
    <3> HIDE DEF above
    <3> QED BY <2>2, FS_EmptySet, Zenon
  <2>4. 0 < PageLimit
    BY <1>5
  <2> QED BY <1>3, <2>3, <2>4, Zenon
<1>8. ASSUME taken # {}
      PROVE  Oldest(taken) \in taken /\ \A j \in taken : Oldest(taken) <= j
  <2>1. taken \in SUBSET Nat
    BY <1>2, <1>3, Zenon
  <2> HIDE DEF taken
  <2>2. \E k \in taken : \A j \in taken : k <= j
    BY <1>8, <2>1, Least, Zenon
  <2> QED BY <2>2, Zenon DEF Oldest
<1>9. taken \subseteq all
  BY <1>3, Zenon
<1> QED BY <1>6, <1>7, <1>8, <1>9, Zenon

\* One more page, of the numbers S, after the pages R.
LEMMA PageAdded ==
    ASSUME NEW R \in Seq(SUBSET Nat), NEW S \in SUBSET Nat, NEW read, read = Append(R, S)
    PROVE  /\ read \in Seq(SUBSET Nat)
           /\ \A j \in DOMAIN read : read[j] = S \/ \E i \in DOMAIN R : read[j] = R[i]
           /\ \A n : (n \in S \/ \E i \in DOMAIN R : n \in R[i]) => \E j \in DOMAIN read : n \in read[j]
           /\ \A j, k \in DOMAIN read : j < k =>
                 /\ j \in DOMAIN R /\ read[j] = R[j]
                 /\ read[k] = S \/ (k \in DOMAIN R /\ read[k] = R[k])
<1>1. /\ read \in Seq(SUBSET Nat) /\ Len(R) \in Nat /\ Len(read) = Len(R) + 1
      /\ DOMAIN R = 1 .. Len(R) /\ DOMAIN read = 1 .. Len(R) + 1 /\ read[Len(R) + 1] = S
      /\ \A j \in DOMAIN R : read[j] = R[j]
  OBVIOUS
<1>2. \A j \in DOMAIN read : j = Len(R) + 1 \/ j \in DOMAIN R
  BY <1>1
<1>3. Len(R) + 1 \in DOMAIN read /\ \A j \in DOMAIN R : j \in DOMAIN read
  BY <1>1
<1>4. \A j, k \in DOMAIN read : j < k => j \in DOMAIN R
  BY <1>1
<1> QED BY <1>1, <1>2, <1>3, <1>4, Zenon

LEMMA QueryStep ==
    ASSUME Record, Paging, NEW f \in Filters, NEW first \in BOOLEAN, QueryLogs(f, first)
    PROVE  Paging'
<1> DEFINE before == IF first THEN 0 ELSE page.at
           all == Older(f, before)
           taken == Newest(all)
           S == Seqs(taken)
<1>1. /\ entries' = entries /\ next' = next
  BY Zenon DEF QueryLogs, logVars
<1>2. /\ \A k \in DOMAIN entries : entries[k].seq \in Nat \ {0} /\ entries[k].seq < next
      /\ \A k \in DOMAIN entries : k \in Nat
      /\ \A j, k \in DOMAIN entries : j < k => entries[j].seq < entries[k].seq
      /\ next \in Nat
  <2>1. \A k \in DOMAIN entries : entries[k] \in Entry /\ k \in Nat
    BY DEF Record, Sorted
  <2> QED BY <2>1, EntryFields, Zenon DEF Record, Sorted
<1>3. all \in SUBSET (DOMAIN entries) /\ all \subseteq Matching(f)
  BY Zenon DEF Older, Matching
<1>4. /\ taken \subseteq all
      /\ \A k \in taken, j \in all : k < j => j \in taken
      /\ all # {} => taken # {}
      /\ taken # {} => Oldest(taken) \in taken /\ \A j \in taken : Oldest(taken) <= j
  <2> HIDE DEF all
  <2> QED BY <1>3, PageTaken, Zenon
<1> DEFINE b == IF taken = all THEN 0 ELSE entries[Oldest(taken)].seq
           at == IF b = 0 THEN -1 ELSE b
           R == IF first THEN << >> ELSE page.read
           since == IF first THEN Seqs(Matching(f)) ELSE page.since
<1>5. /\ page' = [at |-> at, filter |-> f, read |-> Append(R, S), since |-> since]
      /\ first \/ (page.at # -1 /\ f = page.filter)
  <2>1. Query(f, before) = [places |-> taken, before |-> b]
    BY Zenon DEF Query
  <2>2. Query(f, before).places = taken /\ Query(f, before).before = b
    BY <2>1
  <2> HIDE DEF taken, all, b
  <2>3. /\ page' = IF first THEN [at |-> at, filter |-> f, read |-> <<S>>, since |-> Seqs(Matching(f))]
                   ELSE [page EXCEPT !.at = at, !.read = Append(@, S)]
        /\ first \/ (page.at # -1 /\ f = page.filter)
    BY <2>2, Zenon DEF QueryLogs
  <2>4. page = [at |-> page.at, filter |-> page.filter, read |-> page.read, since |-> page.since]
    BY Zenon DEF Paging
  <2> HIDE DEF at, S
  <2>5. Append(<< >>, S) = <<S>>
    OBVIOUS
  <2>6. CASE first
    BY <2>3, <2>5, <2>6, Zenon
  <2>7. CASE ~first
    <3>1. page' = [page EXCEPT !.at = at, !.read = Append(page.read, S)] /\ f = page.filter
      BY <2>3, <2>7, Zenon
    <3>2. page' = [at |-> at, filter |-> page.filter, read |-> Append(page.read, S), since |-> page.since]
      BY <2>4, <3>1, Zenon
    <3>3. R = page.read /\ since = page.since
      BY <2>7, Zenon
    <3> HIDE DEF R, since
    <3> QED BY <2>7, <2>3, <3>1, <3>2, <3>3, Zenon
  <2> QED BY <2>6, <2>7, Zenon
<1>6. /\ at = -1 \/ at \in Nat \ {0}
      /\ \A k \in all : k \in taken \/ (at # -1 /\ entries[k].seq < at)
      /\ at # -1 => /\ \A k \in taken : at <= entries[k].seq
                    /\ \E k \in all : at = entries[k].seq
  <2>1. CASE taken = all
    <3>1. at = -1
      BY <2>1, Zenon
    <3> HIDE DEF at
    <3> QED BY <2>1, <3>1, Zenon
  <2>2. CASE taken # all
    <3>1. Oldest(taken) \in taken /\ \A j \in taken : Oldest(taken) <= j
      BY <1>4, <2>2, Zenon
    <3>2. Oldest(taken) \in DOMAIN entries /\ Oldest(taken) \in all
      BY <1>3, <1>4, <3>1, Zenon
    <3>3. b = entries[Oldest(taken)].seq
      BY <2>2, Zenon
    <3>4. at = entries[Oldest(taken)].seq /\ at \in Nat \ {0}
      BY <1>2, <3>2, <3>3, Zenon
    <3> HIDE DEF at, b
    <3>5. at # -1
      BY <3>4
    <3>6. PICK o \in taken : o = Oldest(taken) /\ o \in all /\ o \in DOMAIN entries
      BY <3>1, <3>2, Zenon
    <3> HIDE DEF taken, all
    <3>7. ASSUME NEW k \in all, k \notin taken
          PROVE  entries[k].seq < at
      <4>1. k \in DOMAIN entries /\ k \in Nat /\ o \in Nat
        BY <1>2, <1>3, <3>6, Zenon
      <4>2. ~(o < k) /\ o # k
        BY <1>4, <3>6, <3>7, Zenon
      <4>3. k < o
        BY <4>1, <4>2
      <4> QED BY <1>2, <3>4, <3>6, <4>1, <4>3, Zenon
    <3>8. ASSUME NEW k \in taken
          PROVE  at <= entries[k].seq
      <4>1. k \in DOMAIN entries /\ k \in Nat /\ o \in Nat
        BY <1>2, <1>3, <1>4, <3>6, Zenon
      <4>2. o <= k
        BY <3>1, <3>6, Zenon
      <4>3. o = k \/ o < k
        BY <4>1, <4>2
      <4>4. entries[o].seq = entries[k].seq \/ entries[o].seq < entries[k].seq
        BY <1>2, <3>6, <4>1, <4>3, Zenon
      <4>5. entries[o].seq \in Nat /\ entries[k].seq \in Nat
        BY <1>2, <3>6, <4>1, Zenon
      <4>6. entries[o].seq <= entries[k].seq
        BY <4>4, <4>5
      <4> QED BY <3>4, <3>6, <4>6, Zenon
    <3> QED BY <3>4, <3>5, <3>6, <3>7, <3>8, Zenon
  <2> QED BY <2>1, <2>2, Zenon
<1>7. /\ R \in Seq(SUBSET Nat) /\ since \in SUBSET Nat
      /\ \A j, k \in DOMAIN R : j < k => \A m \in R[j], n \in R[k] : n < m
      /\ \A n \in since : n < next
      /\ \A j \in DOMAIN R : \A n \in R[j] : \A k \in all : entries[k].seq < n
      /\ \A k \in DOMAIN entries : entries[k].seq \in since =>
            /\ Match(f, entries[k])
            /\ k \in all \/ \E j \in DOMAIN R : entries[k].seq \in R[j]
  <2>1. CASE first
    <3>1. /\ R = << >> /\ since = Seqs(Matching(f)) /\ before = 0
      BY <2>1, Zenon
    <3>2. all = Matching(f)
      BY <3>1, Zenon DEF Older
    <3> HIDE DEF all, before, R, since
    <3>3. R \in Seq(SUBSET Nat) /\ DOMAIN R = {}
      BY <3>1
    <3>4. since \in SUBSET Nat /\ \A n \in since : n < next
      BY <1>2, <3>1, Zenon DEF Seqs, Matching
    <3>5. ASSUME NEW k \in DOMAIN entries, entries[k].seq \in since
          PROVE  k \in Matching(f)
      <4>1. PICK j \in Matching(f) : entries[k].seq = entries[j].seq
        BY <3>1, <3>5, Zenon DEF Seqs
      <4>2. j \in DOMAIN entries /\ j \in Nat /\ k \in Nat
        BY <1>2, Zenon DEF Matching
      <4>3. ~(j < k) /\ ~(k < j)
        <5>1. entries[k].seq \in Nat
          BY <1>2, Zenon
        <5>2. ~(entries[k].seq < entries[k].seq)
          BY <5>1
        <5> QED BY <1>2, <4>1, <4>2, <5>2, Zenon
      <4>4. j = k
        BY <4>2, <4>3
      <4> QED BY <4>4, Zenon
    <3> QED BY <3>2, <3>3, <3>4, <3>5, Zenon DEF Matching
  <2>2. CASE ~first
    <3>1. /\ R = page.read /\ since = page.since /\ before = page.at /\ f = page.filter
          /\ page.at # -1 /\ page.at \in Nat \ {0}
      BY <1>5, <2>2, Zenon DEF Paging
    <3>2. all = {k \in Matching(f) : entries[k].seq < page.at}
      BY <3>1, Zenon DEF Older
    <3> HIDE DEF all, before, R, since
    <3>3. \A j \in DOMAIN R : \A n \in R[j] : n \in Nat /\ page.at <= n
      BY <3>1 DEF Paging
    <3>4. \A j \in DOMAIN R : \A n \in R[j] : \A k \in all : entries[k].seq < n
      BY <1>2, <1>3, <3>1, <3>2, <3>3
    <3>5. ASSUME NEW k \in DOMAIN entries, entries[k].seq \in since
          PROVE  /\ Match(f, entries[k])
                 /\ k \in all \/ \E j \in DOMAIN R : entries[k].seq \in R[j]
      <4>1. Match(f, entries[k])
        BY <3>1, <3>5, Zenon DEF Paging
      <4>2. entries[k].seq < page.at \/ page.at <= entries[k].seq
        BY <1>2, <3>1
      <4> QED BY <3>1, <3>2, <3>5, <4>1, <4>2, Zenon DEF Paging, HasRead, Matching
    <3>6. \A j, k \in DOMAIN R : j < k => \A m \in R[j], n \in R[k] : n < m
      BY <3>1, Zenon DEF Paging, PagesAreWhole
    <3> QED BY <3>1, <3>4, <3>5, <3>6, Zenon DEF Paging
  <2> QED BY <2>1, <2>2, Zenon
<1>8. PICK read : read = Append(R, S)
  BY Zenon
<1>9. S \in SUBSET Nat /\ \A n \in S : \E k \in taken : n = entries[k].seq
  BY <1>2, <1>3, <1>4, Zenon DEF Seqs
<1>10. \A k \in taken : entries[k].seq \in S
  BY Zenon DEF Seqs
<1> HIDE DEF all, taken, S, R, since, at, b, before
<1>11. /\ read \in Seq(SUBSET Nat)
       /\ \A j \in DOMAIN read : read[j] = S \/ \E i \in DOMAIN R : read[j] = R[i]
       /\ \A n : (n \in S \/ \E i \in DOMAIN R : n \in R[i]) => \E j \in DOMAIN read : n \in read[j]
       /\ \A j, k \in DOMAIN read : j < k =>
             /\ j \in DOMAIN R /\ read[j] = R[j]
             /\ read[k] = S \/ (k \in DOMAIN R /\ read[k] = R[k])
  BY <1>7, <1>8, <1>9, PageAdded
<1>12. page' = [at |-> at, filter |-> f, read |-> read, since |-> since]
  BY <1>5, <1>8, Zenon
<1>13. page'.at = at /\ page'.filter = f /\ page'.read = read /\ page'.since = since
  BY <1>12, Zenon
<1>14. ASSUME NEW j \in DOMAIN read, NEW k \in DOMAIN read, j < k,
              NEW m \in read[j], NEW n \in read[k]
       PROVE  n < m
  <2>1. j \in DOMAIN R /\ m \in R[j]
    BY <1>11, <1>14, Zenon
  <2>2. CASE read[k] = S
    <3>1. PICK x \in taken : n = entries[x].seq
      BY <1>9, <1>14, <2>2, Zenon
    <3> QED BY <1>4, <1>7, <2>1, <3>1, Zenon
  <2>3. CASE k \in DOMAIN R /\ read[k] = R[k]
    BY <1>7, <1>14, <2>1, <2>3, Zenon
  <2> QED BY <1>11, <1>14, <2>2, <2>3, Zenon
<1>15. ASSUME at = -1, NEW k \in DOMAIN entries, entries[k].seq \in since
       PROVE  \E j \in DOMAIN read : entries[k].seq \in read[j]
  BY <1>6, <1>7, <1>10, <1>11, <1>15, Zenon
<1>16. ASSUME at # -1, NEW j \in DOMAIN read, NEW n \in read[j]
       PROVE  at <= n
  <2>1. CASE n \in S
    BY <1>6, <1>9, <1>16, <2>1, Zenon
  <2>2. CASE n \notin S
    <3>1. PICK i \in DOMAIN R : n \in R[i]
      BY <1>11, <1>16, <2>2, Zenon
    <3>2. at < n
      BY <1>6, <1>7, <1>16, <3>1, Zenon
    <3>3. at \in Nat /\ n \in Nat
      BY <1>6, <1>7, <1>16, <3>1
    <3> QED BY <3>2, <3>3
  <2> QED BY <2>1, <2>2, Zenon
<1>17. ASSUME at # -1, NEW k \in DOMAIN entries, entries[k].seq \in since, at <= entries[k].seq
       PROVE  \E j \in DOMAIN read : entries[k].seq \in read[j]
  <2>1. at \in Nat /\ entries[k].seq \in Nat
    BY <1>2, <1>6, <1>17, Zenon
  <2>2. ~(entries[k].seq < at)
    BY <1>17, <2>1
  <2> QED BY <1>6, <1>7, <1>10, <1>11, <1>17, <2>2, Zenon
<1>18. PagesAreWhole'
  BY <1>1, <1>13, <1>14, <1>15, Zenon DEF PagesAreWhole
<1>19. page'.at # -1 =>
          /\ \A j \in DOMAIN page'.read : \A n \in page'.read[j] : page'.at <= n
          /\ \A k \in DOMAIN entries' :
                entries'[k].seq \in page'.since /\ page'.at <= entries'[k].seq =>
                   \E j \in DOMAIN page'.read : entries'[k].seq \in page'.read[j]
  BY <1>1, <1>13, <1>16, <1>17, Zenon
<1>20. \A k \in DOMAIN entries' : entries'[k].seq \in page'.since => Match(page'.filter, entries'[k])
  BY <1>1, <1>7, <1>13, Zenon
<1>21. /\ page' = [at |-> page'.at, filter |-> page'.filter, read |-> page'.read, since |-> page'.since]
       /\ page'.read \in Seq(SUBSET Nat) /\ page'.since \in SUBSET Nat
       /\ page'.at = -1 \/ page'.at \in Nat \ {0}
       /\ \A n \in page'.since : n < next'
  BY <1>1, <1>6, <1>7, <1>11, <1>12, <1>13, Zenon
<1> QED BY <1>18, <1>19, <1>20, <1>21, Zenon DEF Paging, HasRead, Match

-----------------------------------------------------------------------------
(***************************************************************************)
(* The following client.                                                   *)
(***************************************************************************)

\* What matches after a step matched before it or is new.
LEMMA EvolvesMatch ==
    ASSUME Evolves, NEW f, NEW k \in DOMAIN entries', Match(f, entries'[k])
    PROVE  \/ \E j \in Matching(f) : entries[j].seq = entries'[k].seq
           \/ entries'[k].seq = next /\ next' = next + 1
<1>1. CASE \E j \in DOMAIN entries : SameEntry(entries'[k], entries[j])
  <2>1. PICK j \in DOMAIN entries : SameEntry(entries'[k], entries[j])
    BY <1>1, Zenon
  <2>2. Match(f, entries[j]) /\ entries[j].seq = entries'[k].seq
    BY <2>1, Zenon DEF SameEntry, Match
  <2> QED BY <2>2, Zenon DEF Matching
<1> QED BY <1>1, Zenon DEF Evolves

LEMMA Numbers ==
    ASSUME Record, Channel
    PROVE  /\ next \in Nat /\ last \in Nat
           /\ \A k \in DOMAIN entries : entries[k] \in Entry /\ entries[k].seq \in Nat \ {0} /\ k \in Nat
           /\ hand # Nothing => hand.seq \in Nat
           /\ \A k \in DOMAIN watch.replay : watch.replay[k].seq \in Nat
           /\ \A k \in DOMAIN watch.buf : watch.buf[k] \in Entry /\ watch.buf[k].seq \in Nat
           /\ \A n : InChannel(n) => n \in Nat
<1>1. \A k \in DOMAIN entries : entries[k] \in Entry /\ k \in Nat
  BY DEF Record, Sorted
<1>2. \A k \in DOMAIN watch.buf : watch.buf[k] \in Entry
  BY DEF Channel
<1>3. next \in Nat
  BY Zenon DEF Record, Sorted
<1> QED BY <1>1, <1>2, <1>3, EntryFields, Zenon DEF Channel, InChannel, InReplay, InBuf

\* A step of the record that leaves the stream alone.
LEMMA FollowSame ==
    ASSUME Record, Channel, InOrder, Following, Evolves, next' = next,
           UNCHANGED <<watch, hand, last, got>>
    PROVE  Channel' /\ InOrder' /\ Following'
<1>1. watch' = watch /\ hand' = hand /\ last' = last /\ got' = got
  BY Zenon
<1>2. next # next + 1
  BY DEF Record, Sorted
<1>3. \A k \in Matching(watch.filter)' : \E j \in Matching(watch.filter) : entries[j].seq = entries'[k].seq
  <2> SUFFICES ASSUME NEW k \in DOMAIN entries', Match(watch.filter, entries'[k])
               PROVE  \E j \in Matching(watch.filter) : entries[j].seq = entries'[k].seq
    BY <1>1, Zenon DEF Matching, Match
  <2> QED BY <1>2, EvolvesMatch, Zenon
<1>4. Channel'
  BY <1>1, Zenon DEF Channel
<1>5. InOrder'
  BY <1>1, Zenon DEF InOrder, InChannel, InReplay, InBuf
<1>6. \A n : Coming(n) <=> (Coming(n))'
  BY <1>1, Zenon DEF Coming, InChannel, InReplay, InBuf
<1>7. (watch.on => \A k \in Matching(watch.filter) : last < entries[k].seq => Coming(entries[k].seq))'
  BY <1>1, <1>3, <1>6, Zenon DEF Following
<1>8. NothingSkipped'
  BY <1>1, <1>3, Zenon DEF Following, NothingSkipped
<1>9. (watch.on /\ watch.lost > 0 /\ hand = Nothing => ~(Waiting(watch) < watch.cap))'
  BY <1>1, Zenon DEF Following, Waiting
<1> QED BY <1>4, <1>5, <1>7, <1>8, <1>9, Zenon DEF Following

\* A write: the entry does not concern the stream, is queued, or is lost.
LEMMA WriteFollowed ==
    ASSUME Record, Channel, InOrder, Following, Evolves,
           NEW e \in Entry, Notify(e), e.seq = next' - 1,
           \A k \in DOMAIN entries' : entries'[k].seq = e.seq => SameEntry(entries'[k], e),
           \/ e.seq = next /\ next' = next + 1
           \/ next' = next /\ \E k \in DOMAIN entries : SameEntry(e, entries[k]),
           UNCHANGED <<hand, last, got>>
    PROVE  Channel' /\ InOrder' /\ Following'
<1>1. hand' = hand /\ last' = last /\ got' = got
  BY Zenon
<1>2. /\ next \in Nat /\ next' \in Nat /\ last \in Nat /\ e.seq \in Nat
      /\ \A n \in Nat : n < next => n < next' /\ n <= e.seq
      /\ e.seq < next' /\ last < next' /\ last <= e.seq /\ ~(next <= last)
      /\ next' = next + 1 => e.seq = next
  <2>1. e.seq \in Nat /\ next \in Nat /\ last \in Nat /\ last < next
    BY EntryFields, Numbers, Zenon DEF Channel
  <2>2. (e.seq = next /\ next' = next + 1) \/ (e.seq = next - 1 /\ next' = next)
    BY Zenon
  <2>3. \A n \in Nat : n < next => n < next' /\ n <= e.seq
    BY <2>1, <2>2
  <2>4. next' \in Nat /\ e.seq < next' /\ ~(next <= last) /\ (next' = next + 1 => e.seq = next)
    BY <2>1, <2>2
  <2> QED BY <2>1, <2>3, <2>4, Zenon
\* What matches now is what matched before, or the new entry.
<1>3. ASSUME NEW k \in DOMAIN entries', Match(watch.filter, entries'[k])
      PROVE  \/ \E j \in Matching(watch.filter) : entries[j].seq = entries'[k].seq
             \/ entries'[k].seq = e.seq /\ e.seq = next /\ Match(watch.filter, e)
  <2>1. CASE entries'[k].seq = next /\ next' = next + 1
    <3>1. entries'[k].seq = e.seq /\ e.seq = next
      BY <1>2, <2>1, Zenon
    <3>2. SameEntry(entries'[k], e)
      BY <3>1, Zenon
    <3> QED BY <1>3, <3>1, <3>2, Zenon DEF SameEntry, Match
  <2> QED BY <1>3, <2>1, EvolvesMatch, Zenon
<1>4. watch'.filter = watch.filter /\ watch'.on = watch.on
  <2>1. watch = [on |-> watch.on, filter |-> watch.filter, replay |-> watch.replay,
                 buf |-> watch.buf, cap |-> watch.cap, lost |-> watch.lost]
    BY Zenon DEF Channel
  <2> QED BY <2>1, Zenon DEF Notify
<1>5. NothingSkipped'
  <2>1. \A k \in Matching(watch.filter)' : k \in DOMAIN entries' /\ Match(watch.filter, entries'[k])
    BY <1>4, Zenon DEF Matching, Match
  <2> QED BY <1>1, <1>2, <1>3, <2>1, Zenon DEF Following, NothingSkipped
<1>6. CASE watch' = watch /\ (~watch.on \/ ~Match(watch.filter, e))
  <2>1. Channel'
    BY <1>1, <1>2, <1>6, Zenon DEF Channel
  <2>2. InOrder'
    <3>1. \A n \in Nat : InChannel(n)' <=> InChannel(n)
      BY <1>6, Zenon DEF InChannel, InReplay, InBuf
    <3>2. hand # Nothing => hand.seq \in Nat
      BY Numbers, Zenon
    <3> QED BY <1>1, <1>2, <1>6, <3>1, <3>2, Zenon DEF InOrder
  <2>3. \A n : Coming(n) <=> (Coming(n))'
    BY <1>1, <1>6, Zenon DEF Coming, InChannel, InReplay, InBuf
  <2>4. (watch.on => \A k \in Matching(watch.filter) : last < entries[k].seq => Coming(entries[k].seq))'
    <3> SUFFICES ASSUME watch.on, NEW k \in DOMAIN entries', Match(watch.filter, entries'[k]),
                        last < entries'[k].seq
                 PROVE  Coming(entries'[k].seq)
      BY <1>1, <1>6, <2>3, Zenon DEF Matching, Match
    <3> QED BY <1>3, <1>6, Zenon DEF Following
  <2>5. (watch.on /\ watch.lost > 0 /\ hand = Nothing => ~(Waiting(watch) < watch.cap))'
    BY <1>1, <1>6, Zenon DEF Following, Waiting
  <2> QED BY <1>5, <2>1, <2>2, <2>4, <2>5, Zenon DEF Following
<1>7. CASE /\ watch.on /\ Match(watch.filter, e) /\ Waiting(watch) < watch.cap
           /\ watch' = [watch EXCEPT !.buf = Append(@, e)]
  <2>1. /\ watch' = [on |-> watch.on, filter |-> watch.filter, replay |-> watch.replay,
                     buf |-> watch'.buf, cap |-> watch.cap, lost |-> watch.lost]
        /\ watch'.replay = watch.replay /\ watch'.lost = watch.lost
        /\ watch'.buf = Append(watch.buf, e) /\ watch'.cap = watch.cap
    <3>1. watch = [on |-> watch.on, filter |-> watch.filter, replay |-> watch.replay,
                   buf |-> watch.buf, cap |-> watch.cap, lost |-> watch.lost]
      BY Zenon DEF Channel
    <3> QED BY <1>7, <3>1, Zenon
  <2>2. /\ watch'.buf \in Seq(Entry)
        /\ \A k \in DOMAIN watch'.buf : watch'.buf[k] = e \/ (k \in DOMAIN watch.buf /\ watch'.buf[k] = watch.buf[k])
        /\ \A k \in DOMAIN watch.buf : k \in DOMAIN watch'.buf /\ watch'.buf[k] = watch.buf[k]
        /\ \E k \in DOMAIN watch'.buf : watch'.buf[k] = e
        /\ \A j, k \in DOMAIN watch'.buf : j < k => j \in DOMAIN watch.buf
    <3>1. watch.buf \in Seq(Entry)
      BY Zenon DEF Channel
    <3>2. /\ watch'.buf \in Seq(Entry) /\ Len(watch.buf) \in Nat
          /\ DOMAIN watch.buf = 1 .. Len(watch.buf) /\ DOMAIN watch'.buf = 1 .. Len(watch.buf) + 1
          /\ watch'.buf[Len(watch.buf) + 1] = e
          /\ \A k \in DOMAIN watch.buf : watch'.buf[k] = watch.buf[k]
      BY <2>1, <3>1
    <3>3. /\ \A k \in DOMAIN watch'.buf : k = Len(watch.buf) + 1 \/ k \in DOMAIN watch.buf
          /\ \A k \in DOMAIN watch.buf : k \in DOMAIN watch'.buf
          /\ Len(watch.buf) + 1 \in DOMAIN watch'.buf
          /\ \A j, k \in DOMAIN watch'.buf : j < k => j \in DOMAIN watch.buf
      BY <3>2
    <3> QED BY <3>2, <3>3, Zenon
  <2>3. \A n : InChannel(n)' <=> InChannel(n) \/ n = e.seq
    BY <2>1, <2>2, Zenon DEF InChannel, InReplay, InBuf
  <2>4. hand = Nothing => ~(watch.lost > 0)
    BY <1>7, Zenon DEF Following
  <2>5. Channel'
    <3>1. watch' = [on |-> watch'.on, filter |-> watch'.filter, replay |-> watch'.replay,
                    buf |-> watch'.buf, cap |-> watch'.cap, lost |-> watch'.lost]
      BY <1>4, <2>1, Zenon
    <3> QED BY <1>1, <1>2, <1>4, <2>1, <2>2, <3>1, Zenon DEF Channel
  <2>6. /\ \A n \in Nat : InChannel(n) => n <= e.seq
        /\ hand # Nothing => hand.seq \in Nat /\ hand.seq < next' /\ hand.seq <= e.seq
    BY <1>2, Numbers, Zenon DEF InOrder
  <2>7. /\ \A k \in DOMAIN watch.replay : InChannel(watch.replay[k].seq) /\ watch.replay[k].seq \in Nat
        /\ \A k \in DOMAIN watch.buf : InChannel(watch.buf[k].seq) /\ watch.buf[k].seq \in Nat
    BY Numbers, Zenon DEF InChannel, InReplay, InBuf
  <2>8. InOrder'
    <3>1. \A n \in Nat : InChannel(n)' => last' <= n /\ n < next'
      BY <1>1, <1>2, <2>3, Zenon DEF InOrder
    <3>2. \A j \in DOMAIN watch'.replay, k \in DOMAIN watch'.buf : watch'.replay[j].seq <= watch'.buf[k].seq
      BY <2>1, <2>2, <2>6, <2>7, Zenon DEF InOrder
    <3>3. ASSUME NEW j \in DOMAIN watch'.buf, NEW k \in DOMAIN watch'.buf, j < k
          PROVE  watch'.buf[j].seq <= watch'.buf[k].seq
      <4>1. j \in DOMAIN watch.buf /\ watch'.buf[j] = watch.buf[j]
        BY <2>2, <3>3, Zenon
      <4> QED BY <2>2, <2>6, <2>7, <3>3, <4>1, Zenon DEF InOrder
    <3>4. hand' # Nothing => /\ last' <= hand'.seq /\ hand'.seq < next'
                             /\ \A n \in Nat : InChannel(n)' => hand'.seq <= n
      BY <1>1, <2>3, <2>6, Zenon DEF InOrder
    <3> QED BY <2>1, <3>1, <3>2, <3>3, <3>4, Zenon DEF InOrder
  <2>9. \A n : Coming(n) \/ n = e.seq => (Coming(n))'
    <3>1. ~(watch.lost > 0) <=> watch.lost = 0
      BY DEF Channel
    <3> QED BY <1>1, <2>1, <2>3, <2>4, <2>6, <3>1, Zenon DEF Coming
  <2>10. (watch.on => \A k \in Matching(watch.filter) : last < entries[k].seq => Coming(entries[k].seq))'
    <3> SUFFICES ASSUME NEW k \in DOMAIN entries', Match(watch.filter, entries'[k]), last < entries'[k].seq
                 PROVE  Coming(entries'[k].seq) \/ entries'[k].seq = e.seq
      BY <1>1, <1>4, <2>9, Zenon DEF Matching, Match
    <3> QED BY <1>3, <1>7, Zenon DEF Following
  <2>11. (watch.on /\ watch.lost > 0 /\ hand = Nothing => ~(Waiting(watch) < watch.cap))'
    BY <1>1, <2>1, <2>4, Zenon
  <2> QED BY <1>5, <2>5, <2>8, <2>10, <2>11, Zenon DEF Following
<1>8. CASE /\ watch.on /\ Match(watch.filter, e) /\ ~(Waiting(watch) < watch.cap)
           /\ watch' = [watch EXCEPT !.lost = @ + 1]
  <2>1. /\ watch' = [on |-> watch.on, filter |-> watch.filter, replay |-> watch.replay,
                     buf |-> watch.buf, cap |-> watch.cap, lost |-> watch.lost + 1]
        /\ watch'.replay = watch.replay /\ watch'.lost = watch.lost + 1
        /\ watch'.buf = watch.buf /\ watch'.cap = watch.cap
    <3>1. watch = [on |-> watch.on, filter |-> watch.filter, replay |-> watch.replay,
                   buf |-> watch.buf, cap |-> watch.cap, lost |-> watch.lost]
      BY Zenon DEF Channel
    <3> QED BY <1>8, <3>1, Zenon
  <2>2. watch'.lost \in Nat /\ watch'.lost > 0 /\ watch'.lost # 0
    BY <2>1 DEF Channel
  <2>3. \A n : InChannel(n)' <=> InChannel(n)
    BY <2>1, Zenon DEF InChannel, InReplay, InBuf
  <2>4. Channel'
    BY <1>1, <1>2, <2>1, <2>2, Zenon DEF Channel
  <2>5. hand # Nothing => hand.seq \in Nat /\ hand.seq < next' /\ hand.seq <= e.seq
    BY <1>2, Numbers, Zenon DEF InOrder
  <2>6. InOrder'
    BY <1>1, <1>2, <2>1, <2>3, <2>5, Zenon DEF InOrder
  <2>7. \A n : Coming(n) \/ (n = e.seq /\ e.seq = next) => (Coming(n))'
    BY <1>1, <2>1, <2>2, <2>3, <2>5, Zenon DEF Coming, InOrder
  <2>8. (watch.on => \A k \in Matching(watch.filter) : last < entries[k].seq => Coming(entries[k].seq))'
    <3> SUFFICES ASSUME NEW k \in DOMAIN entries', Match(watch.filter, entries'[k]), last < entries'[k].seq
                 PROVE  Coming(entries'[k].seq) \/ (entries'[k].seq = e.seq /\ e.seq = next)
      BY <1>1, <1>4, <2>7, Zenon DEF Matching, Match
    <3> QED BY <1>3, <1>8, Zenon DEF Following
  <2>9. (watch.on /\ watch.lost > 0 /\ hand = Nothing => ~(Waiting(watch) < watch.cap))'
    BY <1>8, <2>1, Zenon DEF Waiting
  <2> QED BY <1>5, <2>4, <2>6, <2>8, <2>9, Zenon DEF Following
<1> QED BY <1>6, <1>7, <1>8, Zenon DEF Notify

LEMMA WatchStep ==
    ASSUME Record, Channel, InOrder, Following, NEW f \in Filters, WatchLogs(f)
    PROVE  Channel' /\ InOrder' /\ Following'
<1> DEFINE places == {k \in Matching(f) : entries[k].seq > last}
<1>1. /\ hand' = hand /\ last' = last /\ got' = got /\ entries' = entries /\ next' = next
      /\ hand = Nothing
      /\ last > 0 => f = watch.filter
      /\ watch' = [on |-> TRUE, filter |-> f, replay |-> [k \in places |-> entries[k]],
                   buf |-> << >>, cap |-> Cardinality(places) + WatchBuffer, lost |-> 0]
  BY Zenon DEF WatchLogs, Channel, logVars
<1>2. /\ places \in SUBSET Nat
      /\ \A k \in places : entries[k] \in Entry /\ entries[k].seq \in Nat /\ k \in DOMAIN entries
                           /\ last < entries[k].seq /\ last <= entries[k].seq /\ entries[k].seq < next
  <2>1. \A k \in places : k \in DOMAIN entries /\ entries[k].seq > last
    BY Zenon DEF Matching
  <2>2. \A k \in places : entries[k] \in Entry /\ entries[k].seq \in Nat /\ k \in Nat /\ last \in Nat
    BY <2>1, Numbers, Zenon
  <2>3. \A a, b \in Nat : a > b => b < a /\ b <= a
    OBVIOUS
  <2> QED BY <2>1, <2>2, <2>3, Zenon DEF Record, Sorted
<1>3. \A k \in Matching(f) : last < entries[k].seq => k \in places
  <2>1. \A k \in Matching(f) : entries[k].seq \in Nat /\ last \in Nat
    BY Numbers, Zenon DEF Matching
  <2> QED BY <2>1, Zenon
<1> HIDE DEF places
<1>4. /\ watch'.replay = [k \in places |-> entries[k]] /\ watch'.buf = << >> /\ watch'.lost = 0
      /\ watch'.on = TRUE /\ watch'.filter = f
      /\ watch' = [on |-> watch'.on, filter |-> watch'.filter, replay |-> watch'.replay,
                   buf |-> watch'.buf, cap |-> watch'.cap, lost |-> watch'.lost]
  BY <1>1, Zenon
<1>5. /\ DOMAIN watch'.replay = places /\ \A k \in places : watch'.replay[k] = entries[k]
      /\ DOMAIN watch'.buf = {} /\ watch'.buf \in Seq(Entry) /\ 0 \in Nat /\ ~(0 > 0)
  BY <1>4
<1>6. \A n : InChannel(n)' <=> \E k \in places : entries[k].seq = n
  BY <1>5, Zenon DEF InChannel, InReplay, InBuf
<1>7. Channel'
  BY <1>1, <1>2, <1>4, <1>5, Zenon DEF Channel
<1>8. InOrder'
  <2>1. \A n \in Nat : InChannel(n)' => last' <= n /\ n < next'
    BY <1>1, <1>2, <1>6, Zenon
  <2>2. \A j, k \in DOMAIN watch'.replay : j < k => watch'.replay[j].seq < watch'.replay[k].seq
    BY <1>2, <1>5, Zenon DEF Record, Sorted
  <2> QED BY <1>1, <1>5, <2>1, <2>2, Zenon DEF InOrder
<1>9. (watch.on => \A k \in Matching(watch.filter) : last < entries[k].seq => Coming(entries[k].seq))'
  <2> SUFFICES ASSUME NEW k \in Matching(f), last < entries[k].seq
               PROVE  InChannel(entries[k].seq)'
    BY <1>1, <1>4, Zenon DEF Matching, Match, Coming
  <2> QED BY <1>1, <1>3, <1>6, Zenon
<1>10. NothingSkipped'
  <2>1. CASE last > 0
    BY <1>1, <1>4, <2>1, Zenon DEF Following, NothingSkipped, Matching, Match
  <2>2. CASE ~(last > 0)
    <3>1. \A k \in DOMAIN entries : ~(entries[k].seq <= last)
      BY <2>2, Numbers
    <3> QED BY <1>1, <3>1, Zenon DEF NothingSkipped, Matching
  <2> QED BY <2>1, <2>2, Zenon
<1>11. (watch.on /\ watch.lost > 0 /\ hand = Nothing => ~(Waiting(watch) < watch.cap))'
  BY <1>4, <1>5, Zenon
<1> QED BY <1>7, <1>8, <1>9, <1>10, <1>11, Zenon DEF Following

\* The first entry of the channel is taken in hand.
LEMMA Taken ==
    ASSUME Record, Channel, InOrder, Following, watch.on, hand = Nothing,
           NEW h \in Entry, hand' = h, InChannel(h.seq),
           \A n \in Nat : InChannel(n) => h.seq <= n,
           \A n : InChannel(n) => InChannel(n)' \/ n = h.seq,
           \A n : InChannel(n)' => InChannel(n),
           watch'.on = watch.on, watch'.filter = watch.filter, watch'.lost = watch.lost,
           UNCHANGED <<entries, next, last, got>>
    PROVE  /\ Following'
           /\ \A n \in Nat : InChannel(n)' => last' <= n /\ n < next'
           /\ hand' # Nothing => /\ last' <= hand'.seq /\ hand'.seq < next'
                                 /\ \A n \in Nat : InChannel(n)' => hand'.seq <= n
<1>1. entries' = entries /\ next' = next /\ last' = last /\ got' = got
  BY Zenon
<1>2. h.seq \in Nat /\ hand' # Nothing
  <2>1. h.seq \in Nat /\ h.seq # 0
    BY EntryFields, Zenon
  <2>2. Nothing.seq = 0
    BY Zenon DEF Nothing
  <2> QED BY <2>1, <2>2, Zenon
<1>3. last <= h.seq /\ h.seq < next
  BY <1>2, Zenon DEF InOrder
<1>4. ASSUME NEW n \in Nat, Coming(n)
      PROVE  (Coming(n))'
  <2>1. CASE InChannel(n)
    BY <1>2, <2>1, Zenon DEF Coming
  <2>2. CASE ~InChannel(n)
    <3>1. watch.lost > 0 /\ h.seq < n
      BY <1>2, <1>4, <2>2, Zenon DEF Coming
    <3>2. h.seq <= n /\ watch.lost # 0
      BY <1>2, <3>1 DEF Channel
    <3> QED BY <1>2, <3>2, Zenon DEF Coming
  <2> QED BY <2>1, <2>2, Zenon
<1>5. (watch.on => \A k \in Matching(watch.filter) : last < entries[k].seq => Coming(entries[k].seq))'
  <2> SUFFICES ASSUME NEW k \in Matching(watch.filter), last < entries[k].seq
               PROVE  entries[k].seq \in Nat /\ Coming(entries[k].seq)
    BY <1>1, <1>4, Zenon DEF Matching, Match
  <2> QED BY Numbers, Zenon DEF Following, Matching
<1>6. NothingSkipped'
  BY <1>1, Zenon DEF Following, NothingSkipped, Matching, Match
<1> QED BY <1>1, <1>2, <1>3, <1>5, <1>6, Zenon DEF Following, InOrder

LEMMA ReceiveStep ==
    ASSUME Record, Channel, InOrder, Following, Receive
    PROVE  Channel' /\ InOrder' /\ Following'
<1>1. /\ entries' = entries /\ next' = next /\ last' = last /\ got' = got
      /\ watch.on /\ hand = Nothing
  BY Zenon DEF Receive, logVars
<1>2. watch = [on |-> watch.on, filter |-> watch.filter, replay |-> watch.replay,
               buf |-> watch.buf, cap |-> watch.cap, lost |-> watch.lost]
  BY Zenon DEF Channel
<1>3. \A a, b \in Nat : a < b => a <= b
  OBVIOUS
<1>4. CASE \E k \in DOMAIN watch.replay :
              /\ \A j \in DOMAIN watch.replay : k <= j
              /\ hand' = watch.replay[k]
              /\ watch' = [watch EXCEPT !.replay = [j \in DOMAIN @ \ {k} |-> @[j]]]
  <2>1. PICK k \in DOMAIN watch.replay :
              /\ \A j \in DOMAIN watch.replay : k <= j
              /\ hand' = watch.replay[k]
              /\ watch' = [watch EXCEPT !.replay = [j \in (DOMAIN watch.replay) \ {k} |-> watch.replay[j]]]
    BY <1>4, Zenon
  <2>2. PICK left : left = [j \in (DOMAIN watch.replay) \ {k} |-> watch.replay[j]]
    BY Zenon
  <2>3. watch' = [watch EXCEPT !.replay = left]
    BY <2>1, <2>2, Zenon
  <2>4. /\ watch' = [on |-> watch'.on, filter |-> watch'.filter, replay |-> watch'.replay,
                     buf |-> watch'.buf, cap |-> watch'.cap, lost |-> watch'.lost]
        /\ watch'.on = watch.on /\ watch'.filter = watch.filter /\ watch'.lost = watch.lost
        /\ watch'.buf = watch.buf /\ watch'.replay = left
    BY <1>2, <2>3, Zenon
  <2>5. /\ DOMAIN watch'.replay = (DOMAIN watch.replay) \ {k}
        /\ \A j \in DOMAIN watch'.replay : watch'.replay[j] = watch.replay[j]
    BY <2>2, <2>4, Zenon
  <2>6. /\ DOMAIN watch.replay \in SUBSET Nat /\ watch.replay[k] \in Entry
        /\ \A j \in DOMAIN watch.replay : watch.replay[j].seq \in Nat
    BY Numbers, Zenon DEF Channel
  <2>7. /\ InChannel(watch.replay[k].seq)
        /\ \A n : InChannel(n) => InChannel(n)' \/ n = watch.replay[k].seq
        /\ \A n : InChannel(n)' => InChannel(n)
    BY <2>4, <2>5, Zenon DEF InChannel, InReplay, InBuf
  <2>8. ASSUME NEW n \in Nat, InChannel(n)
        PROVE  watch.replay[k].seq <= n
    <3>1. ASSUME NEW j \in DOMAIN watch.replay
          PROVE  watch.replay[k].seq <= watch.replay[j].seq
      <4>1. k = j \/ k < j
        BY <2>1, <2>6
      <4>2. watch.replay[k].seq = watch.replay[j].seq \/ watch.replay[k].seq < watch.replay[j].seq
        BY <4>1, Zenon DEF InOrder
      <4> QED BY <2>6, <4>2
    <3> QED BY <2>8, <3>1, Zenon DEF InOrder, InChannel, InReplay, InBuf
  <2>9. Channel'
    BY <1>1, <2>1, <2>4, <2>5, <2>6, Zenon DEF Channel
  <2>10. /\ Following'
         /\ \A n \in Nat : InChannel(n)' => last' <= n /\ n < next'
         /\ hand' # Nothing => /\ last' <= hand'.seq /\ hand'.seq < next'
                               /\ \A n \in Nat : InChannel(n)' => hand'.seq <= n
    BY <1>1, <2>1, <2>4, <2>6, <2>7, <2>8, Taken, Zenon
  <2> QED BY <2>4, <2>5, <2>9, <2>10, Zenon DEF InOrder
<1>5. CASE /\ DOMAIN watch.replay = {} /\ watch.buf # << >>
           /\ hand' = Head(watch.buf)
           /\ watch' = [watch EXCEPT !.buf = Tail(@)]
  <2>1. /\ watch' = [on |-> watch'.on, filter |-> watch'.filter, replay |-> watch'.replay,
                     buf |-> watch'.buf, cap |-> watch'.cap, lost |-> watch'.lost]
        /\ watch'.on = watch.on /\ watch'.filter = watch.filter /\ watch'.lost = watch.lost
        /\ watch'.buf = Tail(watch.buf) /\ watch'.replay = watch.replay
    BY <1>2, <1>5, Zenon
  <2>2. /\ watch'.buf \in Seq(Entry) /\ 1 \in DOMAIN watch.buf /\ hand' = watch.buf[1]
        /\ \A k \in DOMAIN watch'.buf : k + 1 \in DOMAIN watch.buf /\ watch'.buf[k] = watch.buf[k + 1]
        /\ \A k \in DOMAIN watch.buf : k = 1 \/ (k - 1 \in DOMAIN watch'.buf /\ watch'.buf[k - 1] = watch.buf[k])
        /\ \A j, k \in DOMAIN watch'.buf : j < k => j + 1 < k + 1
    <3>1. watch.buf \in Seq(Entry) /\ watch.buf # << >>
      BY <1>5, Zenon DEF Channel
    <3>2. /\ Tail(watch.buf) \in Seq(Entry) /\ Len(watch.buf) \in Nat \ {0}
          /\ Len(Tail(watch.buf)) = Len(watch.buf) - 1
          /\ DOMAIN watch.buf = 1 .. Len(watch.buf)
          /\ DOMAIN Tail(watch.buf) = 1 .. Len(watch.buf) - 1
          /\ \A k \in 1 .. Len(watch.buf) - 1 : Tail(watch.buf)[k] = watch.buf[k + 1]
          /\ Head(watch.buf) = watch.buf[1]
      BY <3>1
    <3>3. \A n \in Nat \ {0} :
             /\ 1 \in 1 .. n
             /\ \A k \in 1 .. n - 1 : k + 1 \in 1 .. n
             /\ \A k \in 1 .. n : k = 1 \/ (k - 1 \in 1 .. n - 1 /\ k - 1 + 1 = k)
             /\ \A j, k \in 1 .. n - 1 : j < k => j + 1 < k + 1
      OBVIOUS
    <3>4. DOMAIN watch'.buf = 1 .. Len(watch.buf) - 1 /\ watch'.buf = Tail(watch.buf)
      BY <2>1, <3>2, Zenon
    <3>5. \A k \in DOMAIN watch'.buf : k + 1 \in DOMAIN watch.buf /\ watch'.buf[k] = watch.buf[k + 1]
      BY <3>2, <3>3, <3>4, Zenon
    <3>6. ASSUME NEW k \in DOMAIN watch.buf, k # 1
          PROVE  k - 1 \in DOMAIN watch'.buf /\ watch'.buf[k - 1] = watch.buf[k]
      <4>1. k - 1 \in DOMAIN watch'.buf /\ k - 1 + 1 = k
        BY <3>2, <3>3, <3>4, <3>6, Zenon
      <4> QED BY <3>5, <4>1, Zenon
    <3>7. 1 \in DOMAIN watch.buf /\ \A j, k \in DOMAIN watch'.buf : j < k => j + 1 < k + 1
      BY <3>2, <3>3, <3>4, Zenon
    <3> QED BY <1>5, <3>2, <3>4, <3>5, <3>6, <3>7, Zenon
  <2>3. watch.buf[1] \in Entry /\ \A k \in DOMAIN watch.buf : watch.buf[k].seq \in Nat
    BY <2>2, Numbers, Zenon
  <2>4. /\ InChannel(watch.buf[1].seq)
        /\ \A n : InChannel(n) => InChannel(n)' \/ n = watch.buf[1].seq
        /\ \A n : InChannel(n)' => InChannel(n)
    <3>1. \A n : InChannel(n) <=> \E k \in DOMAIN watch.buf : watch.buf[k].seq = n
      BY <1>5, Zenon DEF InChannel, InReplay, InBuf
    <3>2. \A n : InChannel(n)' <=> \E k \in DOMAIN watch'.buf : watch'.buf[k].seq = n
      BY <1>5, <2>1, Zenon DEF InChannel, InReplay, InBuf
    <3>3. ASSUME NEW n, InChannel(n), n # watch.buf[1].seq
          PROVE  InChannel(n)'
      <4>1. PICK k \in DOMAIN watch.buf : watch.buf[k].seq = n
        BY <3>1, <3>3, Zenon
      <4>2. \E j \in DOMAIN watch'.buf : watch'.buf[j] = watch.buf[k]
        BY <2>2, <3>3, <4>1, Zenon
      <4> QED BY <3>2, <4>1, <4>2, Zenon
    <3>4. ASSUME NEW n, InChannel(n)'
          PROVE  InChannel(n)
      <4>1. PICK k \in DOMAIN watch'.buf : watch'.buf[k].seq = n
        BY <3>2, <3>4, Zenon
      <4>2. \E j \in DOMAIN watch.buf : watch.buf[j] = watch'.buf[k]
        BY <2>2, <4>1, Zenon
      <4> QED BY <3>1, <4>1, <4>2, Zenon
    <3>5. InChannel(watch.buf[1].seq)
      BY <2>2, <3>1, Zenon
    <3> QED BY <3>3, <3>4, <3>5, Zenon
  <2>5. ASSUME NEW n \in Nat, InChannel(n)
        PROVE  watch.buf[1].seq <= n
    <3>1. PICK k \in DOMAIN watch.buf : watch.buf[k].seq = n
      BY <1>5, <2>5, Zenon DEF InChannel, InReplay, InBuf
    <3>2. k = 1 \/ 1 < k
      BY DEF Channel
    <3>3. CASE k = 1
      BY <2>3, <3>1, <3>3
    <3>4. CASE 1 < k
      BY <2>2, <3>1, <3>4, Zenon DEF InOrder
    <3> QED BY <3>2, <3>3, <3>4, Zenon
  <2>6. Channel'
    BY <1>1, <2>1, <2>2, <2>3, Zenon DEF Channel
  <2>7. /\ Following'
        /\ \A n \in Nat : InChannel(n)' => last' <= n /\ n < next'
        /\ hand' # Nothing => /\ last' <= hand'.seq /\ hand'.seq < next'
                              /\ \A n \in Nat : InChannel(n)' => hand'.seq <= n
    BY <1>1, <2>1, <2>2, <2>3, <2>4, <2>5, Taken, Zenon
  <2>8. \A j, k \in DOMAIN watch'.buf : j < k => watch'.buf[j].seq <= watch'.buf[k].seq
    BY <2>2, Zenon DEF InOrder
  <2> QED BY <1>5, <2>1, <2>6, <2>7, <2>8, Zenon DEF InOrder
<1> QED BY <1>4, <1>5, Zenon DEF Receive

LEMMA SendStep ==
    ASSUME Record, Channel, InOrder, Following, Send
    PROVE  Channel' /\ InOrder' /\ Following'
<1>1. /\ entries' = entries /\ next' = next /\ last' = hand.seq /\ got' = got \cup {hand.seq}
      /\ hand # Nothing /\ hand' = Nothing /\ watch.on
      /\ watch' = IF watch.lost > 0 THEN Unwatched(watch.filter) ELSE watch
  BY Zenon DEF Send, logVars, Channel
<1>2. /\ hand.seq \in Nat /\ last \in Nat /\ last <= hand.seq /\ hand.seq < next
      /\ \A n \in Nat : InChannel(n) => hand.seq <= n
  BY <1>1, Numbers, Zenon DEF InOrder
<1>3. ASSUME NEW k \in Matching(watch.filter), entries[k].seq <= hand.seq
      PROVE  entries[k].seq \in got'
  <2>1. entries[k].seq \in Nat
    BY Numbers, Zenon DEF Matching
  <2>2. CASE entries[k].seq <= last
    BY <1>1, <2>2, Zenon DEF Following, NothingSkipped
  <2>3. CASE last < entries[k].seq
    <3>1. hand.seq <= entries[k].seq
      BY <1>1, <2>3, Zenon DEF Following, Coming
    <3>2. hand.seq = entries[k].seq
      BY <1>2, <1>3, <2>1, <3>1
    <3> QED BY <1>1, <3>2, Zenon
  <2>4. entries[k].seq <= last \/ last < entries[k].seq
    BY <1>2, <2>1
  <2> QED BY <2>2, <2>3, <2>4, Zenon
<1>4. CASE watch.lost > 0
  <2>1. watch' = Unwatched(watch.filter)
    BY <1>1, <1>4, Zenon
  <2>2. /\ watch' = [on |-> watch'.on, filter |-> watch'.filter, replay |-> watch'.replay,
                     buf |-> watch'.buf, cap |-> watch'.cap, lost |-> watch'.lost]
        /\ watch'.on = FALSE /\ watch'.filter = watch.filter /\ watch'.lost = 0
        /\ watch'.replay = << >> /\ watch'.buf = << >>
    BY <2>1, Zenon DEF Unwatched
  <2>3. /\ DOMAIN watch'.replay = {} /\ DOMAIN watch'.buf = {} /\ watch'.buf \in Seq(Entry) /\ 0 \in Nat
    BY <2>2
  <2>4. \A n : ~InChannel(n)'
    BY <2>3, Zenon DEF InChannel, InReplay, InBuf
  <2>5. Channel'
    BY <1>1, <1>2, <2>2, <2>3, Zenon DEF Channel
  <2>6. InOrder'
    BY <1>1, <2>3, <2>4, Zenon DEF InOrder
  <2>7. NothingSkipped'
    BY <1>1, <1>3, <2>2, Zenon DEF NothingSkipped, Matching, Match
  <2> QED BY <2>2, <2>5, <2>6, <2>7, Zenon DEF Following
<1>5. CASE ~(watch.lost > 0)
  <2>1. watch' = watch /\ watch.lost = 0
    BY <1>1, <1>5 DEF Channel
  <2>2. \A n : InChannel(n)' <=> InChannel(n)
    BY <2>1, Zenon DEF InChannel, InReplay, InBuf
  <2>3. Channel'
    BY <1>1, <1>2, <2>1, Zenon DEF Channel
  <2>4. InOrder'
    BY <1>1, <1>2, <2>1, <2>2, Zenon DEF InOrder
  <2>5. (watch.on => \A k \in Matching(watch.filter) : last < entries[k].seq => Coming(entries[k].seq))'
    <3> SUFFICES ASSUME NEW k \in Matching(watch.filter), hand.seq < entries[k].seq
                 PROVE  InChannel(entries[k].seq)
      BY <1>1, <2>1, <2>2, Zenon DEF Matching, Match, Coming
    <3>1. entries[k].seq \in Nat
      BY Numbers, Zenon DEF Matching
    <3>2. last < entries[k].seq /\ entries[k].seq # hand.seq
      BY <1>2, <3>1
    <3> QED BY <1>1, <2>1, <3>2, Zenon DEF Following, Coming
  <2>6. NothingSkipped'
    BY <1>1, <1>3, <2>1, Zenon DEF NothingSkipped, Matching, Match
  <2> QED BY <1>5, <2>1, <2>3, <2>4, <2>5, <2>6, Zenon DEF Following
<1> QED BY <1>4, <1>5, Zenon

LEMMA HangupStep ==
    ASSUME Record, Channel, InOrder, Following, Hangup
    PROVE  Channel' /\ InOrder' /\ Following'
<1>1. /\ entries' = entries /\ next' = next /\ last' = last /\ got' = got
      /\ hand' = Nothing /\ watch' = Unwatched(watch.filter)
  BY Zenon DEF Hangup, logVars
<1>2. /\ watch' = [on |-> watch'.on, filter |-> watch'.filter, replay |-> watch'.replay,
                   buf |-> watch'.buf, cap |-> watch'.cap, lost |-> watch'.lost]
      /\ watch'.on = FALSE /\ watch'.filter = watch.filter /\ watch'.lost = 0
      /\ watch'.replay = << >> /\ watch'.buf = << >>
  BY <1>1, Zenon DEF Unwatched
<1>3. /\ DOMAIN watch'.replay = {} /\ DOMAIN watch'.buf = {} /\ watch'.buf \in Seq(Entry) /\ 0 \in Nat
  BY <1>2
<1>4. \A n : ~InChannel(n)'
  BY <1>3, Zenon DEF InChannel, InReplay, InBuf
<1>5. Channel'
  BY <1>1, <1>2, <1>3, Zenon DEF Channel
<1>6. InOrder'
  BY <1>1, <1>3, <1>4, Zenon DEF InOrder
<1>7. NothingSkipped'
  BY <1>1, <1>2, Zenon DEF Following, NothingSkipped, Matching, Match
<1> QED BY <1>2, <1>5, <1>6, <1>7, Zenon DEF Following

-----------------------------------------------------------------------------
LEMMA LogInitial == LogInit => LogInv
<1> SUFFICES ASSUME LogInit
             PROVE  LogInv
  BY Zenon
<1>1. /\ entries = << >> /\ next = 1 /\ hand = Nothing /\ last = 0 /\ got = {}
      /\ settings = Normalized([level |-> 2, dest |-> TRUE, entries |-> 0, bytes |-> 0])
      /\ watch = Unwatched(SomeFilter)
      /\ page = [at |-> -1, filter |-> SomeFilter, read |-> << >>, since |-> {}]
  BY Zenon DEF LogInit
<1>2. entries \in Seq(Entry) /\ DOMAIN entries = {} /\ Len(entries) = 0 /\ next \in Nat \ {0} /\ 0 < next
  BY <1>1
<1>3. Record
  BY <1>2, Zenon DEF Record, Sorted
<1>4. Bounded
  <2>1. settings.entries = DefaultEntries
    BY <1>1 DEF Normalized
  <2> QED BY <1>2, <2>1, LogBounds DEF Bounded
<1>5. Paging
  <2>1. /\ page.at = -1 /\ page.filter = SomeFilter /\ page.read = << >> /\ page.since = {}
    BY <1>1, Zenon
  <2>2. page.read \in Seq(SUBSET Nat) /\ DOMAIN page.read = {}
    BY <2>1
  <2> QED BY <1>1, <1>2, <2>1, <2>2, Zenon DEF Paging, PagesAreWhole
<1>6. /\ watch = [on |-> watch.on, filter |-> watch.filter, replay |-> watch.replay,
                  buf |-> watch.buf, cap |-> watch.cap, lost |-> watch.lost]
      /\ watch.on = FALSE /\ watch.lost = 0 /\ watch.replay = << >> /\ watch.buf = << >>
  BY <1>1, Zenon DEF Unwatched
<1>7. DOMAIN watch.replay = {} /\ DOMAIN watch.buf = {} /\ watch.buf \in Seq(Entry) /\ 0 \in Nat
  BY <1>6
<1>8. Channel /\ InOrder
  BY <1>1, <1>2, <1>6, <1>7, Zenon DEF Channel, InOrder, InChannel, InReplay, InBuf
<1>9. Following
  BY <1>2, <1>6, Zenon DEF Following, NothingSkipped, Matching
<1> QED BY <1>3, <1>4, <1>5, <1>8, <1>9, Zenon DEF LogInv

LEMMA LogInductive == LogInv /\ [LogNext]_centerVars => LogInv'
<1> SUFFICES ASSUME LogInv, [LogNext]_centerVars
             PROVE  LogInv'
  BY Zenon
<1>1. Record /\ Bounded /\ Paging /\ Channel /\ InOrder /\ Following
  BY Zenon DEF LogInv
\* A step that leaves the record alone.
<1>2. ASSUME entries' = entries, next' = next, settings' = settings
      PROVE  Record' /\ Bounded' /\ Evolves
  <2>1. Record' /\ Bounded'
    BY <1>1, <1>2, Zenon DEF Record, Sorted, Bounded
  <2> QED BY <1>2, <2>1, Zenon DEF Evolves, SameEntry
<1>3. ASSUME NEW m \in Messages, NEW soon \in BOOLEAN, Write(m, soon)
      PROVE  LogInv'
  <2>1. /\ Record' /\ Evolves /\ Len(entries') <= settings.entries
        /\ \E e \in Entry :
                /\ Notify(e) /\ e.seq = next' - 1
                /\ \A k \in DOMAIN entries' : entries'[k].seq = e.seq => SameEntry(entries'[k], e)
                /\ \/ e.seq = next /\ next' = next + 1
                   \/ next' = next /\ \E k \in DOMAIN entries : SameEntry(e, entries[k])
    BY <1>1, <1>3, WriteStep, Zenon
  <2>2. settings' = settings /\ page' = page /\ UNCHANGED <<hand, last, got>>
    BY <1>3, Zenon DEF Write
  <2>3. Channel' /\ InOrder' /\ Following'
    BY <1>1, <2>1, <2>2, WriteFollowed, Zenon
  <2>4. Paging'
    BY <1>1, <2>1, <2>2, PagingKept, Zenon
  <2>5. Bounded'
    BY <1>1, <2>1, <2>2, Zenon DEF Bounded
  <2> QED BY <2>1, <2>3, <2>4, <2>5, Zenon DEF LogInv
<1>4. ASSUME NEW s \in SettingsIn, SetSettings(s)
      PROVE  LogInv'
  <2>1. next' = next /\ page' = page /\ UNCHANGED <<watch, hand, last, got>>
    BY <1>4, Zenon DEF SetSettings
  <2>2. Record' /\ Evolves /\ Bounded'
    BY <1>1, <1>4, SettingsStep, Zenon
  <2> QED BY <1>1, <2>1, <2>2, PagingKept, FollowSame, Zenon DEF LogInv
<1>5. CASE Clear
  <2>1. next' = next /\ page' = page /\ UNCHANGED <<watch, hand, last, got>>
    BY <1>5, Zenon DEF Clear
  <2>2. Record' /\ Evolves /\ Bounded'
    BY <1>1, <1>5, ClearStep, Zenon
  <2> QED BY <1>1, <2>1, <2>2, PagingKept, FollowSame, Zenon DEF LogInv
<1>6. ASSUME NEW f \in Filters, NEW first \in BOOLEAN, QueryLogs(f, first)
      PROVE  LogInv'
  <2>1. entries' = entries /\ next' = next /\ settings' = settings /\ UNCHANGED <<watch, hand, last, got>>
    BY <1>6, Zenon DEF QueryLogs, logVars
  <2>2. Paging'
    BY <1>1, <1>6, QueryStep, Zenon
  <2> QED BY <1>1, <1>2, <2>1, <2>2, FollowSame, Zenon DEF LogInv
<1>7. ASSUME NEW f \in Filters, WatchLogs(f)
      PROVE  LogInv'
  <2>1. entries' = entries /\ next' = next /\ settings' = settings /\ page' = page
    BY <1>7, Zenon DEF WatchLogs, logVars
  <2>2. Channel' /\ InOrder' /\ Following'
    BY <1>1, <1>7, WatchStep, Zenon
  <2> QED BY <1>1, <1>2, <2>1, <2>2, PagingKept, Zenon DEF LogInv
<1>8. CASE Receive \/ Send \/ Hangup
  <2>1. entries' = entries /\ next' = next /\ settings' = settings /\ page' = page
    BY <1>8, Zenon DEF Receive, Send, Hangup, logVars
  <2>2. Channel' /\ InOrder' /\ Following'
    BY <1>1, <1>8, ReceiveStep, SendStep, HangupStep, Zenon
  <2> QED BY <1>1, <1>2, <2>1, <2>2, PagingKept, Zenon DEF LogInv
<1>9. CASE UNCHANGED centerVars
  <2>1. /\ entries' = entries /\ next' = next /\ settings' = settings /\ page' = page
        /\ UNCHANGED <<watch, hand, last, got>>
    BY <1>9, Zenon DEF centerVars
  <2> QED BY <1>1, <1>2, <2>1, PagingKept, FollowSame, Zenon DEF LogInv
<1> QED BY <1>3, <1>4, <1>5, <1>6, <1>7, <1>8, <1>9, Zenon DEF LogNext

LEMMA LogInvariant == LogSpec => []LogInv
BY LogInitial, LogInductive, PTL DEF LogSpec

\* A client that pages through the record while it is written, trimmed and
\* cleared reads no entry twice and misses none that stays (Query, evict,
\* Clear of core/logs).
THEOREM PagesMissNothing == LogSpec => []PagesAreWhole
<1>1. LogInv => PagesAreWhole
  BY Zenon DEF LogInv, Paging
<1> QED BY <1>1, LogInvariant, PTL

\* A client that follows the log, however often it falls behind or hangs up,
\* passes over no entry on record (Watch, notify, WatchLogs).
THEOREM FollowersSkipNothing == LogSpec => []NothingSkipped
<1>1. LogInv => NothingSkipped
  BY Zenon DEF LogInv, Following
<1> QED BY <1>1, LogInvariant, PTL

\* The record never holds more entries than the settings in force allow
\* (evict after Write and SetSettings).
THEOREM RecordIsBounded == LogSpec => [](Len(entries) <= settings.entries)
<1>1. LogInv => Len(entries) <= settings.entries
  BY Zenon DEF LogInv, Bounded
<1> QED BY <1>1, LogInvariant, PTL

=============================================================================
