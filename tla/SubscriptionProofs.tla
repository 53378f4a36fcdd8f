------------------------- MODULE SubscriptionProofs -------------------------
(***************************************************************************)
(* Proofs about the book of subscriptions (Subscriptions), for any         *)
(* identifiers, links and lists, any number of requests, restarts and      *)
(* crashes, and about the retrieval of a list (Fetch), for any references, *)
(* resolvers and limits.                                                   *)
(***************************************************************************)
EXTENDS Subscriptions, Fetch, FiniteSetTheorems, TLAPS

-----------------------------------------------------------------------------
(***************************************************************************)
(* The vault holds exactly what the book knows of (VaultMatchesBook), and  *)
(* a list enters the book only for the link it was fetched from            *)
(* (ListFromOwnLink).                                                      *)
(*                                                                         *)
(* VaultMatchesBook speaks of what load would read; the inductive form     *)
(* (Kept) says what the vault holds, chunk by chunk.  It needs that a new  *)
(* subscription takes an identifier without an entry (Drawn).              *)
(***************************************************************************)

\* The parts of SubsTypeOK that the proofs need.
Shape ==
    /\ records \in [Ids -> Records \cup {None}]
    /\ lists \in [Ids -> Lists \cup {None}]
    /\ DOMAIN vault = Ids /\ DOMAIN fetch = Ids
    /\ \A i \in Ids : fetch[i] # None => fetch[i].link \in Links

Drawn == \A i \in Ids : records[i] # None => i \in used

\* A list of no parts is no list.
KeptEntry(i) ==
    /\ vault[i] = [rec |-> records[i], servers |-> records[i].servers,
                   chunks |-> (0 .. records[i].parts - 1) \X {lists[i]}]
    /\ lists[i] = None <=> records[i].parts = 0

Kept ==
    \A i \in Ids : IF records[i] # None THEN KeptEntry(i)
                   ELSE vault[i] = NoEntry /\ lists[i] = None

BookInv == Shape /\ Drawn /\ Kept

-----------------------------------------------------------------------------
(***************************************************************************)
(* What load reads of an entry.                                            *)
(***************************************************************************)

LEMMA ChunkCount ==
    ASSUME NEW n \in Nat, NEW l
    PROVE  Cardinality((0 .. n - 1) \X {l}) = n
<1> DEFINE S == 0 .. n - 1
           T == S \X {l}
           f == [k \in S |-> <<k, l>>]
<1>1. f \in Bijection(S, T)
  <2>1. f \in [S -> T]
    BY Zenon
  <2>2. \A a, b \in S : f[a] = f[b] => a = b
    BY Zenon
  <2>3. \A t \in T : \E k \in S : f[k] = t
    OBVIOUS
  <2> HIDE DEF S, T, f
  <2>4. DOMAIN f = S
    BY <2>1, Zenon
  <2> QED BY <2>1, <2>2, <2>3, <2>4, Zenon DEF Bijection, Injection, Surjection, IsInjective
<1>2. IsFiniteSet(S) /\ Cardinality(S) = n
  <2>1. n - 1 \in Int /\ 0 \in Int
    OBVIOUS
  <2>2. IsFiniteSet(S) /\ Cardinality(S) = IF 0 > n - 1 THEN 0 ELSE n - 1 - 0 + 1
    BY <2>1, FS_Interval, Zenon
  <2> QED BY <2>2
<1> HIDE DEF S, T, f
<1>3. Cardinality(T) = Cardinality(S)
  BY <1>1, <1>2, FS_Bijection, Zenon DEF ExistsBijection
<1> QED BY <1>2, <1>3, Zenon DEF S, T

\* load finds the list whose chunks the vault holds, and none if there are none.
LEMMA LoadsWhole ==
    ASSUME NEW i \in Ids, NEW l \in Lists \cup {None}, vault[i].rec.parts \in Nat,
           vault[i].chunks = (0 .. vault[i].rec.parts - 1) \X {l},
           l = None <=> vault[i].rec.parts = 0
    PROVE  LoadList(i) = l
<1> DEFINE n == vault[i].rec.parts
           C == {c \in vault[i].chunks : c[1] < n}
<1>1. C = (0 .. n - 1) \X {l}
  OBVIOUS
<1>2. CASE n = 0
  BY <1>2 DEF LoadList
<1>3. CASE n > 0
  <2>1. l \in Lists
    BY <1>3
  <2>2. ASSUME NEW m, C = (0 .. n - 1) \X {m} PROVE m = l
    <3>1. <<0, m>> \in C
      BY <1>3, <2>2
    <3> QED BY <1>1, <3>1, Zenon
  <2>3. LoadList(i) = IF n > 0 /\ \E m \in Lists : C = (0 .. n - 1) \X {m}
                      THEN CHOOSE m \in Lists : C = (0 .. n - 1) \X {m} ELSE None
    BY Zenon DEF LoadList
  <2> HIDE DEF n, C
  <2>4. LoadList(i) = CHOOSE m \in Lists : C = (0 .. n - 1) \X {m}
    BY <1>1, <1>3, <2>1, <2>3, Zenon
  <2> QED BY <1>1, <2>1, <2>2, <2>4, Zenon
<1> QED BY <1>2, <1>3

\* The invariant is what the properties say.
LEMMA KeptMatches == Shape /\ Kept => VaultMatchesBook
<1> SUFFICES ASSUME Shape, Kept, NEW i \in Ids
             PROVE  IF i \in Known
                    THEN /\ vault[i].rec = records[i]
                         /\ vault[i].servers = records[i].servers
                         /\ LoadList(i) = lists[i]
                         /\ Cardinality(vault[i].chunks) = records[i].parts
                    ELSE vault[i] = NoEntry /\ lists[i] = None
  BY Zenon DEF VaultMatchesBook
<1>1. CASE records[i] # None
  <2>1. i \in Known /\ KeptEntry(i) /\ records[i] \in Records /\ lists[i] \in Lists \cup {None}
    BY <1>1, Zenon DEF Known, Kept, Shape
  <2>2. /\ vault[i].rec = records[i] /\ vault[i].servers = records[i].servers
        /\ vault[i].chunks = (0 .. records[i].parts - 1) \X {lists[i]}
    BY <2>1 DEF KeptEntry
  <2>3. records[i].parts \in Nat
    BY <2>1, Zenon DEF Records
  <2>4. LoadList(i) = lists[i]
    BY <2>1, <2>2, <2>3, LoadsWhole, Zenon DEF KeptEntry
  <2>5. Cardinality(vault[i].chunks) = records[i].parts
    <3>1. Cardinality((0 .. records[i].parts - 1) \X {lists[i]}) = records[i].parts
      BY <2>3, ChunkCount, Zenon
    <3> QED BY <2>2, <3>1, Zenon
  <2> QED BY <2>1, <2>2, <2>4, <2>5, Zenon
<1>2. CASE records[i] = None
  BY <1>2, Zenon DEF Known, Kept
<1> QED BY <1>1, <1>2, Zenon

-----------------------------------------------------------------------------
(***************************************************************************)
(* The steps.                                                              *)
(***************************************************************************)

\* Only the entry of i changes.
LEMMA OthersKept ==
    ASSUME Kept, NEW i \in Ids,
           \A j \in Ids \ {i} : /\ records'[j] = records[j] /\ vault'[j] = vault[j]
                                /\ lists'[j] = lists[j],
           IF records'[i] # None THEN KeptEntry(i)' ELSE vault'[i] = NoEntry /\ lists'[i] = None
    PROVE  Kept'
BY Zenon DEF Kept, KeptEntry

\* A record is stored whose list stays as it is.
LEMMA RecordKept ==
    ASSUME Shape, Kept, NEW i \in Ids, records[i] # None, NEW rec \in Records,
           rec.servers = records[i].servers, rec.parts = records[i].parts,
           records' = [records EXCEPT ![i] = rec], PersistRecord(i, rec), lists' = lists
    PROVE  Kept'
<1>1. /\ records'[i] = rec /\ rec # None /\ lists'[i] = lists[i]
      /\ vault'[i] = [vault[i] EXCEPT !.rec = rec]
  BY NoneAssumption, Zenon DEF PersistRecord, Shape
<1>2. \A j \in Ids \ {i} : records'[j] = records[j] /\ vault'[j] = vault[j] /\ lists'[j] = lists[j]
  BY Zenon DEF PersistRecord, Shape
<1>3. /\ vault[i] = [rec |-> records[i], servers |-> records[i].servers,
                     chunks |-> (0 .. records[i].parts - 1) \X {lists[i]}]
      /\ lists[i] = None <=> records[i].parts = 0
  BY Zenon DEF Kept, KeptEntry
<1>4. vault'[i] = [rec |-> rec, servers |-> rec.servers,
                   chunks |-> (0 .. rec.parts - 1) \X {lists[i]}]
  <2> DEFINE held == records[i].servers
             parts == (0 .. records[i].parts - 1) \X {lists[i]}
  <2>1. vault[i] = [rec |-> records[i], servers |-> held, chunks |-> parts]
    BY <1>3, Zenon
  <2>2. rec.servers = held /\ (0 .. rec.parts - 1) \X {lists[i]} = parts
    BY Zenon
  <2> HIDE DEF held, parts
  <2>3. vault'[i] = [rec |-> rec, servers |-> held, chunks |-> parts]
    BY <1>1, <2>1
  <2> QED BY <2>2, <2>3, Zenon
<1>5. KeptEntry(i)'
  BY <1>1, <1>3, <1>4, Zenon DEF KeptEntry
<1> QED BY <1>1, <1>2, <1>5, OthersKept, Zenon

\* save of a new subscription: its identifier was never drawn.
LEMMA SaveNewKept ==
    ASSUME BookInv, NEW i \in Ids, NEW link \in Links, NEW auto \in BOOLEAN,
           SaveNew(i, link, auto)
    PROVE  BookInv'
<1> DEFINE rec == [url |-> link, auto |-> auto, tried |-> FALSE, failed |-> FALSE, ok |-> FALSE,
                   rested |-> FALSE, aged |-> FALSE, servers |-> {}, parts |-> 0]
<1>1. /\ i \notin used /\ used' = used \cup {i} /\ PersistRecord(i, rec)
      /\ records' = [records EXCEPT ![i] = rec] /\ UNCHANGED <<lists, fetch>>
  BY Zenon DEF SaveNew, Stored
<1>2. rec \in Records /\ rec.servers = {} /\ rec.parts = 0
  BY Zenon DEF Records
<1> HIDE DEF rec
<1>3. records[i] = None /\ vault[i] = NoEntry /\ lists[i] = None
  BY <1>1, Zenon DEF BookInv, Drawn, Kept
<1>4. /\ records'[i] = rec /\ rec # None /\ lists'[i] = None
      /\ vault'[i] = [vault[i] EXCEPT !.rec = rec]
      /\ \A j \in Ids \ {i} : /\ records'[j] = records[j] /\ vault'[j] = vault[j]
                              /\ lists'[j] = lists[j]
  BY <1>1, <1>2, <1>3, NoneAssumption, Zenon DEF PersistRecord, BookInv, Shape
<1>5. (0 .. rec.parts - 1) \X {None} = {}
  BY <1>2
<1>6. vault'[i] = [rec |-> rec, servers |-> rec.servers, chunks |-> {}]
  BY <1>2, <1>3, <1>4, SMTT(30), ZenonT(30) DEF NoEntry
<1>7. KeptEntry(i)'
  BY <1>2, <1>4, <1>5, <1>6, Zenon DEF KeptEntry
<1>8. Kept'
  BY <1>4, <1>7, OthersKept, Zenon DEF BookInv
<1>9. Shape'
  BY <1>1, <1>2, Zenon DEF BookInv, Shape, PersistRecord
<1>10. Drawn'
  BY <1>1, <1>4, Zenon DEF BookInv, Drawn
<1> QED BY <1>8, <1>9, <1>10, Zenon DEF BookInv

\* A record of a known subscription is stored.
LEMMA StoredInv ==
    ASSUME BookInv, NEW i \in Ids, records[i] # None, NEW rec \in Records,
           rec.servers = records[i].servers, rec.parts = records[i].parts,
           records' = [records EXCEPT ![i] = rec], PersistRecord(i, rec), lists' = lists,
           used' = used, fetch' = fetch \/ fetch' = [fetch EXCEPT ![i] = None]
    PROVE  BookInv'
<1>1. Kept'
  BY RecordKept, Zenon DEF BookInv
<1>2. records' \in [Ids -> Records \cup {None}] /\ DOMAIN vault' = Ids
  BY Zenon DEF BookInv, Shape, PersistRecord
<1>3. DOMAIN fetch' = Ids /\ \A j \in Ids : fetch'[j] # None => fetch'[j].link \in Links
  BY Zenon DEF BookInv, Shape
<1>4. Shape'
  BY <1>2, <1>3, Zenon DEF BookInv, Shape
<1>5. Drawn'
  BY Zenon DEF BookInv, Drawn, Shape
<1> QED BY <1>1, <1>4, <1>5, Zenon DEF BookInv

\* save of a known one.
LEMMA SaveExistingKept ==
    ASSUME BookInv, NEW i \in Ids, NEW link \in Links \cup {None}, NEW auto \in BOOLEAN,
           NEW aged \in BOOLEAN, SaveExisting(i, link, auto, aged)
    PROVE  BookInv'
<1> DEFINE changed == link \notin {None, records[i].url}
           rec == [records[i] EXCEPT !.url = IF changed THEN link ELSE @, !.auto = auto,
                                     !.aged = aged, !.failed = @ /\ ~changed]
<1>1. /\ records[i] # None /\ PersistRecord(i, rec) /\ records' = [records EXCEPT ![i] = rec]
      /\ UNCHANGED <<lists, fetch, used>>
  BY Zenon DEF SaveExisting, Stored, Known
<1>2. records[i] \in Records
  BY <1>1, Zenon DEF BookInv, Shape
<1>3. rec \in Records /\ rec.servers = records[i].servers /\ rec.parts = records[i].parts
  <2> DEFINE url == IF changed THEN link ELSE records[i].url
             failed == records[i].failed /\ ~changed
  <2>1. url \in Links /\ failed \in BOOLEAN
    BY <1>2, Zenon DEF Records
  <2>2. rec = [records[i] EXCEPT !.url = url, !.auto = auto, !.aged = aged, !.failed = failed]
    BY Zenon
  <2> HIDE DEF url, failed, rec
  <2> QED BY <1>2, <2>1, <2>2, SMTT(30), ZenonT(30) DEF Records
<1> HIDE DEF rec
<1> QED BY <1>1, <1>3, StoredInv, Zenon

\* delete removes the record, its servers and all parts of its list.
LEMMA DeleteKept ==
    ASSUME BookInv, NEW i \in Ids, Delete(i)
    PROVE  BookInv'
<1>1. /\ records[i] # None
      /\ vault' = [vault EXCEPT ![i] =
                     [rec |-> None, servers |-> @.servers \ records[i].servers,
                      chunks |-> {c \in @.chunks : c[1] >= records[i].parts}]]
      /\ records' = [records EXCEPT ![i] = None] /\ lists' = [lists EXCEPT ![i] = None]
      /\ UNCHANGED <<fetch, used>>
  BY Zenon DEF Delete, Known
<1>2. records[i] \in Records /\ KeptEntry(i)
  BY <1>1, Zenon DEF BookInv, Shape, Kept
<1>3. records[i].parts \in Nat
  BY <1>2, Zenon DEF Records
<1>4. /\ vault[i].servers \ records[i].servers = {}
      /\ {c \in vault[i].chunks : c[1] >= records[i].parts} = {}
  BY <1>2, <1>3 DEF KeptEntry
<1>5. vault'[i] = NoEntry /\ records'[i] = None /\ lists'[i] = None
  BY <1>1, <1>4, Zenon DEF NoEntry, BookInv, Shape
<1>6. \A j \in Ids \ {i} : records'[j] = records[j] /\ vault'[j] = vault[j] /\ lists'[j] = lists[j]
  BY <1>1, Zenon DEF BookInv, Shape
<1>7. Kept'
  BY <1>5, <1>6, OthersKept, Zenon DEF BookInv
<1>8. Shape'
  BY <1>1, Zenon DEF BookInv, Shape
<1>9. Drawn'
  BY <1>1, <1>5, <1>6, Zenon DEF BookInv, Drawn
<1> QED BY <1>7, <1>8, <1>9, Zenon DEF BookInv


\* applyUpdateLocked replaces the servers and the parts of the old list.
LEMMA UpdatedKept ==
    ASSUME BookInv, NEW i \in Ids, NEW servers \in Payloads, EndUpdated(i, servers)
    PROVE  /\ BookInv'
           /\ records'[i].url = lists'[i].from
           /\ \A j \in Ids \ {i} : lists'[j] = lists[j]
<1> DEFINE rec == [records[i] EXCEPT !.tried = TRUE, !.failed = FALSE, !.ok = TRUE,
                                     !.rested = FALSE, !.aged = FALSE,
                                     !.servers = servers, !.parts = Parts(servers)]
           list == [from |-> fetch[i].link, servers |-> servers]
<1>1. /\ fetch[i] # None /\ records[i] # None /\ records[i].url = fetch[i].link
      /\ fetch' = [fetch EXCEPT ![i] = None] /\ ApplyUpdate(i, list, rec)
      /\ records' = [records EXCEPT ![i] = rec] /\ UNCHANGED used
  BY Zenon DEF EndUpdated, Updating, Discarded, Known
<1>2. Parts(servers) \in Nat /\ Parts(servers) > 0 /\ servers \subseteq Servers
  <2>1. IsFiniteSet(servers) /\ servers # {} /\ servers \subseteq Servers
    BY PayloadsAssumption, Zenon
  <2>2. Cardinality(servers) \in Nat /\ Cardinality(servers) # 0
    BY <2>1, FS_CardinalityType, FS_EmptySet, Zenon
  <2> QED BY <2>1, <2>2 DEF Parts
<1>3. records[i] \in Records /\ KeptEntry(i) /\ fetch[i].link \in Links
  BY <1>1, Zenon DEF BookInv, Shape, Kept
<1>4. /\ rec \in Records /\ rec.servers = servers /\ rec.parts = Parts(servers)
      /\ rec.url = records[i].url /\ records[i].parts \in Nat
  BY <1>2, <1>3, Zenon DEF Records
<1>5. list \in Lists /\ list.servers = servers /\ list.from = fetch[i].link
  BY <1>3, Zenon DEF Lists
<1> HIDE DEF rec, list
<1>6. /\ vault[i].servers \ records[i].servers = {}
      /\ {c \in vault[i].chunks : c[1] >= rec.parts /\ c[1] >= records[i].parts} = {}
  BY <1>3, <1>4 DEF KeptEntry
<1>7. /\ records'[i] = rec /\ rec # None /\ lists'[i] = list /\ list # None
      /\ vault'[i] = [rec |-> rec, servers |-> rec.servers,
                      chunks |-> (0 .. rec.parts - 1) \X {list}]
  <2>1. vault'[i] = [rec |-> rec,
                     servers |-> (vault[i].servers \ records[i].servers) \cup list.servers,
                     chunks |-> {c \in vault[i].chunks : c[1] >= rec.parts /\ c[1] >= records[i].parts}
                                \cup ((0 .. rec.parts - 1) \X {list})]
    BY <1>1, Zenon DEF ApplyUpdate, BookInv, Shape
  <2>2. {} \cup list.servers = rec.servers
    BY <1>4, <1>5, Zenon
  <2>3. {} \cup ((0 .. rec.parts - 1) \X {list}) = (0 .. rec.parts - 1) \X {list}
    BY Zenon
  <2>4. records'[i] = rec /\ lists'[i] = list
    BY <1>1, Zenon DEF ApplyUpdate, BookInv, Shape
  <2>5. rec # None /\ list # None
    BY <1>4, <1>5, NoneAssumption, Zenon
  <2> QED BY <1>6, <2>1, <2>2, <2>3, <2>4, <2>5, Zenon
<1>8. \A j \in Ids \ {i} : records'[j] = records[j] /\ vault'[j] = vault[j] /\ lists'[j] = lists[j]
  BY <1>1, Zenon DEF ApplyUpdate, BookInv, Shape
<1>9. rec.parts # 0
  BY <1>2, <1>4
<1>10. KeptEntry(i)'
  BY <1>7, <1>9, Zenon DEF KeptEntry
<1>11. Kept'
  BY <1>7, <1>8, <1>10, OthersKept, Zenon DEF BookInv
<1>12. Shape'
  BY <1>1, <1>4, <1>5, Zenon DEF BookInv, Shape, ApplyUpdate
<1>13. Drawn'
  BY <1>1, <1>8, Zenon DEF BookInv, Drawn
<1>14. records'[i].url = lists'[i].from
  BY <1>1, <1>4, <1>5, <1>7, Zenon
<1> QED BY <1>8, <1>11, <1>12, <1>13, <1>14, Zenon DEF BookInv

\* Steps that leave the book and the vault alone.
LEMMA BookUnchanged ==
    ASSUME BookInv, UNCHANGED <<records, lists, vault, used>>, DOMAIN fetch' = Ids,
           \A i \in Ids : fetch'[i] \in {None, fetch[i]} \/ fetch'[i].link \in Links
    PROVE  BookInv'
BY Zenon DEF BookInv, Shape, Drawn, Kept, KeptEntry

\* refresh takes the link of the record.
LEMMA RefreshTakesLink ==
    ASSUME BookInv, NEW i \in Ids, NEW by, StartRefresh(i, by)
    PROVE  /\ DOMAIN fetch' = Ids
           /\ \A j \in Ids : fetch'[j] \in {None, fetch[j]} \/ fetch'[j].link \in Links
<1>1. CASE i \in Known /\ ~Updating(i)
  <2>1. fetch' = [fetch EXCEPT ![i] = [link |-> records[i].url, by |-> by]]
    BY <1>1, Zenon DEF StartRefresh
  <2>2. records[i] \in Records
    BY <1>1, Zenon DEF Known, BookInv, Shape
  <2>3. records[i].url \in Links
    BY <2>2, Zenon DEF Records
  <2>4. [link |-> records[i].url, by |-> by].link = records[i].url
    BY Zenon
  <2> QED BY <2>1, <2>3, <2>4, Zenon DEF BookInv, Shape
<1>2. CASE ~(i \in Known /\ ~Updating(i))
  BY <1>2, Zenon DEF StartRefresh, BookInv, Shape
<1> QED BY <1>1, <1>2, Zenon

\* load restores the book.
LEMMA RestartKept ==
    ASSUME BookInv, Restart
    PROVE  BookInv' /\ lists' = lists
<1>1. VaultMatchesBook
  BY KeptMatches, Zenon DEF BookInv
<1>2. ASSUME NEW i \in Ids
      PROVE  /\ vault[i].rec = records[i]
             /\ (IF vault[i].rec = None THEN None ELSE LoadList(i)) = lists[i]
  <2>1. CASE records[i] # None
    BY <1>1, <2>1, Zenon DEF VaultMatchesBook, Known
  <2>2. CASE records[i] = None
    <3>1. vault[i] = NoEntry /\ lists[i] = None
      BY <1>1, <2>2, Zenon DEF VaultMatchesBook, Known
    <3>2. NoEntry.rec = None
      BY Zenon DEF NoEntry
    <3> QED BY <2>2, <3>1, <3>2, Zenon
  <2> QED BY <2>1, <2>2, Zenon
<1>3. records' = [i \in Ids |-> records[i]] /\ lists' = [i \in Ids |-> lists[i]]
  BY <1>2, Zenon DEF Restart
<1>4. records' = records /\ lists' = lists
  BY <1>3, Zenon DEF BookInv, Shape
<1>5. UNCHANGED <<vault, used>> /\ fetch' = [i \in Ids |-> None]
  BY Zenon DEF Restart
<1> QED BY <1>4, <1>5, BookUnchanged, Zenon

-----------------------------------------------------------------------------

\* One step of the book.
LEMMA BookStep ==
    ASSUME BookInv, [Next]_vars
    PROVE  /\ BookInv'
           /\ \A i \in Ids : lists'[i] # lists[i] /\ lists'[i] # None =>
                 records'[i].url = lists'[i].from
<1> DEFINE Goal == /\ BookInv'
                   /\ \A i \in Ids : lists'[i] # lists[i] /\ lists'[i] # None =>
                         records'[i].url = lists'[i].from
<1>1. ASSUME NEW i \in Ids, NEW link \in Links, NEW auto \in BOOLEAN, SaveNew(i, link, auto)
      PROVE  Goal
  BY <1>1, SaveNewKept, Zenon DEF SaveNew, Stored
<1>2. ASSUME NEW i \in Ids, NEW link \in Links \cup {None}, NEW auto \in BOOLEAN,
             NEW aged \in BOOLEAN, SaveExisting(i, link, auto, aged)
      PROVE  Goal
  BY <1>2, SaveExistingKept, ZenonT(60) DEF SaveExisting, Stored
<1>3. ASSUME NEW i \in Ids, Delete(i) PROVE Goal
  BY <1>3, DeleteKept, Zenon DEF Delete, BookInv, Shape
<1>4. ASSUME NEW i \in Ids, NEW by \in Callers, RunCall(i, by) PROVE Goal
  BY <1>4, RefreshTakesLink, BookUnchanged, Zenon DEF RunCall
<1>5. ASSUME NEW i \in Ids, UserRefresh(i) PROVE Goal
  BY <1>5, RefreshTakesLink, BookUnchanged, Zenon DEF UserRefresh
<1>6. ASSUME NEW i \in Ids, EndDiscarded(i) \/ EndUnstored(i) PROVE Goal
  <2>1. fetch' = [fetch EXCEPT ![i] = None] /\ UNCHANGED <<records, lists, vault, used>>
    BY <1>6, Zenon DEF EndDiscarded, EndUnstored
  <2> QED BY <2>1, BookUnchanged, Zenon DEF BookInv, Shape
<1>7. ASSUME NEW i \in Ids, NEW servers \in Payloads, EndUpdated(i, servers) PROVE Goal
  BY <1>7, UpdatedKept, Zenon
<1>8. ASSUME NEW i \in Ids, EndFailed(i) PROVE Goal
  <2> DEFINE rec == [records[i] EXCEPT !.tried = TRUE, !.failed = TRUE, !.rested = FALSE]
  <2>1. /\ records[i] # None /\ PersistRecord(i, rec) /\ records' = [records EXCEPT ![i] = rec]
        /\ fetch' = [fetch EXCEPT ![i] = None] /\ UNCHANGED <<lists, used>>
    BY <1>8, Zenon DEF EndFailed, Discarded, Known
  <2>2. records[i] \in Records
    BY <2>1, Zenon DEF BookInv, Shape
  <2>3. rec \in Records /\ rec.servers = records[i].servers /\ rec.parts = records[i].parts
    BY <2>2, Zenon DEF Records
  <2> HIDE DEF rec
  <2> QED BY <2>1, <2>3, StoredInv, Zenon
<1>9. ASSUME NEW i \in Ids, Elapse(i) PROVE Goal
  <2> DEFINE rec == IF records[i].failed THEN [records[i] EXCEPT !.rested = TRUE]
                    ELSE [records[i] EXCEPT !.aged = @ \/ records[i].ok]
  <2>1. /\ records[i] # None /\ PersistRecord(i, rec) /\ records' = [records EXCEPT ![i] = rec]
        /\ UNCHANGED <<lists, fetch, used>>
    BY <1>9, Zenon DEF Elapse, Known
  <2>2. records[i] \in Records
    BY <2>1, Zenon DEF BookInv, Shape
  <2>3. rec \in Records /\ rec.servers = records[i].servers /\ rec.parts = records[i].parts
    BY <2>2, Zenon DEF Records
  <2> HIDE DEF rec
  <2> QED BY <2>1, <2>3, StoredInv, Zenon
<1>10. CASE Scan \/ Sleep \/ Wake \/ Shutdown \/ \E i \in Ids : Launch(i)
  <2>1. UNCHANGED <<records, lists, vault, fetch, used>>
    BY <1>10, Zenon DEF Scan, Sleep, Wake, Shutdown, Launch
  <2> QED BY <2>1, BookUnchanged, Zenon DEF BookInv, Shape
<1>11. CASE Restart
  BY <1>11, RestartKept, Zenon
<1>12. CASE UNCHANGED vars
  <2>1. UNCHANGED <<records, lists, vault, fetch, used>>
    BY <1>12, Zenon DEF vars
  <2> QED BY <2>1, BookUnchanged, Zenon DEF BookInv, Shape
<1> QED
  BY <1>1, <1>2, <1>3, <1>4, <1>5, <1>6, <1>7, <1>8, <1>9, <1>10, <1>11, <1>12, Zenon
     DEF Next, EndRefresh

LEMMA BookInit == Init => BookInv
BY Zenon DEF Init, BookInv, Shape, Drawn, Kept

LEMMA BookInductive == Spec => []BookInv
<1>1. BookInv /\ [Next]_vars => BookInv'
  BY BookStep, Zenon
<1> QED BY <1>1, BookInit, PTL DEF Spec

\* Whatever saves, updates, deletions, failures and crashes there were, the vault
\* holds for each subscription what memory knows of, and nothing for others.
THEOREM BookIsStored == Spec => []VaultMatchesBook
<1>1. BookInv => VaultMatchesBook
  BY KeptMatches, Zenon DEF BookInv
<1> QED BY <1>1, BookInductive, PTL

\* refresh stores a list only for the link that it fetched, although the link of
\* the subscription may change while no lock is held.
THEOREM ListsAreOwn == Spec => ListFromOwnLink
<1>1. BookInv /\ [Next]_vars =>
        [\A i \in Ids : lists'[i] # lists[i] /\ lists'[i] # None /\ fetch[i] # None
                          => records'[i].url = lists'[i].from]_vars
  BY BookStep, Zenon
<1> QED BY <1>1, BookInductive, PTL DEF Spec, ListFromOwnLink

-----------------------------------------------------------------------------
(***************************************************************************)
(* A retrieval: what it dials, what it asks for and what it accepts.       *)
(*                                                                         *)
(* Whether a subscription is local is decided once, before anything is     *)
(* dialled (Fresh).  The url of a hop has been checked, and the urls asked *)
(* for are at most one per hop (Paced), which the limit on hops bounds.    *)
(***************************************************************************)

Fresh == fpc = "new" => asked = {} /\ dialled = {} /\ hop = 0

Paced ==
    /\ IsFiniteSet(asked) /\ hop \in Nat
    /\ fpc = "hop" => /\ ValidateReference(target)
                      /\ hop <= MaxHops + 1 /\ Cardinality(asked) <= hop
    /\ fpc \in {"answered", "read"} => hop <= MaxHops /\ Cardinality(asked) <= hop + 1
    /\ HopsBounded

Measured ==
    /\ response \in [code : {"moved", "ok", "rejected"}, location : References \cup {NoUrl, NoLocation}, announced : Int, size : Nat]
    /\ NeverTruncated

FetchShape ==
    /\ fpc \in {"new", "hop", "answered", "read", "done", "failed"}
    /\ local \in BOOLEAN

FetchInv == FetchShape /\ Fresh /\ DialsChecked /\ Paced /\ Measured

LEMMA FetchStarts == FetchInit => FetchInv
<1> SUFFICES ASSUME FetchInit PROVE FetchInv
  BY Zenon
<1>1. FetchShape /\ Fresh /\ DialsChecked /\ NeverTruncated
  BY Zenon DEF FetchInit, FetchShape, Fresh, DialsChecked, NeverTruncated
<1>2. Measured
  <2>1. response = [code |-> "ok", location |-> NoLocation, announced |-> -1, size |-> 0]
    BY Zenon DEF FetchInit
  <2> QED
    BY <1>1, <2>1 DEF Measured
<1>3. Paced
  <2>1. fpc = "new" /\ asked = {} /\ hop = 0
    BY Zenon DEF FetchInit
  <2>2. IsFiniteSet(asked) /\ Cardinality(asked) = 0
    BY <2>1, FS_EmptySet, Zenon
  <2> QED
    BY <2>1, <2>2, FetchAssumption DEF Paced, HopsBounded
<1> QED
  BY <1>1, <1>2, <1>3, Zenon DEF FetchInv

LEMMA ResponseShape ==
    Responses \subseteq [code : {"moved", "ok", "rejected"}, location : References \cup {NoUrl, NoLocation}, announced : Int, size : Nat]
  BY FetchAssumption DEF Responses

(* A retrieval that gives up keeps what it did.                             *)
LEMMA FailsKeeps == ASSUME FetchInv, Fails PROVE FetchInv'
<1>1. FetchShape' /\ Fresh' /\ DialsChecked' /\ Measured'
  BY Zenon DEF FetchInv, FetchShape, Fails, Fresh, DialsChecked, Measured, NeverTruncated
<1>2. Paced'
  BY Zenon DEF FetchInv, Fails, Paced, HopsBounded
<1> QED
  BY <1>1, <1>2, Zenon DEF FetchInv

LEMMA FetchStep == FetchInv /\ [FetchNext]_fetchVars => FetchInv'
<1> SUFFICES ASSUME FetchInv, [FetchNext]_fetchVars PROVE FetchInv'
  BY Zenon
<1> USE DEF FetchInv
<1>1. ASSUME NEW u \in References, NEW agent \in Agents, Fetch(u, agent), ~Fails PROVE FetchInv'
  <2>0. /\ fpc = "new" /\ fpc' = "hop" /\ target' = u /\ ValidateReference(u) /\ local' \in BOOLEAN
        /\ UNCHANGED <<hop, asked, dialled, response, body>>
    BY <1>1, Zenon DEF Fetch, isPrivateHost
  <2>1. FetchShape' /\ Fresh' /\ DialsChecked' /\ Measured'
    BY <2>0, Zenon DEF FetchShape, Fresh, DialsChecked, Measured, NeverTruncated
  <2>2. Paced'
    <3>1. asked' = {} /\ hop' = 0
      BY <2>0, Zenon DEF Fresh
    <3>2. IsFiniteSet(asked') /\ Cardinality(asked') = 0
      BY <3>1, FS_EmptySet, Zenon
    <3>3. ValidateReference(target')
      BY <2>0, Zenon
    <3> QED
      BY <2>0, <3>1, <3>2, <3>3, FetchAssumption DEF Paced, HopsBounded
  <2> QED
    BY <2>1, <2>2, Zenon
<1>2. ASSUME NEW r \in Responses, HopDial(r) PROVE FetchInv'
  <2>0. /\ fpc = "hop" /\ ~TooMany /\ fpc' = "answered" /\ response' = r /\ asked' = asked \cup {target}
        /\ UNCHANGED <<target, hop, local, body>>
    BY <1>2, Zenon DEF HopDial
  <2>1. DialsChecked'
    BY <1>2, Zenon DEF HopDial, checkDial, publicAddr, DialsChecked
  <2>2. FetchShape' /\ Fresh' /\ Measured'
    BY <2>0, ResponseShape, Zenon DEF FetchShape, Fresh, Measured, NeverTruncated
  <2>3. IsFiniteSet(asked') /\ Cardinality(asked') <= Cardinality(asked) + 1 /\ Cardinality(asked) \in Nat
    <3>1. IsFiniteSet(asked)
      BY Zenon DEF Paced
    <3>2. Cardinality(asked) \in Nat
      BY <3>1, FS_CardinalityType, Zenon
    <3>3. /\ IsFiniteSet(asked \cup {target})
          /\ \/ Cardinality(asked \cup {target}) = Cardinality(asked)
             \/ Cardinality(asked \cup {target}) = Cardinality(asked) + 1
      BY <3>1, FS_AddElement, Zenon
    <3> QED
      BY <2>0, <3>2, <3>3
  <2>4. Cardinality(asked') \in Nat
    BY <2>3, FS_CardinalityType, Zenon
  <2>5. \A u \in asked' : u.scheme = "https" /\ ~u.user
    BY <2>0, Zenon DEF Paced, HopsBounded, ValidateReference
  <2>6. hop' \in Nat /\ hop' <= MaxHops /\ Cardinality(asked') <= hop' + 1
    BY <2>0, <2>3, <2>4, FetchAssumption DEF Paced, TooMany
  <2>7. Paced'
    BY <2>0, <2>3, <2>4, <2>5, <2>6, FetchAssumption DEF Paced, HopsBounded
  <2> QED
    BY <2>1, <2>2, <2>7, Zenon
<1>3. ASSUME Redirected, ~Fails PROVE FetchInv'
  <2>0. /\ fpc = "answered" /\ fpc' = "hop" /\ hop' = hop + 1 /\ ValidateReference(target')
        /\ UNCHANGED <<local, asked, dialled, response, body>>
    BY <1>3, Zenon DEF Redirected
  <2>1. FetchShape' /\ Fresh' /\ DialsChecked' /\ Measured'
    BY <2>0, Zenon DEF FetchShape, Fresh, DialsChecked, Measured, NeverTruncated
  <2>2. Paced'
    <3>1. Cardinality(asked) \in Nat
      BY FS_CardinalityType, Zenon DEF Paced
    <3>2. IsFiniteSet(asked') /\ hop' \in Nat /\ ValidateReference(target') /\ hop' <= MaxHops + 1 /\ Cardinality(asked') <= hop'
      BY <2>0, <3>1, FetchAssumption DEF Paced
    <3> QED
      BY <2>0, <3>2, Zenon DEF Paced, HopsBounded
  <2> QED
    BY <2>1, <2>2, Zenon
<1>4. ASSUME Answered, ~Fails PROVE FetchInv'
  <2>0. fpc = "answered" /\ fpc' = "read" /\ UNCHANGED <<target, hop, local, asked, dialled, response, body>>
    BY <1>4, Zenon DEF Answered
  <2>1. FetchShape' /\ Fresh' /\ DialsChecked' /\ Measured'
    BY <2>0, Zenon DEF FetchShape, Fresh, DialsChecked, Measured, NeverTruncated
  <2>2. Paced'
    BY <2>0, Zenon DEF Paced, HopsBounded
  <2> QED
    BY <2>1, <2>2, Zenon
<1>5. ASSUME ReadBody, ~Fails PROVE FetchInv'
  <2>0. /\ fpc = "read" /\ fpc' = "done" /\ UNCHANGED <<target, hop, local, asked, dialled, response>>
        /\ body' = Least(response.size, ReadLimit) /\ body' <= MaxBody
    BY <1>5, Zenon DEF ReadBody
  <2>1. body' = response.size
    BY <2>0, FetchAssumption DEF Least, ReadLimit, Measured
  <2>2. FetchShape' /\ Fresh' /\ DialsChecked' /\ Measured'
    BY <2>0, <2>1, Zenon DEF FetchShape, Fresh, DialsChecked, Measured, NeverTruncated
  <2>3. Paced'
    BY <2>0, Zenon DEF Paced, HopsBounded
  <2> QED
    BY <2>2, <2>3, Zenon
<1>6. CASE UNCHANGED fetchVars
  <2>1. FetchShape' /\ Fresh' /\ DialsChecked' /\ Measured'
    BY <1>6, Zenon DEF fetchVars, FetchShape, Fresh, DialsChecked, Measured, NeverTruncated
  <2>2. Paced'
    BY <1>6, Zenon DEF fetchVars, Paced, HopsBounded
  <2> QED
    BY <2>1, <2>2, Zenon
<1>7. CASE HopLimit \/ HopFails \/ FetchOver
  BY <1>6, <1>7, FailsKeeps, Zenon DEF HopLimit, HopFails, FetchOver
<1> QED
  BY <1>1, <1>2, <1>3, <1>4, <1>5, <1>6, <1>7, FailsKeeps, Zenon DEF FetchNext

LEMMA FetchHolds == FetchSpec => []FetchInv
  BY FetchStarts, FetchStep, PTL DEF FetchSpec

(* A subscription that was not local when it was asked for never makes the  *)
(* core dial an address outside the internet, for any references, redirects *)
(* and changing answers of the resolver.  (dialChecked, checkDial)          *)
THEOREM PublicStaysPublic == FetchSpec => []DialsChecked
<1>1. FetchInv => DialsChecked
  BY Zenon DEF FetchInv
<1> QED
  BY FetchHolds, <1>1, PTL

(* The redirects that are followed are bounded, and every url requested is  *)
(* https and without credentials of its own.  (Fetch, ValidateReference)    *)
THEOREM HopsAreBounded == FetchSpec => []HopsBounded
<1>1. FetchInv => HopsBounded
  BY Zenon DEF FetchInv, Paced
<1> QED
  BY FetchHolds, <1>1, PTL

(* A body that is accepted is the whole body, for any limit and also when   *)
(* its size was not announced.  (hop: LimitReader and the length checks)    *)
THEOREM BodiesAreWhole == FetchSpec => []NeverTruncated
<1>1. FetchInv => NeverTruncated
  BY DEF FetchInv, Measured
<1> QED
  BY FetchHolds, <1>1, PTL

=============================================================================
