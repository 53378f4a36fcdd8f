----------------------------- MODULE CoreProofs -----------------------------
(***************************************************************************)
(* Proofs about three parts of the core process that outlive it on disk,   *)
(* for any number of services, checks, faults, address pools, kills,       *)
(* references, credentials and keys: its start and end beside other cores  *)
(* (Startup), the home directory of mihomo (EngineHome) and the store of   *)
(* credentials (Vault).  They share no state and no definitions.           *)
(***************************************************************************)
EXTENDS Startup, EngineHome, Vault, TLAPS

-----------------------------------------------------------------------------
(***************************************************************************)
(* Start and end: no core takes the routes of another's session, the       *)
(* endpoint of a serving core leads to it, and it authenticates with the   *)
(* token on disk.                                                          *)
(*                                                                         *)
(* The argument is the order in which New acquires things.  The lock       *)
(* excludes other cores of this build (Exclusive).  The older build knows  *)
(* no lock, but while it runs its socket is at the path (OldBound), so the *)
(* core that has bound the path has it to itself (Bound), and a socket     *)
(* that is about to be removed is dead (Dead).  Sessions exist only behind *)
(* both (Routed).                                                          *)
(***************************************************************************)

HasLock(p) == stage[p] \notin {"off", "lock"}
HasPath(p) ==
    stage[p] \in {"token", "create", "write", "store", "routes", "serving", "unbind"}

Exclusive == \A p \in Services : HasLock(p) <=> lock = p
OldBound == Old \in open => path = Old
Bound == \A p \in Services : HasPath(p) => path = p /\ p \in open
Dead == \A p \in Services : stage[p] = "remove" => path \notin open
Routed ==
    /\ session[Old] => Old \in open /\ kernel = Old
    /\ \A p \in Services :
          session[p] => stage[p] \in {"serving", "shutdown", "drain"} /\ kernel = p
Known ==
    \A p \in Services : stage[p] \in {"store", "routes", "serving"} =>
        auth[p] = token.by \/ token.by \in Checks

SInv ==
    /\ StartupTypeOK /\ Exclusive /\ OldBound /\ Bound /\ Dead /\ Routed /\ Known

-----------------------------------------------------------------------------

(***************************************************************************)
(* The initial states.                                                     *)
(***************************************************************************)

LEMMA StartInit == StartupInit => SInv
<1> SUFFICES ASSUME StartupInit PROVE SInv
  BY Zenon
<1> USE StartupAssumption DEF StartupInit
<1>1. StartupTypeOK
  <2>1. session \in [Listeners -> BOOLEAN]
    BY Zenon
  <2>2. token \in [by : Cores \cup {Old, Nobody}, whole : BOOLEAN]
    <3>1. token = NoToken \/ token = [by |-> Old, whole |-> TRUE]
      BY Zenon
    <3> HIDE DEF StartupInit
    <3>2. NoToken \in [by : Cores \cup {Old, Nobody}, whole : BOOLEAN]
      BY Zenon DEF NoToken
    <3>3. [by |-> Old, whole |-> TRUE] \in [by : Cores \cup {Old, Nobody}, whole : BOOLEAN]
      BY Zenon
    <3> QED BY <3>1, <3>2, <3>3, Zenon
  <2>3. path \in Listeners \cup {Nobody} /\ open \subseteq Listeners
    BY Zenon DEF Listeners
  <2> QED BY <2>1, <2>2, <2>3 DEF StartupTypeOK, Stages, Cores, Listeners
<1>2. Exclusive /\ Bound /\ Dead /\ Known
  BY Zenon DEF Exclusive, Bound, Dead, Known, HasLock, HasPath, Cores
<1>3. OldBound
  BY Zenon DEF OldBound, Old
<1>4. Routed
  BY Zenon DEF Routed, Listeners, Cores
<1> QED BY <1>1, <1>2, <1>3, <1>4, Zenon DEF SInv

-----------------------------------------------------------------------------
(***************************************************************************)
(* The steps: first the types, then the order, then what rests on it.      *)
(***************************************************************************)

LEMMA TypeStep ==
    ASSUME StartupTypeOK, [StartupNext]_startVars
    PROVE  StartupTypeOK'
<1> USE StartupAssumption DEF StartupTypeOK, Stages, Cores, Listeners, Goto, hostVars, fileVars,
        startVars
<1>1. ASSUME NEW p \in Cores, StartCore(p) PROVE StartupTypeOK'
  BY <1>1 DEF StartCore
<1>2. ASSUME NEW p \in Cores, LockInstance(p) PROVE StartupTypeOK'
  BY <1>2 DEF LockInstance
<1>3. ASSUME NEW p \in Cores, Dial(p) PROVE StartupTypeOK'
  BY <1>3, Zenon DEF Dial
<1>4. ASSUME NEW p \in Cores, Remove(p) PROVE StartupTypeOK'
  BY <1>4 DEF Remove
<1>5. ASSUME NEW p \in Cores, Bind(p) PROVE StartupTypeOK'
  BY <1>5 DEF Bind
<1>6. ASSUME NEW p \in Cores, LoadToken(p) PROVE StartupTypeOK'
  BY <1>6 DEF LoadToken, FailNew
<1>7. ASSUME NEW p \in Cores, CreateToken(p) PROVE StartupTypeOK'
  BY <1>7, Zenon DEF CreateToken
<1>8. ASSUME NEW p \in Cores, WriteToken(p) PROVE StartupTypeOK'
  BY <1>8, Zenon DEF WriteToken
<1>9. ASSUME NEW p \in Cores, OpenStore(p) PROVE StartupTypeOK'
  <2>1. CASE p \in Checks
    <3>1. /\ session' = [w \in Listeners |-> w # p /\ session[w]]
          /\ cut' = [cut EXCEPT ![p] = FALSE]
      BY <1>9, <2>1, Zenon DEF OpenStore, Gone
    <3>2. session' \in [Listeners -> BOOLEAN] /\ cut' \in [Cores -> BOOLEAN]
      BY <3>1, Zenon
    <3> QED BY <1>9, <2>1, <3>2 DEF OpenStore, Gone
  <2>2. CASE p \notin Checks
    BY <1>9, <2>2 DEF OpenStore
  <2> QED BY <2>1, <2>2, Zenon
<1>10. ASSUME NEW p \in Cores, Cleanup(p) PROVE StartupTypeOK'
  BY <1>10 DEF Cleanup, FailNew
<1>11. ASSUME NEW p \in Cores, Unbind(p) PROVE StartupTypeOK'
  BY <1>11, Zenon DEF Unbind
<1>12. ASSUME NEW p \in Cores, Unlock(p) PROVE StartupTypeOK'
  BY <1>12, Zenon DEF Unlock, Gone
<1>13. ASSUME NEW p \in Cores, ServeEnds(p) PROVE StartupTypeOK'
  BY <1>13, Zenon DEF ServeEnds
<1>14. ASSUME NEW p \in Cores, NEW ok \in BOOLEAN, Shutdown(p, ok) PROVE StartupTypeOK'
  <2>1. session' \in [Listeners -> BOOLEAN]
    <3>1. session' = [session EXCEPT ![p] = FALSE] \/ session' = session
      BY <1>14, Zenon DEF Shutdown
    <3> QED BY <3>1, Zenon
  <2>2. faults' \in 0 .. MaxFaults /\ kernel' \in Listeners \cup {Nobody, "orphan", "left"}
    BY <1>14 DEF Shutdown, MayFail
  <2> QED BY <2>1, <2>2, <1>14, Zenon DEF Shutdown
<1>15. ASSUME NEW p \in Cores, StopTimeout(p) PROVE StartupTypeOK'
  BY <1>15, Zenon DEF StopTimeout, Gone
<1>16. ASSUME NEW p \in Cores, NewFails(p) PROVE StartupTypeOK'
  BY <1>16 DEF NewFails, MayFail, FailNew
<1>17. ASSUME NEW p \in Cores, KillCore(p) PROVE StartupTypeOK'
  BY <1>17 DEF KillCore, Gone, MayFail
<1>18. ASSUME NEW p \in Cores, Connect(p) PROVE StartupTypeOK'
  BY <1>18, Zenon DEF Connect
<1>19. ASSUME NEW p \in Cores, Disconnect(p) PROVE StartupTypeOK'
  BY <1>19, Zenon DEF Disconnect
<1>20. ASSUME NEW p \in Cores, Cancel(p) PROVE StartupTypeOK'
  BY <1>20 DEF Cancel, MayFail
<1>21. ASSUME NEW p \in Cores, Drain(p) PROVE StartupTypeOK'
  BY <1>21, Zenon DEF Drain, Gone
<1>22. ASSUME NEW clean \in BOOLEAN, OldExits(clean) PROVE StartupTypeOK'
  BY <1>22, Zenon DEF OldExits
<1>23. CASE UNCHANGED startVars
  BY <1>23, Zenon
<1> QED
  BY <1>1, <1>2, <1>3, <1>4, <1>5, <1>6, <1>7, <1>8, <1>9, <1>10, <1>11, <1>12,
     <1>13, <1>14, <1>15, <1>16, <1>17, <1>18, <1>19, <1>20, <1>21, <1>22, <1>23,
     SMTT(30), ZenonT(30)
  DEF StartupNext, Advance

LEMMA OrderStep ==
    ASSUME SInv, [StartupNext]_startVars
    PROVE  (Exclusive /\ OldBound /\ Bound /\ Dead)'
<1> DEFINE Order == Exclusive /\ OldBound /\ Bound /\ Dead
<1> USE StartupAssumption DEF SInv, StartupTypeOK, Stages, Cores, Listeners, Goto, hostVars,
        fileVars, startVars, Exclusive, OldBound, Bound, Dead, HasLock, HasPath
<1>1. ASSUME NEW p \in Cores, StartCore(p) PROVE Order'
  BY <1>1 DEF StartCore
<1>2. ASSUME NEW p \in Cores, LockInstance(p) PROVE Order'
  BY <1>2 DEF LockInstance
<1>3. ASSUME NEW p \in Cores, Dial(p) PROVE Order'
  BY <1>3, Zenon DEF Dial
<1>4. ASSUME NEW p \in Cores, Remove(p) PROVE Order'
  BY <1>4 DEF Remove
<1>5. ASSUME NEW p \in Cores, Bind(p) PROVE Order'
  BY <1>5 DEF Bind
<1>6. ASSUME NEW p \in Cores, LoadToken(p) PROVE Order'
  BY <1>6 DEF LoadToken, FailNew
<1>7. ASSUME NEW p \in Cores, CreateToken(p) PROVE Order'
  BY <1>7, Zenon DEF CreateToken
<1>8. ASSUME NEW p \in Cores, WriteToken(p) PROVE Order'
  BY <1>8, Zenon DEF WriteToken
<1>9. ASSUME NEW p \in Cores, OpenStore(p) PROVE Order'
  BY <1>9 DEF OpenStore, Gone
<1>10. ASSUME NEW p \in Cores, Cleanup(p) PROVE Order'
  BY <1>10 DEF Cleanup, FailNew
<1>11. ASSUME NEW p \in Cores, Unbind(p) PROVE Order'
  BY <1>11, Zenon DEF Unbind
<1>12. ASSUME NEW p \in Cores, Unlock(p) PROVE Order'
  BY <1>12 DEF Unlock, Gone
<1>13. ASSUME NEW p \in Cores, ServeEnds(p) PROVE Order'
  BY <1>13, Zenon DEF ServeEnds
<1>14. ASSUME NEW p \in Cores, NEW ok \in BOOLEAN, Shutdown(p, ok) PROVE Order'
  BY <1>14, Zenon DEF Shutdown, MayFail
<1>15. ASSUME NEW p \in Cores, StopTimeout(p) PROVE Order'
  BY <1>15 DEF StopTimeout, Gone
<1>16. ASSUME NEW p \in Cores, NewFails(p) PROVE Order'
  BY <1>16 DEF NewFails, MayFail, FailNew
<1>17. ASSUME NEW p \in Cores, KillCore(p) PROVE Order'
  BY <1>17, Zenon DEF KillCore, Gone, MayFail
<1>18. ASSUME NEW p \in Cores, Connect(p) PROVE Order'
  BY <1>18, Zenon DEF Connect
<1>19. ASSUME NEW p \in Cores, Disconnect(p) PROVE Order'
  BY <1>19, Zenon DEF Disconnect
<1>20. ASSUME NEW p \in Cores, Cancel(p) PROVE Order'
  BY <1>20, Zenon DEF Cancel, MayFail
<1>21. ASSUME NEW p \in Cores, Drain(p) PROVE Order'
  BY <1>21 DEF Drain, Gone
<1>22. ASSUME NEW clean \in BOOLEAN, OldExits(clean) PROVE Order'
  BY <1>22 DEF OldExits
<1>23. CASE UNCHANGED startVars
  BY <1>23, Zenon
<1> QED
  BY <1>1, <1>2, <1>3, <1>4, <1>5, <1>6, <1>7, <1>8, <1>9, <1>10, <1>11, <1>12,
     <1>13, <1>14, <1>15, <1>16, <1>17, <1>18, <1>19, <1>20, <1>21, <1>22, <1>23,
     SMTT(30), ZenonT(30)
  DEF StartupNext, Advance

LEMMA SessionStep ==
    ASSUME SInv, [StartupNext]_startVars
    PROVE  (Routed /\ Known)'
<1> DEFINE Goal == Routed /\ Known
<1> USE StartupAssumption DEF SInv, StartupTypeOK, Stages, Cores, Listeners, Goto, hostVars,
        fileVars, startVars, Exclusive, OldBound, Bound, HasLock, HasPath, Routed, Known
<1>1. ASSUME NEW p \in Cores, StartCore(p) PROVE Goal'
  BY <1>1, Zenon DEF StartCore
<1>2. ASSUME NEW p \in Cores, LockInstance(p) PROVE Goal'
  BY <1>2 DEF LockInstance
<1>3. ASSUME NEW p \in Cores, Dial(p) PROVE Goal'
  BY <1>3, Zenon DEF Dial
<1>4. ASSUME NEW p \in Cores, Remove(p) PROVE Goal'
  BY <1>4 DEF Remove
<1>5. ASSUME NEW p \in Cores, Bind(p) PROVE Goal'
  BY <1>5 DEF Bind
<1>6. ASSUME NEW p \in Cores, LoadToken(p) PROVE Goal'
  BY <1>6 DEF LoadToken, FailNew
<1>7. ASSUME NEW p \in Cores, CreateToken(p) PROVE Goal'
  BY <1>7 DEF CreateToken
<1>8. ASSUME NEW p \in Cores, WriteToken(p) PROVE Goal'
  BY <1>8 DEF WriteToken
<1>9. ASSUME NEW p \in Cores, OpenStore(p) PROVE Goal'
  BY <1>9 DEF OpenStore, Gone
<1>10. ASSUME NEW p \in Cores, Cleanup(p) PROVE Goal'
  BY <1>10 DEF Cleanup, FailNew
<1>11. ASSUME NEW p \in Cores, Unbind(p) PROVE Goal'
  BY <1>11, Zenon DEF Unbind
<1>12. ASSUME NEW p \in Cores, Unlock(p) PROVE Goal'
  BY <1>12, Zenon DEF Unlock, Gone
<1>13. ASSUME NEW p \in Cores, ServeEnds(p) PROVE Goal'
  BY <1>13 DEF ServeEnds
<1>14. ASSUME NEW p \in Cores, NEW ok \in BOOLEAN, Shutdown(p, ok) PROVE Goal'
  BY <1>14 DEF Shutdown, MayFail
<1>15. ASSUME NEW p \in Cores, StopTimeout(p) PROVE Goal'
  BY <1>15, Zenon DEF StopTimeout, Gone
<1>16. ASSUME NEW p \in Cores, NewFails(p) PROVE Goal'
  BY <1>16 DEF NewFails, MayFail, FailNew
<1>17. ASSUME NEW p \in Cores, KillCore(p) PROVE Goal'
  BY <1>17, Zenon DEF KillCore, Gone, MayFail
<1>18. ASSUME NEW p \in Cores, Connect(p) PROVE Goal'
  BY <1>18 DEF Connect
<1>19. ASSUME NEW p \in Cores, Disconnect(p) PROVE Goal'
  BY <1>19 DEF Disconnect
<1>20. ASSUME NEW p \in Cores, Cancel(p) PROVE Goal'
  BY <1>20, Zenon DEF Cancel, MayFail
<1>21. ASSUME NEW p \in Cores, Drain(p) PROVE Goal'
  BY <1>21, Zenon DEF Drain, Gone
<1>22. ASSUME NEW clean \in BOOLEAN, OldExits(clean) PROVE Goal'
  BY <1>22, Zenon DEF OldExits
<1>23. CASE UNCHANGED startVars
  BY <1>23, Zenon
<1> QED
  BY <1>1, <1>2, <1>3, <1>4, <1>5, <1>6, <1>7, <1>8, <1>9, <1>10, <1>11, <1>12,
     <1>13, <1>14, <1>15, <1>16, <1>17, <1>18, <1>19, <1>20, <1>21, <1>22, <1>23,
     SMTT(30), ZenonT(30)
  DEF StartupNext, Advance

LEMMA Inductive == StartupSpec => []SInv
<1>1. SInv /\ [StartupNext]_startVars => SInv'
  BY TypeStep, OrderStep, SessionStep, Zenon DEF SInv
<1> QED BY <1>1, StartInit, PTL DEF StartupSpec

-----------------------------------------------------------------------------
(***************************************************************************)
(* The theorems.                                                           *)
(***************************************************************************)

\* No core of any number takes the routes of a session that is up: neither
\* tunroute.Cleanup of one that starts, nor one that closes or only checks.
THEOREM SessionsKeepRoutes == StartupSpec => []RoutesKept
<1>1. SInv => RoutesKept
  BY Zenon DEF SInv, Routed, RoutesKept, Listeners
<1> QED BY <1>1, Inductive, PTL

\* The endpoint leads to the core that serves, whatever removeLeftover removed
\* before it.
THEOREM EndpointLeads == StartupSpec => []EndpointReached
<1>1. SInv => EndpointReached
  BY Zenon DEF SInv, Bound, HasPath, EndpointReached
<1> QED BY <1>1, Inductive, PTL

\* A service that serves authenticates with the token LoadOrCreateToken left on
\* disk, or a -check core has written another one.
THEOREM TokenAgrees == StartupSpec => []TokenOnDisk
<1>1. SInv => TokenOnDisk
  BY Zenon DEF SInv, Known, TokenOnDisk
<1> QED BY <1>1, Inductive, PTL

-----------------------------------------------------------------------------
(***************************************************************************)
(* The home directory of mihomo.  PoolMatches is not inductive: the marker *)
(* file links what is on disk to what an engine may have in memory.  While *)
(* a start resets the database no engine runs (Alone); a marker that names *)
(* a pool vouches for the database (Vouched); an engine runs with the pool *)
(* the marker names or with none (Marked).                                 *)
(***************************************************************************)

Before == {"idle", "stat", "copy", "rename", "test", "mark", "reset", "record", "write", "spawn"}
Engines == [phase : {"down", "loading", "suspended", "running"},
            pool : Pools \cup {NoPool}, mem : Pools \cup {NoPool}]

Alone ==
    /\ DOMAIN at = Workers /\ want \in Pools \cup {NoPool} /\ eng \in Engines
    /\ at.life \in Before => eng = Down

Vouched ==
    /\ marker \in Pools => cache \in {NoPool, marker}
    /\ at.life \in {"record", "write"} => cache = NoPool
    /\ at.life = "spawn" /\ want \in Pools => marker = want

Marked == eng # Down => {eng.pool, eng.mem} \subseteq {NoPool, marker}

HomeInv == Alone /\ Vouched /\ Marked

LEMMA DownIsEngine == Down \in Engines
BY Zenon DEF Down, Engines

\* Step moves the goroutine it names and leaves the other where it is.
LEMMA StepMoves ==
    ASSUME NEW w \in Workers, NEW from, NEW to, DOMAIN at = Workers, Step(w, from, to)
    PROVE  /\ DOMAIN at' = Workers /\ at[w] = from /\ at'[w] = to
           /\ w # "life" => at'.life = at.life
BY Zenon DEF Step, Workers

\* A step that touches neither the engine nor the pools.
LEMMA QuietStep ==
    ASSUME HomeInv, UNCHANGED <<want, poolVars, eng>>, DOMAIN at' = Workers,
           \/ at'.life = at.life
           \/ /\ at'.life \notin {"record", "write"} /\ (at'.life \in Before => eng = Down)
              /\ at'.life = "spawn" /\ want \in Pools => marker = want
    PROVE  HomeInv'
<1>1. UNCHANGED <<cache, marker, want, eng>>
  BY Zenon DEF poolVars
<1>2. Alone' /\ Vouched' /\ Marked'
  BY <1>1, Zenon DEF HomeInv, Alone, Vouched, Marked, Before
<1> QED BY <1>2, Zenon DEF HomeInv

\* A step after which no engine runs, and which leaves the files.
LEMMA DownStep ==
    ASSUME HomeInv, UNCHANGED <<want, poolVars>>, DOMAIN at' = Workers, eng' = Down,
           at'.life \in {"idle", "stat"} \/ at'.life = at.life
    PROVE  HomeInv'
<1>1. UNCHANGED <<cache, marker, want>>
  BY Zenon DEF poolVars
<1>2. Alone' /\ Vouched' /\ Marked'
  BY <1>1, DownIsEngine, Zenon DEF HomeInv, Alone, Vouched, Marked
<1> QED BY <1>2, Zenon DEF HomeInv

\* A step of an engine, or of a goroutine that leaves it running, with the files
\* as they are.
LEMMA EngineStep ==
    ASSUME HomeInv, UNCHANGED <<want, poolVars>>, DOMAIN at' = Workers, at'.life \notin Before,
           eng' \in Engines, {eng'.pool, eng'.mem} \subseteq {NoPool, marker}
    PROVE  HomeInv'
<1>1. UNCHANGED <<cache, marker, want>>
  BY Zenon DEF poolVars
<1>2. at'.life # "spawn" /\ at'.life \notin {"record", "write"}
  BY Zenon DEF Before
<1>3. Alone' /\ Vouched' /\ Marked'
  BY <1>1, <1>2, Zenon DEF HomeInv, Alone, Vouched, Marked
<1> QED BY <1>3, Zenon DEF HomeInv

\* Prepare and copyFile of both goroutines, validations and upgrades.
LEMMA PrepareKeeps ==
    ASSUME HomeInv,
           \/ \E w \in Workers : \/ PrepareGeo(w) \/ CopyFile(w) \/ RenameGeo(w)
                                 \/ \E ok \in BOOLEAN : Test(w, ok)
           \/ ValidateHome \/ Upgrade \/ ReadMarker
    PROVE  HomeInv'
<1>1. UNCHANGED <<want, poolVars, eng>>
  BY Zenon DEF PrepareGeo, CopyFile, RenameGeo, Test, ValidateHome, Upgrade, ReadMarker
<1>2. DOMAIN at = Workers /\ (at.life \in Before => eng = Down)
  BY Zenon DEF HomeInv, Alone
<1>3. CASE Upgrade
  <2>1. at' = at
    BY <1>3, Zenon DEF Upgrade
  <2> QED BY <1>1, <1>2, <2>1, QuietStep, Zenon
<1>4. CASE ReadMarker
  <2>1. /\ DOMAIN at' = Workers /\ at.life = "mark" /\ at'.life \in {"spawn", "reset"}
        /\ at'.life = "spawn" => want \notin Pools \/ marker = want
    <3>1. Step("life", "mark", IF ~Fake(want) \/ marker = want THEN "spawn" ELSE "reset")
      BY <1>4, Zenon DEF ReadMarker
    <3> DEFINE to == IF ~Fake(want) \/ marker = want THEN "spawn" ELSE "reset"
    <3>2. DOMAIN at' = Workers /\ at.life = "mark" /\ at'.life = to
      <4>1. "life" \in Workers
        BY Zenon DEF Workers
      <4> HIDE DEF to
      <4>2. Step("life", "mark", to)
        BY <3>1, Zenon DEF to
      <4> QED BY <1>2, <4>1, <4>2, StepMoves, Zenon
    <3> QED BY <3>2, Zenon DEF Fake
  <2>2. eng = Down /\ at'.life \notin {"record", "write"}
    BY <1>2, <2>1, Zenon DEF Before
  <2> QED BY <1>1, <2>1, <2>2, QuietStep, Zenon
<1>5. ASSUME NEW w \in Workers, NEW from \in {"idle", "stat", "copy", "rename", "test"},
             NEW to \in {"idle", "stat", "copy", "rename", "test", "mark"}, Step(w, from, to)
      PROVE  HomeInv'
  <2>1. DOMAIN at' = Workers /\ at[w] = from /\ at'[w] = to /\ (w # "life" => at'.life = at.life)
    BY <1>2, <1>5, StepMoves, Zenon
  <2>2. CASE w = "life"
    <3>1. at'.life \notin {"record", "write", "spawn"} /\ eng = Down
      BY <1>2, <2>1, <2>2, Zenon DEF Before
    <3> QED BY <1>1, <2>1, <3>1, QuietStep, Zenon
  <2>3. CASE w # "life"
    BY <1>1, <2>1, <2>3, QuietStep, Zenon
  <2> QED BY <2>2, <2>3, Zenon
<1>6. "probe" \in Workers
  BY Zenon DEF Workers
<1>7. CASE ValidateHome
  BY <1>5, <1>6, <1>7, Zenon DEF ValidateHome
<1>8. ASSUME NEW w \in Workers, PrepareGeo(w) PROVE HomeInv'
  <2>1. Step(w, "stat", "test") \/ Step(w, "stat", "copy")
    BY <1>8, Zenon DEF PrepareGeo
  <2> QED BY <1>5, <2>1, Zenon
<1>9. ASSUME NEW w \in Workers, CopyFile(w) PROVE HomeInv'
  BY <1>5, <1>9, Zenon DEF CopyFile
<1>10. ASSUME NEW w \in Workers, RenameGeo(w) PROVE HomeInv'
  BY <1>5, <1>10, Zenon DEF RenameGeo
<1>11. ASSUME NEW w \in Workers, NEW ok \in BOOLEAN, Test(w, ok) PROVE HomeInv'
  <2>1. Step(w, "test", "mark") \/ Step(w, "test", "idle")
    BY <1>11, Zenon DEF Test
  <2> QED BY <1>5, <2>1, Zenon
<1> QED BY <1>3, <1>4, <1>7, <1>8, <1>9, <1>10, <1>11, Zenon

\* PrepareStart: the database goes, the marker is torn, the marker names the pool.
LEMMA ResetKeeps ==
    ASSUME HomeInv, Record \/ WriteMarker \/ \E ok \in BOOLEAN : Reset(ok)
    PROVE  HomeInv'
<1>1. DOMAIN at = Workers /\ (at.life \in Before => eng = Down) /\ "life" \in Workers
  BY Zenon DEF HomeInv, Alone, Workers
<1>2. UNCHANGED <<want, eng>>
  BY Zenon DEF Record, WriteMarker, Reset
<1>3. ASSUME NEW from \in {"reset", "record", "write"}, NEW to, Step("life", from, to)
      PROVE  DOMAIN at' = Workers /\ at.life = from /\ at'.life = to /\ eng = Down
  <2>1. DOMAIN at' = Workers /\ at.life = from /\ at'.life = to
    BY <1>1, <1>3, StepMoves, Zenon
  <2> QED BY <1>1, <2>1, Zenon DEF Before
<1>4. CASE Record
  <2>1. Step("life", "record", "write") /\ marker' = Torn /\ cache' = cache
    BY <1>4, Zenon DEF Record
  <2>2. DOMAIN at' = Workers /\ at.life = "record" /\ at'.life = "write" /\ eng = Down
    BY <1>3, <2>1, Zenon
  <2>3. cache = NoPool /\ marker' \notin Pools
    BY <2>1, <2>2, PoolsAssumption, Zenon DEF HomeInv, Vouched
  <2>4. Alone' /\ Vouched' /\ Marked'
    BY <1>2, <2>1, <2>2, <2>3, Zenon DEF HomeInv, Alone, Vouched, Marked
  <2> QED BY <2>4, Zenon DEF HomeInv
<1>5. CASE WriteMarker
  <2>1. Step("life", "write", "spawn") /\ marker' = want /\ cache' = cache
    BY <1>5, Zenon DEF WriteMarker
  <2>2. DOMAIN at' = Workers /\ at.life = "write" /\ at'.life = "spawn" /\ eng = Down
    BY <1>3, <2>1, Zenon
  <2>3. cache = NoPool
    BY <2>2, Zenon DEF HomeInv, Vouched
  <2>4. Alone' /\ Vouched' /\ Marked'
    BY <1>2, <2>1, <2>2, <2>3, Zenon DEF HomeInv, Alone, Vouched, Marked
  <2> QED BY <2>4, Zenon DEF HomeInv
<1>6. ASSUME NEW ok \in BOOLEAN, Reset(ok) PROVE HomeInv'
  <2>1. CASE ok
    <3>1. Step("life", "reset", "record") /\ cache' = NoPool /\ marker' = marker
      BY <1>6, <2>1, Zenon DEF Reset
    <3>2. DOMAIN at' = Workers /\ at'.life = "record" /\ eng = Down
      BY <1>3, <3>1, Zenon
    <3>3. Alone' /\ Vouched' /\ Marked'
      BY <1>2, <3>1, <3>2, Zenon DEF HomeInv, Alone, Vouched, Marked
    <3> QED BY <3>3, Zenon DEF HomeInv
  <2>2. CASE ~ok
    <3>1. Step("life", "reset", "idle") /\ cache' = cache /\ marker' = marker
      BY <1>6, <2>2, Zenon DEF Reset
    <3>2. DOMAIN at' = Workers /\ at'.life = "idle" /\ eng' = Down
      BY <1>2, <1>3, <3>1, Zenon
    <3>3. UNCHANGED <<want, poolVars>>
      BY <1>2, <3>1, Zenon DEF poolVars
    <3> QED BY <3>2, <3>3, DownStep, Zenon
  <2> QED BY <2>1, <2>2, Zenon
<1> QED BY <1>4, <1>5, <1>6, Zenon

\* Apply and Reload.
LEMMA ReloadKeeps ==
    ASSUME HomeInv,
           \/ \E p \in Pools \cup {NoPool} : ApplyHome(p)
           \/ \E ok \in BOOLEAN : ReloadHome(ok)
    PROVE  HomeInv'
<1>1. /\ DOMAIN at = Workers /\ (at.life \in Before => eng = Down) /\ "life" \in Workers
      /\ eng \in Engines /\ want \in Pools \cup {NoPool}
  BY Zenon DEF HomeInv, Alone, Workers
<1>2. ASSUME NEW p \in Pools \cup {NoPool}, ApplyHome(p) PROVE HomeInv'
  <2>1. /\ want' = p /\ UNCHANGED <<cache, marker, eng>> /\ DOMAIN at' = Workers
        /\ at.life \in {"idle", "run"}
        /\ at'.life = IF at.life = "run" /\ eng # Down THEN "reload" ELSE "stat"
    BY <1>1, <1>2, Zenon DEF ApplyHome, poolVars
  <2>2. at'.life = "reload" \/ (at'.life = "stat" /\ eng = Down)
    BY <1>1, <2>1, Zenon DEF Before
  <2>3. Alone' /\ Vouched' /\ Marked'
    BY <2>1, <2>2, Zenon DEF HomeInv, Alone, Vouched, Marked, Before
  <2> QED BY <2>3, Zenon DEF HomeInv
<1>3. ASSUME NEW ok \in BOOLEAN, ReloadHome(ok) PROVE HomeInv'
  <2>1. UNCHANGED <<want, poolVars>> /\ at.life = "reload"
    BY <1>3, Zenon DEF ReloadHome
  <2>2. CASE Fake(want) /\ marker # want
    <3>1. Step("life", "reload", "stat") /\ eng' = Down
      BY <1>3, <2>2, Zenon DEF ReloadHome
    <3>2. DOMAIN at' = Workers /\ at'.life = "stat"
      BY <1>1, <3>1, StepMoves, Zenon
    <3> QED BY <2>1, <3>1, <3>2, DownStep, Zenon
  <2>3. CASE ~(Fake(want) /\ marker # want)
    <3>1. Step("life", "reload", "run")
      BY <1>3, <2>3, Zenon DEF ReloadHome
    <3>2. DOMAIN at' = Workers /\ at'.life = "run" /\ at'.life \notin Before
      <4>1. DOMAIN at' = Workers /\ at'.life = "run"
        BY <1>1, <3>1, StepMoves, Zenon
      <4> QED BY <4>1, Zenon DEF Before
    <3>3. CASE eng' = eng
      <4>1. UNCHANGED <<want, poolVars, eng>>
        BY <2>1, <3>3, Zenon
      <4>2. at'.life \notin {"record", "write", "spawn"}
        BY <3>2, Zenon
      <4> QED BY <3>2, <4>1, <4>2, QuietStep, Zenon
    <3>4. CASE Reconfigure /\ eng # Down
      <4>1. {eng.pool, eng.mem} \subseteq {NoPool, marker}
        BY <3>4, Zenon DEF HomeInv, Marked
      <4>2. PICK mem \in {eng.mem, NoPool} :
              eng' = [eng EXCEPT !.pool = want,
                                 !.mem = IF ~Fake(want) THEN mem
                                         ELSE IF eng.mem = NoPool THEN want ELSE eng.mem]
        BY <3>4, Zenon DEF Reconfigure
      <4>3. want \in {NoPool, marker}
        BY <1>1, <2>3, Zenon DEF Fake
      <4> DEFINE kept == IF ~Fake(want) THEN mem
                         ELSE IF eng.mem = NoPool THEN want ELSE eng.mem
      <4>4. eng.mem \in Pools \cup {NoPool} /\ eng.mem \in {NoPool, marker}
        BY <1>1, <4>1, Zenon DEF Engines
      <4>5. kept \in Pools \cup {NoPool} /\ kept \in {NoPool, marker}
        BY <1>1, <4>2, <4>3, <4>4, Zenon
      <4>6. eng' = [eng EXCEPT !.pool = want, !.mem = kept]
        BY <4>2, Zenon
      <4> HIDE DEF kept
      <4>7. eng' \in Engines /\ eng'.pool = want /\ eng'.mem = kept
        BY <1>1, <4>5, <4>6, Zenon DEF Engines
      <4>8. {eng'.pool, eng'.mem} \subseteq {NoPool, marker}
        BY <4>3, <4>5, <4>7, Zenon
      <4> QED BY <2>1, <3>2, <4>7, <4>8, EngineStep, Zenon
    <3> QED BY <1>3, <2>3, <3>3, <3>4, Zenon DEF ReloadHome
  <2> QED BY <2>2, <2>3, Zenon
<1> QED BY <1>2, <1>3, Zenon

\* The rest of start, watch, Stop, and a kill.
LEMMA StartKeeps ==
    ASSUME HomeInv,
           SpawnEngine \/ WaitReady \/ ConfirmStart \/ Watch \/ StopHome \/ EngineDies \/ KillHome
    PROVE  HomeInv'
<1>1. /\ DOMAIN at = Workers /\ (at.life \in Before => eng = Down) /\ "life" \in Workers
      /\ eng \in Engines /\ want \in Pools \cup {NoPool}
  BY Zenon DEF HomeInv, Alone, Workers
<1>2. UNCHANGED <<want, poolVars>>
  BY Zenon DEF SpawnEngine, WaitReady, ConfirmStart, Watch, StopHome, EngineDies, KillHome
<1>3. ASSUME NEW from, NEW to, Step("life", from, to)
      PROVE  DOMAIN at' = Workers /\ at.life = from /\ at'.life = to
  BY <1>1, <1>3, StepMoves, Zenon
<1>4. CASE SpawnEngine
  <2>1. Step("life", "spawn", "ready") /\ eng' = [phase |-> "loading", pool |-> want, mem |-> NoPool]
    BY <1>4, Zenon DEF SpawnEngine
  <2>2. DOMAIN at' = Workers /\ at.life = "spawn" /\ at'.life = "ready"
    BY <1>3, <2>1, Zenon
  <2>3. at'.life \notin Before
    BY <2>2, Zenon DEF Before
  <2>4. want \in {NoPool, marker}
    BY <1>1, <2>2, Zenon DEF HomeInv, Vouched
  <2>5. eng' \in Engines /\ eng'.pool = want /\ eng'.mem = NoPool
    BY <1>1, <2>1, Zenon DEF Engines
  <2>6. {eng'.pool, eng'.mem} \subseteq {NoPool, marker}
    BY <2>4, <2>5, Zenon
  <2> QED BY <1>2, <2>2, <2>3, <2>5, <2>6, EngineStep, Zenon
<1>5. ASSUME NEW from, NEW to \in {"confirm", "run"}, Step("life", from, to), UNCHANGED eng
      PROVE  HomeInv'
  <2>1. DOMAIN at' = Workers /\ at'.life = to
    BY <1>3, <1>5, Zenon
  <2>2. at'.life \notin Before /\ at'.life \notin {"record", "write", "spawn"}
    BY <2>1, Zenon DEF Before
  <2>3. UNCHANGED <<want, poolVars, eng>>
    BY <1>2, <1>5, Zenon
  <2> QED BY <2>1, <2>2, <2>3, QuietStep, Zenon
<1>6. ASSUME NEW from, NEW to \in {"idle", "stat"}, Step("life", from, to), eng' = Down
      PROVE  HomeInv'
  <2>1. DOMAIN at' = Workers /\ at'.life \in {"idle", "stat"}
    BY <1>3, <1>6, Zenon
  <2> QED BY <1>2, <1>6, <2>1, DownStep, Zenon
<1>7. CASE WaitReady
  BY <1>5, <1>6, <1>7, Zenon DEF WaitReady
<1>8. CASE ConfirmStart
  BY <1>5, <1>6, <1>8, Zenon DEF ConfirmStart
<1>9. CASE Watch \/ StopHome
  BY <1>6, <1>9, Zenon DEF Watch, StopHome
<1>10. CASE EngineDies
  <2>1. at' = at /\ eng' = Down
    BY <1>10, Zenon DEF EngineDies
  <2> QED BY <1>1, <1>2, <2>1, DownStep, Zenon
<1>11. CASE KillHome
  <2>1. at' = [w \in Workers |-> "idle"] /\ eng' = Down
    BY <1>11, Zenon DEF KillHome
  <2>2. DOMAIN at' = Workers /\ at'.life = "idle"
    BY <1>1, <2>1, Zenon
  <2> QED BY <1>2, <2>1, <2>2, DownStep, Zenon
<1> QED BY <1>4, <1>7, <1>8, <1>9, <1>10, <1>11, Zenon

\* What the engine does by itself.
LEMMA EngineKeeps ==
    ASSUME HomeInv, EngineLoads \/ EngineResumes \/ EngineAnswers
    PROVE  HomeInv'
<1>1. /\ DOMAIN at = Workers /\ (at.life \in Before => eng = Down) /\ eng \in Engines
  BY Zenon DEF HomeInv, Alone
<1>2. UNCHANGED <<want, marker, at>> /\ eng.phase \in {"loading", "suspended", "running"}
  BY Zenon DEF EngineLoads, EngineResumes, EngineAnswers, poolVars
<1>3. eng # Down
  BY <1>2 DEF Down
<1>4. DOMAIN at' = Workers /\ at'.life \notin Before /\ at'.life = at.life
  BY <1>1, <1>2, <1>3, Zenon
<1>5. {eng.pool, eng.mem} \subseteq {NoPool, marker}
  BY <1>3, Zenon DEF HomeInv, Marked
<1>6. CASE EngineLoads \/ EngineResumes
  <2>1. UNCHANGED <<want, poolVars>>
    BY <1>6, Zenon DEF EngineLoads, EngineResumes
  <2>2. \/ eng' = [eng EXCEPT !.phase = "suspended", !.mem = eng.pool]
        \/ eng' = [eng EXCEPT !.phase = "running"]
    BY <1>6, Zenon DEF EngineLoads, EngineResumes
  <2>3. eng' \in Engines /\ eng'.pool = eng.pool /\ eng'.mem \in {eng.pool, eng.mem}
    BY <1>1, <2>2, Zenon DEF Engines
  <2>4. {eng'.pool, eng'.mem} \subseteq {NoPool, marker}
    BY <1>5, <2>3, Zenon
  <2> QED BY <1>4, <2>1, <2>3, <2>4, EngineStep, Zenon
<1>7. CASE EngineAnswers
  <2>1. cache' = eng.mem /\ eng' = eng
    BY <1>7, Zenon DEF EngineAnswers
  <2>2. cache' \in {NoPool, marker}
    BY <1>5, <2>1, Zenon
  <2>3. at'.life \notin {"record", "write", "spawn"}
    BY <1>4, Zenon DEF Before
  <2>4. Alone' /\ Vouched' /\ Marked'
    BY <1>2, <1>4, <2>1, <2>2, <2>3, Zenon DEF HomeInv, Alone, Vouched, Marked
  <2> QED BY <2>4, Zenon DEF HomeInv
<1> QED BY <1>6, <1>7, Zenon

\* For any pools, releases and kills: an engine that hands out addresses of a pool
\* (mihomo's fake-ip, PrepareStart and Reload) never has another pool's in memory
\* or in the database.
THEOREM PoolsNeverMix == HomeSpec => []PoolMatches
<1>1. HomeInit => HomeInv
  <2> SUFFICES ASSUME HomeInit PROVE HomeInv
    BY Zenon
  <2>1. DOMAIN at = Workers /\ at.life = "idle" /\ want = NoPool /\ marker = NoPool /\ eng = Down
    BY Zenon DEF HomeInit, Workers
  <2>2. Alone /\ Vouched /\ Marked
    BY <2>1, DownIsEngine, PoolsAssumption, Zenon DEF Alone, Vouched, Marked
  <2> QED BY <2>2, Zenon DEF HomeInv
<1>2. ASSUME HomeInv, [HomeNext]_homeVars PROVE HomeInv'
  <2>1. CASE UNCHANGED homeVars
    <3>1. UNCHANGED <<at, want, poolVars, eng>>
      BY <2>1, Zenon DEF homeVars, poolVars
    <3>2. DOMAIN at' = Workers /\ at'.life = at.life
      BY <1>2, <3>1, Zenon DEF HomeInv, Alone
    <3> QED BY <1>2, <3>1, <3>2, QuietStep, Zenon
  <2>2. CASE HomeNext
    <3>1. "life" \in Workers /\ "probe" \in Workers /\ TRUE \in BOOLEAN
      BY Zenon DEF Workers
    <3>2. CASE Starting
      BY <1>2, <3>1, <3>2, PrepareKeeps, ResetKeeps, ReloadKeeps, StartKeeps, Zenon DEF Starting
    <3>3. CASE HomeNext /\ ~Starting
      BY <1>2, <3>1, <3>3, PrepareKeeps, ReloadKeeps, StartKeeps, EngineKeeps, Zenon DEF HomeNext
    <3> QED BY <2>2, <3>2, <3>3, Zenon
  <2> QED BY <1>2, <2>1, <2>2, Zenon
<1>3. HomeInv => PoolMatches
  <2> SUFFICES ASSUME HomeInv, eng # Down, Fake(eng.pool)
               PROVE  {cache, eng.mem} \subseteq {NoPool, eng.pool}
    BY Zenon DEF PoolMatches
  <2>1. eng.pool \in {NoPool, marker} /\ eng.mem \in {NoPool, marker}
    BY Zenon DEF HomeInv, Marked
  <2>2. eng.pool = marker /\ marker \in Pools
    BY <2>1, PoolsAssumption, Zenon DEF Fake
  <2>3. cache \in {NoPool, marker}
    BY <2>2, Zenon DEF HomeInv, Vouched
  <2> QED BY <2>1, <2>2, <2>3, Zenon
<1> QED BY <1>1, <1>2, <1>3, PTL DEF HomeSpec

-----------------------------------------------------------------------------
(***************************************************************************)
(* The store of credentials never refuses its own directory, memory agrees *)
(* with the file, and where a directory can be flushed the store           *)
(* implements SecretMap.                                                   *)
(*                                                                         *)
(* The inductive invariant says what may be in the directory at any time   *)
(* (Good, of the visible and of the durable one), and that what the        *)
(* process has loaded or is writing is what the directory holds.           *)
(***************************************************************************)

Good(dir) ==
    /\ dir.key # None => dir.id # None
    /\ dir.vault # None => /\ dir.key # None
                           /\ dir.vault.key = dir.key
                           /\ dir.vault.id = dir.id

\* A file is being created: it is not there before the rename, and is after.
Creating(file, value) ==
    /\ job.file = file /\ job.data = value /\ value # None
    /\ seen[file] = IF job.phase = "sync" THEN value ELSE None

Loaded ==
    /\ pc \in {"key", "vault", "open"} => id = seen.id /\ id # None
    /\ pc \in {"vault", "open"} => key = seen.key /\ key # None
    /\ pc \in {"down", "id", "key", "vault"} => items = Empty
    /\ pc \notin {"id", "key", "open"} => job = None
    /\ pc = "id" /\ job # None => Creating("id", id)
    /\ pc = "key" /\ job # None => Creating("key", key)

Consistent ==
    pc = "open" =>
      /\ job = None => items = Contents(seen)
      /\ job # None =>
           /\ job.file = "vault"
           /\ job.data = [key |-> key, id |-> id, items |-> items]
           /\ IF job.phase = "sync" THEN seen.vault = job.data
              ELSE prev = Contents(seen)

IInv ==
    /\ VaultTypeOK /\ Good(seen) /\ Good(disk)
    /\ Loaded /\ Consistent /\ NeverRefused

-----------------------------------------------------------------------------

LEMMA EmptyIsMap == Empty \in Maps
BY Zenon DEF Empty, Maps

LEMMA ChangedIsMap ==
    ASSUME NEW map \in Maps, NEW puts \in Maps, NEW deletes \in SUBSET Refs
    PROVE  Changed(map, puts, deletes) \in Maps
BY Zenon DEF Changed, Maps

LEMMA InitInv == Init => IInv
BY EmptyIsMap, Zenon DEF Init, IInv, VaultTypeOK, Dirs, NewDir, Files, Good, Loaded,
                  Consistent, NeverRefused, Contents

\* Nothing is left in memory, and the visible directory is a good one.
LEMMA ForgetInv ==
    ASSUME Forget, seen' \in Dirs, disk' \in Dirs, Good(seen)', Good(disk)'
    PROVE  IInv'
BY EmptyIsMap, Zenon DEF Forget, IInv, VaultTypeOK, Loaded, Consistent, NeverRefused

LEMMA ChangeInv ==
    ASSUME IInv, Ready, NEW next \in Maps, ChangeTo(next)
    PROVE  IInv'
<1>1. /\ pc = "open" /\ job = None /\ pc' = "open" /\ items' = next /\ prev' = items
      /\ job' = [file |-> "vault", phase |-> "write",
                 data |-> [key |-> key, id |-> id, items |-> next]]
      /\ UNCHANGED <<seen, disk, pc, id, key>>
  BY Zenon DEF Ready, ChangeTo, Write
<1>2. key \in Keys /\ id \in Ids /\ items = Contents(seen)
  BY <1>1, Zenon DEF IInv, VaultTypeOK, Loaded, Consistent
<1>3. job' \in Jobs
  BY <1>1, <1>2, Zenon DEF Jobs, Files, Sealed
<1>4. VaultTypeOK'
  BY <1>1, <1>3, Zenon DEF IInv, VaultTypeOK
<1>5. Loaded' /\ Good(seen)' /\ Good(disk)' /\ NeverRefused'
  BY <1>1, Zenon DEF IInv, Loaded, Good, NeverRefused
<1>6. Consistent'
  BY <1>1, <1>2, <1>3, RecordAssumption, Zenon DEF Consistent, Contents
<1> QED BY <1>4, <1>5, <1>6, Zenon DEF IInv

LEMMA StepInv == IInv /\ [Next]_vars => IInv'
<1> SUFFICES ASSUME IInv, [Next]_vars PROVE IInv'
  BY Zenon
<1> USE NoneAssumption, RecordAssumption DEF IInv
<1>1. CASE WriteTemp
  <2>1. job' \in Jobs
    BY <1>1, Zenon DEF WriteTemp, VaultTypeOK, Jobs
  <2> QED BY <1>1, <2>1 DEF WriteTemp, VaultTypeOK, Good, Loaded, Creating, Consistent,
                            Contents, NeverRefused
<1>2. CASE Rename
  <2>1. /\ job \in Jobs /\ job.phase = "rename"
        /\ seen' = [seen EXCEPT ![job.file] = job.data]
        /\ job' = [job EXCEPT !.phase = "sync"]
        /\ UNCHANGED <<disk, pc, id, key, items, prev>>
    BY <1>2, Zenon DEF Rename, VaultTypeOK
  <2>2. job' \in Jobs /\ job'.phase = "sync" /\ job'.file = job.file /\ job'.data = job.data
    BY <2>1, Zenon DEF Jobs
  <2>3. CASE pc = "id"
    <3>1. job.file = "id" /\ job.data = id /\ id \in Ids /\ seen.id = None
      BY <2>1, <2>3, Zenon DEF Loaded, Creating, VaultTypeOK
    <3>2. seen'.id = id /\ seen'.key = seen.key /\ seen'.vault = seen.vault /\ seen' \in Dirs
      BY <2>1, <3>1, Zenon DEF VaultTypeOK, Dirs
    <3> QED BY <2>1, <2>2, <2>3, <3>1, <3>2
           , Zenon DEF VaultTypeOK, Good, Loaded, Creating, Consistent, NeverRefused
  <2>4. CASE pc = "key"
    <3>1. job.file = "key" /\ job.data = key /\ key \in Keys /\ seen.key = None
      BY <2>1, <2>4, Zenon DEF Loaded, Creating, VaultTypeOK
    <3>2. seen'.key = key /\ seen'.id = seen.id /\ seen'.vault = seen.vault /\ seen' \in Dirs
      BY <2>1, <3>1, Zenon DEF VaultTypeOK, Dirs
    <3> QED BY <2>1, <2>2, <2>4, <3>1, <3>2
           , Zenon DEF VaultTypeOK, Good, Loaded, Creating, Consistent, NeverRefused
  <2>5. CASE pc = "open"
    <3>1. /\ job.file = "vault" /\ job.data = [key |-> key, id |-> id, items |-> items]
          /\ id = seen.id /\ key = seen.key /\ id \in Ids /\ key \in Keys
      BY <2>1, <2>5, Zenon DEF Loaded, Consistent, VaultTypeOK
    <3>2. job.data \in Sealed
      BY <3>1 DEF Sealed, VaultTypeOK
    <3>3. seen'.key = key /\ seen'.id = id /\ seen'.vault = job.data /\ seen' \in Dirs
      BY <2>1, <3>1, <3>2, Zenon DEF VaultTypeOK, Dirs
    <3> QED BY <2>1, <2>2, <2>5, <3>1, <3>3
            DEF VaultTypeOK, Good, Loaded, Creating, Consistent, NeverRefused
  <2> QED BY <2>1, <2>3, <2>4, <2>5, Zenon DEF Loaded
<1>3. CASE SyncDir
  <2>1. job \in Jobs /\ job.phase = "sync" /\ pc \in {"id", "key", "open"}
    BY <1>3, Zenon DEF SyncDir, VaultTypeOK, Loaded
  <2>2. VaultTypeOK' /\ Good(seen)' /\ Good(disk)'
    BY <1>3, <2>1, EmptyIsMap, Zenon DEF SyncDir, VaultTypeOK, Good, Jobs, Files
  <2>3. CASE pc = "id"
    BY <1>3, <2>1, <2>2, <2>3
   , Zenon DEF SyncDir, Loaded, Creating, Consistent, NeverRefused, VaultTypeOK
  <2>4. CASE pc = "key"
    BY <1>3, <2>1, <2>2, <2>4
   , Zenon DEF SyncDir, Loaded, Creating, Consistent, NeverRefused, VaultTypeOK
  <2>5. CASE pc = "open"
    <3>1. job.file = "vault" /\ seen.vault = [key |-> key, id |-> id, items |-> items]
      BY <2>1, <2>5, <1>3, Zenon DEF SyncDir, Consistent
    <3>2. seen.vault \in Sealed
      BY <2>5, <3>1 DEF VaultTypeOK, Loaded, Sealed
    <3> QED BY <1>3, <2>2, <2>5, <3>1, <3>2
            DEF SyncDir, Loaded, Consistent, NeverRefused, Contents
  <2> QED BY <2>1, <2>3, <2>4, <2>5, Zenon
<1>4. CASE WriteFails
  <2>1. CASE job.file = "vault"
    <3>1. pc = "open" /\ prev = Contents(seen) /\ job.phase # "sync"
      BY <1>4, <2>1, Zenon DEF WriteFails, Loaded, Creating, Consistent
    <3> QED BY <1>4, <2>1, <3>1, EmptyIsMap
           , Zenon DEF WriteFails, VaultTypeOK, Good, Loaded, Consistent, Contents, NeverRefused
  <2>2. CASE job.file # "vault"
    BY <1>4, <2>2, ForgetInv, Zenon DEF WriteFails, VaultTypeOK, Good
  <2> QED BY <2>1, <2>2, Zenon
<1>5. CASE Start
  BY <1>5, Zenon DEF Start, VaultTypeOK, Good, Loaded, Consistent, NeverRefused
<1>6. CASE LoadOrCreateID
  <2>1. CASE seen.id # None
    BY <1>6, <2>1, Zenon DEF LoadOrCreateID, VaultTypeOK, Good, Loaded, Consistent, NeverRefused, Dirs
  <2>2. CASE seen.id = None
    <3>1. /\ id' \in Ids /\ pc' = "id" /\ pc = "id"
          /\ job' = [file |-> "id", data |-> id', phase |-> "write"]
          /\ UNCHANGED <<seen, disk, key, items, prev>>
      BY <1>6, <2>2, Zenon DEF LoadOrCreateID, Write
    <3>2. job' \in Jobs
      BY <3>1, Zenon DEF Jobs, Files
    <3> QED BY <2>2, <3>1, <3>2
           , Zenon DEF VaultTypeOK, Good, Loaded, Creating, Consistent, NeverRefused
  <2> QED BY <2>1, <2>2, Zenon
<1>7. CASE LoadOrCreateKey
  <2>1. CASE seen.key # None
    BY <1>7, <2>1, Zenon DEF LoadOrCreateKey, VaultTypeOK, Good, Loaded, Consistent, NeverRefused, Dirs
  <2>2. CASE seen.key = None
    <3>1. /\ key' \in Keys /\ pc' = "key" /\ pc = "key"
          /\ job' = [file |-> "key", data |-> key', phase |-> "write"]
          /\ UNCHANGED <<seen, disk, id, items, prev>>
      BY <1>7, <2>2, Zenon DEF LoadOrCreateKey, Write
    <3>2. job' \in Jobs
      BY <3>1, Zenon DEF Jobs, Files
    <3> QED BY <2>2, <3>1, <3>2
           , Zenon DEF VaultTypeOK, Good, Loaded, Creating, Consistent, NeverRefused
  <2> QED BY <2>1, <2>2, Zenon
<1>8. CASE Read
  BY <1>8, EmptyIsMap, Zenon DEF Read, Unseals, VaultTypeOK, Good, Loaded, Creating, Consistent, Contents,
                          NeverRefused, Dirs, Sealed
<1>9. CASE OpenFails \/ Kill
  BY <1>9, ForgetInv, Zenon DEF OpenFails, Kill, VaultTypeOK, Good
<1>10. CASE \E r \in Refs, m \in Materials : Put(r, m)
  <2>1. PICK r \in Refs, m \in Materials : Put(r, m)
    BY <1>10, Zenon
  <2>2. [items EXCEPT ![r] = m] \in Maps
    BY Zenon DEF VaultTypeOK, Maps
  <2> QED BY <2>1, <2>2, ChangeInv, Zenon DEF Put
<1>11. CASE \E r \in Refs : Delete(r)
  <2>1. PICK r \in Refs : Delete(r)
    BY <1>11, Zenon
  <2>2. [items EXCEPT ![r] = None] \in Maps
    BY Zenon DEF VaultTypeOK, Maps
  <2> QED BY <2>1, <2>2, ChangeInv, Zenon DEF Delete
<1>12. CASE \E puts \in Maps, deletes \in SUBSET Refs : ApplyChange(puts, deletes)
  BY <1>12, ChangedIsMap, ChangeInv, Zenon DEF ApplyChange, VaultTypeOK
<1>13. CASE Close
  BY <1>13, EmptyIsMap, Zenon DEF Close, Ready, VaultTypeOK, Good, Loaded, Consistent, NeverRefused
<1>14. CASE Flush
  BY <1>14, Zenon DEF Flush, VaultTypeOK, Good, Loaded, Creating, Consistent, Contents, NeverRefused
<1>15. CASE PowerLoss
  BY <1>15, ForgetInv, Zenon DEF PowerLoss, VaultTypeOK, Good
<1>16. CASE UNCHANGED vars
  BY <1>16 DEF vars, VaultTypeOK, Good, Loaded, Creating, Consistent, Contents, NeverRefused
<1> QED
  BY <1>1, <1>2, <1>3, <1>4, <1>5, <1>6, <1>7, <1>8, <1>9, <1>10, <1>11, <1>12, <1>13,
     <1>14, <1>15, <1>16 DEF Next

LEMMA StoreInductive == Spec => []IInv
BY InitInv, StepInv, PTL DEF Spec

-----------------------------------------------------------------------------

\* secret.Open: no crash, power loss or failed write leaves a directory whose
\* vault its own store.id and master.key cannot open.
THEOREM StoreOpens == Spec => []NeverRefused
<1>1. IInv => NeverRefused
  BY Zenon DEF IInv
<1> QED BY <1>1, StoreInductive, PTL

\* Put, Delete and Apply: between changes Get answers what the vault file
\* holds, whichever writes failed before.
THEOREM MemoryIsFile == Spec => []ReadsTheFile
<1>1. IInv => ReadsTheFile
  BY Zenon DEF IInv, Consistent, ReadsTheFile, Ready, Get
<1> QED BY <1>1, StoreInductive, PTL

LEMMA MapsAgree ==
    /\ Map!Maps = Maps /\ Map!Empty = Empty
    /\ \A map, puts, deletes : Map!Changed(map, puts, deletes) = Changed(map, puts, deletes)
BY Zenon DEF Map!Maps, Maps, Map!Empty, Empty, Map!Changed, Changed

Asked == IF job = None \/ job.file # "vault" THEN None
         ELSE [to |-> job.data.items, done |-> job.phase = "sync"]

LEMMA AskedMoves ==
    ASSUME IInv, Ready, NEW next \in Maps, ChangeTo(next)
    PROVE  /\ Asked = None /\ Asked' = [to |-> next, done |-> FALSE]
           /\ UNCHANGED <<Contents(seen), Contents(disk), pc>>
           /\ items = Contents(seen) /\ pc = "open"
<1>1. job = None /\ pc = "open" /\ items = Contents(seen) /\ key \in Keys /\ id \in Ids
  BY Zenon DEF Ready, IInv, Consistent, Loaded, VaultTypeOK
<1>2. job' = [file |-> "vault", phase |-> "write",
              data |-> [key |-> key, id |-> id, items |-> next]]
  BY Zenon DEF ChangeTo, Write
<1>3. job' \in Jobs
  BY <1>1, <1>2, Zenon DEF Jobs, Files, Sealed
<1>4. Asked' = [to |-> next, done |-> FALSE]
  BY <1>2, <1>3, RecordAssumption, Zenon DEF Asked
<1> QED BY <1>1, <1>4, Zenon DEF Asked, ChangeTo, Contents

\* Put, Delete and Apply are each one request of the map.
LEMMA ChangeAsks ==
    ASSUME IInv, Ready, NEW puts \in Maps, NEW deletes \in SUBSET Refs,
           ChangeTo(Changed(items, puts, deletes))
    PROVE  Map!Ask
<1> DEFINE next == Changed(items, puts, deletes)
<1>1. next \in Maps
  BY ChangedIsMap, Zenon DEF IInv, VaultTypeOK
<1> HIDE DEF next
<1>2. /\ Asked = None /\ Asked' = [to |-> next, done |-> FALSE]
      /\ UNCHANGED <<Contents(seen), Contents(disk), pc>>
      /\ items = Contents(seen) /\ pc = "open"
  BY <1>1, AskedMoves, Zenon DEF next
<1>3. next = Map!Changed(Contents(seen), puts, deletes)
  BY <1>2, MapsAgree, Zenon DEF next
<1> QED BY <1>2, <1>3, MapsAgree, Zenon DEF Map!Ask, Asked

LEMMA PutIsChange ==
    ASSUME NEW map \in Maps, NEW r \in Refs, NEW m \in Materials
    PROVE  /\ [Empty EXCEPT ![r] = m] \in Maps
           /\ [map EXCEPT ![r] = m] = Changed(map, [Empty EXCEPT ![r] = m], {})
BY NoneAssumption, Zenon DEF Maps, Empty, Changed

LEMMA DeleteIsChange ==
    ASSUME NEW map \in Maps, NEW r \in Refs
    PROVE  [map EXCEPT ![r] = None] = Changed(map, Empty, {r})
BY Zenon DEF Maps, Empty, Changed

\* A stop of the process or of the machine, and a clean Close.
LEMMA StopIsCrash ==
    ASSUME job' = None, pc' # "open", UNCHANGED disk, seen' \in {seen, disk}
    PROVE  Map!Crash
BY Zenon DEF Map!Crash, Contents

LEMMA RequestIsRecord ==
    ASSUME NEW s \in Sealed, NEW done \in BOOLEAN
    PROVE  [to |-> s.items, done |-> done] # None
<1>1. s.items \in Maps
  BY Zenon DEF Sealed
<1> QED BY <1>1, RecordAssumption

LEMMA StepImplements ==
    ASSUME DirSync PROVE IInv /\ [Next]_vars => [Map!MapNext]_(Map!mapVars)
<1> SUFFICES ASSUME IInv, [Next]_vars PROVE [Map!MapNext]_(Map!mapVars)
  BY Zenon
<1> USE NoneAssumption, RecordAssumption
<1>1. CASE WriteTemp
  <2>1. UNCHANGED <<seen, disk, pc>> /\ Asked' = Asked
    BY <1>1, Zenon DEF WriteTemp, Asked, IInv, VaultTypeOK, Jobs
  <2> QED BY <2>1, Zenon DEF Map!mapVars, Contents, Asked
<1>2. CASE Rename
  <2>1. /\ job \in Jobs /\ job.phase = "rename"
        /\ seen' = [seen EXCEPT ![job.file] = job.data]
        /\ job' = [job EXCEPT !.phase = "sync"]
        /\ UNCHANGED <<disk, pc>>
    BY <1>2, Zenon DEF Rename, IInv, VaultTypeOK
  <2>2. job' \in Jobs /\ job'.phase = "sync" /\ job'.file = job.file /\ job'.data = job.data
    BY <2>1, Zenon DEF Jobs
  <2>3. CASE job.file = "vault"
    <3>1. job.data \in Sealed /\ seen'.vault = job.data
      BY <2>1, <2>3 DEF IInv, Loaded, Creating, Consistent, VaultTypeOK, Sealed, Dirs
    <3>2. /\ Asked = [to |-> job.data.items, done |-> FALSE]
          /\ Asked' = [to |-> job.data.items, done |-> TRUE]
      BY <2>1, <2>2, <2>3, Zenon DEF Asked
    <3>3. Asked # None
      BY <3>1, <3>2, RequestIsRecord, Zenon
    <3>4. Asked' = [to |-> Asked.to, done |-> TRUE] /\ ~Asked.done /\ Asked.to = job.data.items
      BY <3>2, Zenon
    <3>5. Contents(seen)' = job.data.items
      BY <3>1, Zenon DEF Contents
    <3> QED BY <2>1, <3>3, <3>4, <3>5, Zenon DEF Map!MapNext, Map!Commit, Contents, Asked
  <2>4. CASE job.file # "vault"
    <3>1. Asked = None /\ Asked' = None /\ seen'.vault = seen.vault
      BY <2>1, <2>2, <2>4, Zenon DEF Asked, Jobs, Files, IInv, VaultTypeOK, Dirs
    <3> QED BY <2>1, <3>1 DEF Map!mapVars, Contents, Asked
  <2> QED BY <2>3, <2>4, Zenon
<1>3. CASE SyncDir
  <2>1. CASE job.file = "vault"
    <3>1. job \in Jobs /\ job.phase = "sync" /\ job' = None /\ disk' = seen /\ UNCHANGED seen
      BY <1>3, Zenon DEF SyncDir, IInv, VaultTypeOK
    <3>2. pc = "open" /\ pc' = "open" /\ job.data \in Sealed
      BY <1>3, <2>1, <3>1 DEF SyncDir, IInv, Loaded, Creating, Consistent, VaultTypeOK, Sealed
    <3>3. Asked = [to |-> job.data.items, done |-> TRUE] /\ Asked' = None
      BY <3>1, <2>1, Zenon DEF Asked
    <3>4. Asked # None
      BY <3>2, <3>3, RequestIsRecord, Zenon
    <3> QED BY <3>1, <3>2, <3>3, <3>4, Zenon DEF Map!MapNext, Map!Answer, Contents, Asked
  <2>2. CASE job.file # "vault"
    <3>1. Asked = None /\ Asked' = None /\ disk' = seen /\ UNCHANGED seen
      BY <1>3, <2>2, Zenon DEF SyncDir, Asked
    <3>2. pc # "open" /\ pc' # "open"
      BY <1>3, <2>2, Zenon DEF SyncDir, IInv, VaultTypeOK, Jobs, Files, Loaded, Consistent
    <3> QED BY <3>1, <3>2, Zenon DEF Map!MapNext, Map!Settle, Contents, Asked
  <2> QED BY <2>1, <2>2, Zenon
<1>4. CASE WriteFails
  <2>1. CASE job.file = "vault"
    <3>1. /\ job \in Jobs /\ job.phase # "sync" /\ job' = None
          /\ UNCHANGED <<seen, disk, pc>>
      BY <1>4, <2>1, Zenon DEF WriteFails, IInv, VaultTypeOK
    <3>2. pc = "open" /\ job.data \in Sealed
      BY <2>1, <3>1 DEF IInv, Loaded, Creating, Consistent, VaultTypeOK, Sealed
    <3>3. Asked = [to |-> job.data.items, done |-> FALSE] /\ Asked' = None
      BY <3>1, <2>1, Zenon DEF Asked
    <3>4. Asked # None
      BY <3>2, <3>3, RequestIsRecord, Zenon
    <3> QED BY <3>1, <3>3, <3>4, Zenon DEF Map!MapNext, Map!Refuse, Contents, Asked
  <2>2. CASE job.file # "vault"
    BY <1>4, <2>2, StopIsCrash, Zenon DEF WriteFails, Forget, Map!MapNext
  <2> QED BY <2>1, <2>2, Zenon
<1>5. CASE Start
  BY <1>5, Zenon DEF Start, Map!mapVars, Contents
<1>6. CASE LoadOrCreateID
  <2>1. UNCHANGED <<seen, disk>> /\ Asked = None /\ Asked' = None /\ pc # "open" /\ pc' # "open"
    BY <1>6 DEF LoadOrCreateID, Write, Asked
  <2> QED BY <2>1, Zenon DEF Map!mapVars, Contents, Asked
<1>7. CASE LoadOrCreateKey
  <2>1. UNCHANGED <<seen, disk>> /\ Asked = None /\ Asked' = None /\ pc # "open" /\ pc' # "open"
    BY <1>7 DEF LoadOrCreateKey, Write, Asked
  <2> QED BY <2>1, Zenon DEF Map!mapVars, Contents, Asked
<1>8. CASE Read
  <2>1. CASE pc' = "open"
    BY <1>8, <2>1, Zenon DEF Read, Map!MapNext, Map!Open, Contents
  <2>2. CASE pc' # "open"
    BY <1>8, <2>2, Zenon DEF Read, Map!mapVars, Contents
  <2> QED BY <2>1, <2>2, Zenon
<1>9. CASE OpenFails \/ Kill
  BY <1>9, StopIsCrash, Zenon DEF OpenFails, Kill, Forget, Map!MapNext
<1>10. CASE \E r \in Refs, m \in Materials : Put(r, m)
  <2>1. PICK r \in Refs, m \in Materials : Put(r, m)
    BY <1>10, Zenon
  <2> DEFINE puts == [Empty EXCEPT ![r] = m]
  <2>2. puts \in Maps /\ [items EXCEPT ![r] = m] = Changed(items, puts, {})
    BY PutIsChange DEF IInv, VaultTypeOK
  <2>3. Ready /\ ChangeTo(Changed(items, puts, {}))
    BY <2>1, <2>2, Zenon DEF Put
  <2> HIDE DEF puts
  <2> QED BY <2>2, <2>3, ChangeAsks DEF Map!MapNext
<1>11. CASE \E r \in Refs : Delete(r)
  <2>1. PICK r \in Refs : Delete(r)
    BY <1>11, Zenon
  <2>2. Ready /\ ChangeTo(Changed(items, Empty, {r}))
    BY <2>1, DeleteIsChange, Zenon DEF Delete, IInv, VaultTypeOK
  <2> QED BY <2>2, EmptyIsMap, ChangeAsks DEF Map!MapNext
<1>12. CASE \E puts \in Maps, deletes \in SUBSET Refs : ApplyChange(puts, deletes)
  BY <1>12, ChangeAsks, Zenon DEF ApplyChange, Map!MapNext
<1>13. CASE Close
  BY <1>13, StopIsCrash, Zenon DEF Close, Ready, Map!MapNext
<1>14. CASE Flush
  BY <1>14, Zenon DEF Flush, Map!MapNext, Map!Settle, Contents
<1>15. CASE PowerLoss
  BY <1>15, StopIsCrash, Zenon DEF PowerLoss, Forget, Map!MapNext
<1>16. CASE UNCHANGED vars
  BY <1>16, Zenon DEF vars, Map!mapVars, Contents
<1> QED
  BY <1>1, <1>2, <1>3, <1>4, <1>5, <1>6, <1>7, <1>8, <1>9, <1>10, <1>11, <1>12, <1>13,
     <1>14, <1>15, <1>16 DEF Next

\* Store implements SecretMap where directories can be flushed: every change
\* is whole, a refused one leaves nothing, and an answered one outlives a
\* power loss.
THEOREM StoreIsMap == ASSUME DirSync PROVE Spec => Implements
<1>1. Init => Map!MapInit
  BY MapsAgree, Zenon DEF Init, NewDir, Files, Map!MapInit, Contents
<1>2. IInv /\ [Next]_vars => [Map!MapNext]_(Map!mapVars)
  BY StepImplements
<1> QED BY <1>1, <1>2, StoreInductive, PTL DEF Spec, Implements, Map!MapSpec

=============================================================================
