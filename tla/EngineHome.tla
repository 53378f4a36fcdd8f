----------------------------- MODULE EngineHome -----------------------------
(***************************************************************************)
(* The directory mihomo runs in, across plans, restarts and kills: the     *)
(* database of fake addresses the engine persists (cache.db), the file     *)
(* that says which address pool it belongs to (fakeip-pool), and the geo   *)
(* databases copied from the installation.  The driver's Prepare,          *)
(* PrepareStart, Handshake, ConfirmStart and Reload in engine/mihomo, in   *)
(* the order in which the supervisor's start, Apply and Validate call them.*)
(*                                                                         *)
(* Two goroutines work in the directory: "life" starts and reloads the     *)
(* engine under the supervisor's lifecycle lock, "probe" validates a plan  *)
(* without it.  A file written in place is torn until it is complete.      *)
(***************************************************************************)
EXTENDS Naturals

CONSTANTS
    Pools,        \* fake address pools a plan may ask for, masked
    Versions,     \* releases of the geo databases
    MaxKills      \* bound: kills of the core and failed resets

NoPool == "none"      \* a plan without fake addresses; a file that is missing
Legacy == "legacy"    \* a cache of unknown pool, from a build without the marker
Torn == "torn"

ASSUME PoolsAssumption == NoPool \notin Pools /\ Torn \notin Pools

Workers == {"life", "probe"}

VARIABLES
    shipped,   \* the release beside the engine binary
    geo,       \* the database in the home directory
    temp,      \* the temporary file of each goroutine's copyFile
    at,        \* how far each goroutine is
    want,      \* the pool of the plan the supervisor applies
    cache,     \* whose addresses cache.db holds
    marker,    \* the content of fakeip-pool
    eng,       \* the engine: phase, pool of its configuration, pool in memory
    kills

homeVars == <<shipped, geo, temp, at, want, cache, marker, eng, kills>>
geoVars == <<shipped, geo, temp>>
poolVars == <<cache, marker>>

Down == [phase |-> "down", pool |-> NoPool, mem |-> NoPool]
Fake(p) == p \in Pools

HomeTypeOK ==
    /\ shipped \in Versions /\ geo \in Versions \cup {NoPool, Torn}
    /\ temp \in [Workers -> Versions \cup {NoPool}]
    /\ at.life \in {"idle", "reload", "stat", "copy", "rename", "test", "mark",
                    "reset", "record", "write", "spawn", "ready", "confirm", "run"}
    /\ at.probe \in {"idle", "stat", "copy", "rename", "test"}
    /\ want \in Pools \cup {NoPool}
    /\ cache \in Pools \cup {NoPool, Legacy} /\ marker \in Pools \cup {NoPool, Torn}
    /\ eng \in [phase : {"down", "loading", "suspended", "running"},
                pool : Pools \cup {NoPool}, mem : Pools \cup {NoPool}]
    /\ kills \in 0 .. MaxKills

\* A new home, or the home of a build that kept no marker.
HomeInit ==
    /\ shipped \in Versions /\ geo = NoPool /\ temp = [w \in Workers |-> NoPool]
    /\ at = [w \in Workers |-> "idle"] /\ want = NoPool
    /\ cache \in {NoPool, Legacy} /\ marker = NoPool /\ eng = Down /\ kills = 0

Step(w, from, to) == at[w] = from /\ at' = [at EXCEPT ![w] = to]

-----------------------------------------------------------------------------
(* Prepare and copyFile. *)

\* Validate, and the check that begins every start.
ValidateHome ==
    /\ Step("probe", "idle", "stat")
    /\ UNCHANGED <<geoVars, want, poolVars, eng, kills>>

\* A database of the shipped size that is not older than it is kept.
PrepareGeo(w) ==
    /\ Step(w, "stat", IF geo = shipped THEN "test" ELSE "copy")
    /\ UNCHANGED <<geoVars, want, poolVars, eng, kills>>

\* copyFile opens the shipped file and copies it to a temporary one, which the
\* rename puts in place.
CopyFile(w) ==
    /\ Step(w, "copy", "rename") /\ temp' = [temp EXCEPT ![w] = shipped]
    /\ UNCHANGED <<shipped, geo, want, poolVars, eng, kills>>

RenameGeo(w) ==
    /\ Step(w, "rename", "test") /\ geo' = temp[w] /\ temp' = [temp EXCEPT ![w] = NoPool]
    /\ UNCHANGED <<shipped, want, poolVars, eng, kills>>

\* mihomo -t reads the home directory.  A validation ends here.
Test(w, ok) ==
    /\ Step(w, "test", IF w = "life" /\ ok THEN "mark" ELSE "idle")
    /\ UNCHANGED <<geoVars, want, poolVars, eng, kills>>

\* The package manager replaces the shipped database by a rename.
Upgrade ==
    /\ shipped' \in Versions \ {shipped}
    /\ UNCHANGED <<geo, temp, at, want, poolVars, eng, kills>>

-----------------------------------------------------------------------------
(* PrepareStart: the database goes before the pool is recorded. *)

ReadMarker ==
    /\ Step("life", "mark", IF ~Fake(want) \/ marker = want THEN "spawn" ELSE "reset")
    /\ UNCHANGED <<geoVars, want, poolVars, eng, kills>>

\* An os.Remove that fails ends the start.
ResetLate(ok) ==
    /\ at.life = "reset"
    /\ IF ok THEN Step("life", "reset", "spawn") /\ cache' = NoPool /\ marker' = want
                  /\ UNCHANGED kills
             ELSE Step("life", "reset", "idle") /\ marker' = want
                  /\ kills < MaxKills /\ kills' = kills + 1 /\ UNCHANGED cache
    /\ UNCHANGED <<geoVars, want, eng>>

Reset(ok) ==
    /\ at.life = "reset"
    /\ IF ok THEN Step("life", "reset", "record") /\ cache' = NoPool /\ UNCHANGED kills
             ELSE Step("life", "reset", "idle") /\ UNCHANGED cache
                  /\ kills < MaxKills /\ kills' = kills + 1
    /\ UNCHANGED <<geoVars, want, marker, eng>>

\* os.WriteFile truncates and writes.
Record ==
    /\ Step("life", "record", "write") /\ marker' = Torn
    /\ UNCHANGED <<geoVars, want, cache, eng, kills>>

WriteMarker ==
    /\ Step("life", "write", "spawn") /\ marker' = want
    /\ UNCHANGED <<geoVars, want, cache, eng, kills>>

-----------------------------------------------------------------------------
(* Apply, start and watch of the supervisor. *)

ApplyHome(p) ==
    /\ at.life \in {"idle", "run"} /\ want' = p
    /\ at' = [at EXCEPT !.life = IF at.life = "run" /\ eng # Down THEN "reload" ELSE "stat"]
    /\ UNCHANGED <<geoVars, poolVars, eng, kills>>

\* What the engine does with a configuration it is given while it runs: a pool in
\* memory is kept by a new one, and may be dropped by one without fake addresses.
Reconfigure ==
    /\ \E mem \in {eng.mem, NoPool} :
          eng' = [eng EXCEPT !.pool = want,
                             !.mem = IF ~Fake(want) THEN mem
                                     ELSE IF eng.mem = NoPool THEN want ELSE eng.mem]

\* Reload: live, unless the pool is not the recorded one; then the engine is
\* stopped and started again.  A live reload may fail.
ReloadHome(ok) ==
    /\ at.life = "reload"
    /\ IF Fake(want) /\ marker # want
         THEN Step("life", "reload", "stat") /\ eng' = Down
         ELSE Step("life", "reload", "run") /\ (IF ok /\ eng # Down THEN Reconfigure ELSE UNCHANGED eng)
    /\ UNCHANGED <<geoVars, want, poolVars, kills>>

SpawnEngine ==
    /\ Step("life", "spawn", "ready")
    /\ eng' = [phase |-> "loading", pool |-> want, mem |-> NoPool]
    /\ UNCHANGED <<geoVars, want, poolVars, kills>>

\* waitReady polls Handshake: the controller answers and the proxies are loaded.
\* The start timeout and the exit of the process end the wait.
WaitReady ==
    /\ at.life = "ready"
    /\ \/ eng.phase \in {"suspended", "running"} /\ Step("life", "ready", "confirm")
          /\ UNCHANGED eng
       \/ eng.phase \in {"loading", "down"} /\ Step("life", "ready", "idle") /\ eng' = Down
    /\ UNCHANGED <<geoVars, want, poolVars, kills>>

\* ConfirmStart sends the configuration again: the answer comes once the first
\* one is applied.  A failure stops the process.
ConfirmStart ==
    /\ at.life = "confirm"
    /\ \/ eng.phase = "running" /\ Step("life", "confirm", "run") /\ UNCHANGED eng
       \/ Step("life", "confirm", "idle") /\ eng' = Down
    /\ UNCHANGED <<geoVars, want, poolVars, kills>>

\* watch starts the engine again with the same plan, or gives up.
Watch ==
    /\ eng = Down /\ (Step("life", "run", "stat") \/ Step("life", "run", "idle"))
    /\ UNCHANGED <<geoVars, want, poolVars, eng, kills>>

StopHome ==
    /\ Step("life", "run", "idle") /\ eng' = Down
    /\ UNCHANGED <<geoVars, want, poolVars, kills>>

-----------------------------------------------------------------------------
(* The engine, and a kill of the core with the engine it started. *)

\* The controller opens and the proxies load before traffic is accepted.
EngineLoads ==
    /\ eng.phase = "loading"
    /\ eng' = [eng EXCEPT !.phase = "suspended", !.mem = eng.pool]
    /\ UNCHANGED <<geoVars, at, want, poolVars, kills>>

EngineResumes ==
    /\ eng.phase = "suspended" /\ eng' = [eng EXCEPT !.phase = "running"]
    /\ UNCHANGED <<geoVars, at, want, poolVars, kills>>

\* A name is given an address of the pool in memory, and it is stored.
EngineAnswers ==
    /\ eng.phase = "running" /\ Fake(eng.pool) /\ cache' = eng.mem
    /\ UNCHANGED <<geoVars, at, want, marker, eng, kills>>

EngineDies ==
    /\ eng # Down /\ eng' = Down
    /\ UNCHANGED <<geoVars, at, want, poolVars, kills>>

KillHome ==
    /\ kills < MaxKills /\ kills' = kills + 1
    /\ at' = [w \in Workers |-> "idle"] /\ eng' = Down
    /\ temp' = [w \in Workers |-> NoPool]      \* an abandoned file is never read
    /\ UNCHANGED <<shipped, geo, want, poolVars>>

Starting ==
    \/ PrepareGeo("life") \/ CopyFile("life") \/ RenameGeo("life")
    \/ ReadMarker \/ Record \/ WriteMarker \/ SpawnEngine \/ WaitReady \/ ConfirmStart
    \/ \E ok \in BOOLEAN : Test("life", ok) \/ Reset(ok) \/ ReloadHome(ok)

HomeNext ==
    \/ Starting \/ Watch \/ StopHome \/ \E p \in Pools \cup {NoPool} : ApplyHome(p)
    \/ ValidateHome \/ PrepareGeo("probe") \/ CopyFile("probe")
    \/ RenameGeo("probe") \/ Test("probe", TRUE) \/ Upgrade
    \/ EngineLoads \/ EngineResumes \/ EngineAnswers \/ EngineDies \/ KillHome

\* The goroutine that holds the lifecycle lock takes its next step; nothing is
\* assumed of the engine, of callers and of validations.
HomeSpec == HomeInit /\ [][HomeNext]_homeVars /\ WF_homeVars(Starting)

-----------------------------------------------------------------------------
(* Properties. *)

\* An engine that hands out addresses of a pool never has another pool's in
\* memory or on disk, across pool changes, live reloads, kills and resets that
\* fail: "Remove the database before recording the pool so an interrupted reset
\* retries" (PrepareStart), "Reload can clone the old in-memory pool" (Reload).
PoolMatches ==
    eng # Down /\ Fake(eng.pool) => {cache, eng.mem} \subseteq {NoPool, eng.pool}

\* Neither an engine nor a validation meets a geo database that is half written:
\* "copyFile uses a temporary file so engines never read a partially written
\* database", with a start and a validation copying at once.
GeodataWhole == geo # Torn

\* An engine that the supervisor reports as running accepts connections: the
\* controller and the proxies are there while mihomo is still suspended.
ReportedAccepts == at.life = "run" /\ eng # Down => eng.phase = "running"

\* A start ends, also when the engine never answers or dies while it is awaited:
\* the lifecycle lock is not held for ever.
StartEnds == []<>(at.life \in {"idle", "run"})

=============================================================================
