# Formal model of the Sora core

Sora is a desktop VPN client. A privileged Go process, the *core* (`src/core`),
runs a proxy engine (mihomo, sing-box or Xray) as a child process, routes the
traffic of a TUN adapter to it, and blocks everything else with a firewall table
while the kill switch is on. A Flutter app (`src/app`) talks to it over gRPC.

This directory holds TLA+ models of the core, the TLC configurations that check
them on small instances, and TLAPS proofs for every instance. Paths below are
relative to `src/`.

    tlc -workers 2 -config MCSession.cfg MCSession     # model-check one question
    tlapm SupervisorProofs.tla                         # check the proofs of a module

`PROJECT.json` maps every definition to the lines it models, and lists the
components, runs, theorems, the hazards of the code at their lines, and for each
property a mutated definition under which TLC finds it violated.

## 1. The system and its parts

| Part | Code | Model |
|---|---|---|
| Engine supervisor | `core/engine/supervise`, `core/engine/events.go`, `backoff.go` | `Supervisor` |
| Kill-switch guard; its rule sets on Linux and Windows | `core/guard` | `Guard`; `Filters` |
| Session | `core/session/runner.go`, `session.go`, `network.go` | `Session` |
| Session manager, session RPCs, `App.Close` | `core/session/manager.go`, `core/control/server.go`, `core/cmd/sora-core/main.go` | `Manager` |
| Event journal, `WatchEvents`, the app's cursor | `core/session/journal.go`, `core/control/server.go`, `app/lib/src/sora.dart` | `Journal` |
| Credential vault | `core/secret` | `Vault`, refining `SecretMap` |
| Subscription book and scheduler; its stream | `core/control/subscriptions.go` | `Subscriptions`; `SubFeed` |
| Fetching a subscription | `core/subscription` | `Fetch` |
| Log center and log RPCs | `core/logs`, `core/control/logs.go` | `LogCenter` |
| Plan, validation, presets, choice of an engine | `core/engine/*.go`, `core/routing`, `core/engine/registry` | `Plan` |
| Import of servers, plan of a request | `core/parser`, `core/control/plan.go` | `Request` |
| Renderers of the three engines | `core/engine/singbox`, `xray`, `mihomo` | `SingBox`, `Xray`, `Mihomo` over `Config`; composed in `Pipeline` |
| Policy routes of the TUN adapter | `core/engine/tunroute` | `PolicyRoutes` |
| Xray behind mihomo's TUN adapter | `core/engine/xraytun`, `core/engine/tun.go` | `Bridge` |
| Bypass processes (tpws) | `core/engine/bypass`, `supervise/process.go` | `Bypass` |
| Measuring servers | `core/probe`, `core/control/server.go`, `registry`, `xray/engine.go` | `Measure` |
| Start and end of core processes | `core/cmd/sora-core`, `core/ipc`, `core/control/auth.go` | `Startup` |
| mihomo's home directory | `core/engine/mihomo/engine.go` | `EngineHome` |
| Restart delays, composite guard, redactor, desktop state, engines' HTTP APIs, diagnostics, peer checks, error catalogue, generated code | see `PROJECT.json` | not modelled |

How they interact: an RPC handler calls the manager, which admits one Connect or
Disconnect at a time (`m.busy`) and owns at most one session. The plan of the
session comes out of the pipeline import, vault, request, validation, choice of an
engine, rendering. `Session.Start` arms the guard, applies the plan to the engine
supervisor, waits for the TUN adapter, subscribes to the engine's events and
starts the supervise loop. `Session.Stop` stops the engine, restores the guard,
changes the state and closes the engine. While a session runs, four kinds of
goroutines act on it at once: the supervisor's `watch` goroutines (one per
process), the supervise loop (events and network changes, which re-apply the
plan), handlers that bypass `m.busy` (SetKillSwitch, Select), and the manager's
own Stop. Every state change is journaled, and streams replay and follow the
journal. Beside the sessions, the book of subscriptions fetches server lists on a
schedule and stores them in the vault, and the log center records what engines
and core say.

### What makes it hard

* a restart whose backoff ends after a Stop or another Apply;
* a plan, a link or a session read before a wait and used after it;
* one step of several failing: stop the old engine, start the new one, route,
  arm, restore; what is left must stay owned, so that a retry can remove it;
* mutexes and a flag (`s.lifecycle`, `s.mu`, `s.guardMu`, `m.busy`) taken by
  overlapping calls;
* external commands killed by a deadline after they took effect;
* events published outside the lock that numbers them, to queues that may be
  full, closed or replaced;
* a core killed between any two writes to disk or to the kernel, and the next
  core, or an older one, that finds the half.

### What correct means

The aims, which the properties of section 3 make precise, with the exceptions
named there: at most one engine, always tracked; nothing runs or stays routed after
a clean stop; traffic is blocked exactly when the status says so and never opened
while an engine of a blocked session runs; whatever is owned can be given back;
requests, recoveries and failures come to an end; no event, log line or subscription
state is lost or repeated except where a bound gives it up; what is on disk can
always be read again; and an engine is configured to do what the plan says, as far
as that engine can tell.

## 2. Modules

`Session` EXTENDS `Supervisor` and `Guard` and drives them through their own
actions; `Manager` EXTENDS `Guard` and abstracts a session to what its manager can
observe; `Vault` INSTANCEs `SecretMap`, the abstract specification it implements;
`Pipeline` composes `Plan`, `Request` and the renderers. The others stand alone.
`MC*` modules are what TLC runs. `MCSupervisor`, `MCPlans`, `MCHosts` and `MCCore`
hold several components that share no state: a variable `part`, chosen in the
initial state, says which of them moves.

### Supervisor (core/engine/supervise)

`Apply`, `Stop`, `Close` and both halves of `watch` run under `s.lifecycle`, so
the model has one `holder` and a program counter `pc`:

| Actions | Code |
|---|---|
| `ApplyRefused`, `ApplyBegin`, `Reload`, `Replace` | `Apply`: check, reload a running engine, stop one that cannot reload |
| `Prepare`, `Spawn`, `Ready`, `Route`, `Rollback`, `Finish` | `start`: configuration, child process, handshake, routes, undo, publication |
| `WatchExit`, `WatchRestart` (`GiveUp`, `Allow`) | `watch`: the exit, the budget, the recheck after the backoff, the restart |
| `StopBegin`, `StopEnd`, `CloseCancel` | `Stop`, `Close` |
| `Crash`, `Reap`, `ContextStop` | the operating system's side of a child |
| `Publish`, `Subscribe`, `Unsubscribe`, `Deliver` | the event bus and its bounded queue |

Each step that takes time is an action of its own and fails or succeeds
nondeterministically, so a child may die between any two. A process that was
killed and does not exit in time stays `"killed"`: the code returns an error then.

### Guard (core/guard)

`table` is the stack of rulesets in the kernel, `armed` what `Guard` remembers.
One run of `nft` is `"ok"`, `"refused"` (nothing changed, error) or `"cut"` (the
deadline killed it after the commit: changed *and* error). `nft -f` adds rules to
a chain that exists and every ruleset ends in a drop, so the oldest decides;
`delete table` fails without a table. `Restart` is a core that died and came back.
That behaviour of `nft` is modelled from the text of the rulesets the code sends.

### Session (core/session/runner.go)

`spc` is the goroutine that runs `Start` and later `Stop` (the manager never runs
two at once), `loop` the supervise goroutine, `kill` a SetKillSwitch holding
`guardMu`, `sel` a Select of the Xray driver, which re-applies the plan. `Stop`
holds `s.mu` during `eng.Close`, which `MuFree` expresses. `CutShort` says that an
Apply under a cancelled session context cannot succeed. Event kinds that only
produce journal entries are not on the model's bus.

### Manager (core/session/manager.go, core/control/server.go)

One goroutine per client and one for `App.Close`; a request may name a session or
none. `Connect` and `Disconnect` follow `m.busy`; `SetKillSwitch` reads
`m.current`, checks the name (a second read), and then calls the session. A
session may fail by itself at any time (`SessionFails`). An Apply that a renewal or
a Select began before Stop may reach the engine after it (`LateApply`) and start it
again; `still` is what `eng.State()` says, which a repeated Stop goes by, and a
`watch` whose context is cancelled says "stopped" of an engine it has not stopped
(`WatchCancelled`). Session identifiers are distinct in the model.

### Journal and SubFeed (what clients are told)

`AppendEvent` numbers, stores and copies the subscriber set; `Send` delivers to
one subscriber at a time, after the lock is gone. A stream subscribes, reads the
head, reads the history, sends it, then follows its queue and drops what the
replay covered. The client moves its cursor to the last event it received and
opens the next stream from there.

`SubFeed` is the stream of subscription states: the queue is registered first, the
list taken after it, and operations of the book fall between the two. A record is
its link and a revision.

### Vault and SecretMap (core/secret)

`seen` is the directory as processes see it, `disk` what a power loss leaves. Each
file is written by `WriteTemp`, `Rename`, `SyncDir`, any of which may fail, and a
kill (`Kill`) or a power loss (`PowerLoss`) may come between any two. `Start`,
`LoadOrCreateID`, `LoadOrCreateKey` and `Read` are `Open`; `Put`, `Delete` and
`ApplyChange` begin a change. A sealed file opens with its own identifier and key
only. `SecretMap` is the promise: a map changed by whole requests, where a change
that was answered survives and a crash undoes at most what was not.

### Subscriptions and Fetch

`save`, `delete` and the two halves of `refresh` are atomic under `b.mu`; between
the halves a link is fetched without the lock (`fetch[i]`). The scheduler is
`Scan`, `Launch`, `Sleep`, `Wake`. `Restart` is a new core that loads the vault.
`Fetch` is one retrieval: `Fetch` validates, `HopDial` resolves and checks the
address of the connection, `Redirected` or `Answered` handles the response,
`ReadBody` reads up to the limit. A name may resolve differently at every lookup.

### LogCenter (core/logs)

Every call holds `c.mu` and is one action: `Write` (fold or append, then evict),
`SetSettings`, `Clear`, the page of a query, and a watcher's replay, queue, loss
and resumption. A loop that selects entries is the set of their places.

### Plan, Request, Config, SingBox, Xray, Mihomo, Pipeline

Functions from a request and a machine to a plan, an engine and a configuration.
An id or a name is a sequence of tokens, one per stretch of characters the code
treats alike, so trimming and sanitising do to it what the code does. `Config` says
what an engine does with a configuration (`Decision`, `Exits`) and, independently,
what a rule and a target of a plan mean (`PlanMeets`, `PlanExits`); the properties
compare the two. A flow is what the rules can test of it; it is `named` when its
client asked for a hostname, and then its address is known only to an engine that
resolves the name: mihomo at the first rule by address without `no-resolve`, Xray on
the second pass of `IPIfNonMatch`, which its explicit last rule keeps from ever
coming, sing-box never. Queries through the adapter are flows too. `Pipeline` is
the state machine around them: `Import`, `StartSession`, `SelectClash`,
`SelectXray`, `StopSession`, with the choice an engine saves between sessions.

### PolicyRoutes, Bridge, Bypass, Measure

`PolicyRoutes` keeps the kernel's rule list with priorities; every run of `ip` is a
step that may fail (`Fault`), other programs add rules in the same priorities, and
the core may be killed in between. `Bridge` runs two supervised children, mihomo in
front of Xray's SOCKS port, under `Apply` with its undo, `Stop` and `Close`, with
one relay of events per child and the session above. A child publishes "starting"
and "running" when it is started and when it is restarted, a relay combines both
states when it takes an event and publishes the result later. `Bypass` has the `keep`
goroutine of every proxy and a renewal that may overlap `Stop`. `Measure` is one
ProbeServers request with each goroutine and channel, while other requests take
the prober's slots and the client may leave.

### Startup, EngineHome, Filters

`Startup` runs several service cores, cores started with `-check` and one of an
older build on a data directory, each step of `New`, `Serve` and `Close` apart,
with kills and the service manager. `EngineHome` is mihomo's directory: cache.db,
the marker of its address pool, the geo databases, under a start and a validation
at once. `Filters` gives both rule sets as functions from packets to verdicts, for the
default bypass networks and for ones that hold every address, the tunnel's own
included, and installs the Windows set rule by rule.

## 3. Runs

### Runs that pass

| Run | Properties | Instance |
|---|---|---|
| `supervisor` | `OneEngine`, `StopIsFinal`, `AckedPlanRuns`, `StopReleasesRoutes`; `EventCovered`, `NoRepeat` | one caller, two plans (one TUN), 3 processes, budget 1; two appenders, 2 events, history and queues of 1, 2 streams |
| `session_safety` | `BlockHolds`, `EngineBehindGuard`, `StopCleans` | 2 processes, one renewal, one Select, both kill-switch changes, a queue of one; 2.4 million states |
| `session_progress` | `FailureReported`, `StopReturns` | one process, one renewal, both kill-switch changes |
| `session_reconnect` | `ReconnectEnds`, `EngineRecovers` | 2 processes, one renewal |
| `manager` | `OneOwner`, `OwnerReachable`, `BlockOwned`, `KillHitsNamed`, `BusyEnds` | two clients, App, 2 sessions, one late Apply; 0.6 million states |
| `subscriptions` | `VaultMatchesBook`, `ListFromOwnLink`, `DueIsAttempted` | 2 subscriptions, 2 links, 2 servers, one slot, 3 events, a shutdown or crash |
| `plans` | `RoutesPreserved`, `ChoiceSurvives`, `LayersKept`; `PagesAreWhole`, `NothingSkipped` | six machines, 114 documents and 824 requests; 3 log writes, pages of one |
| `hosts` | `NoLoop`, `CleanIsEmpty`; `ShownIsTrue`; `StoppedEnds`; `AllAnswered`; `DialsChecked` | see `MCHosts.cfg`; 0.4 million states |
| `core` | `RoutesKept`, `TokenOnDisk`, `OrphansEnd`; `PoolMatches`; `OnlyAllowedLeaves`; `NeverRefused`, `Implements`; `ViewCurrent` | see `MCCore.cfg` |

What they show:

* **supervisor**: whatever the order of calls, exits, failed steps and delayed
  restarts, one tracked engine runs the acknowledged plan, none runs after Stop,
  and a Stop that returns nil owns no routes. No event falls between replay and
  live delivery, and a stream sends none twice.
* **session_safety**: the firewall is what the status says, the engine of a blocked
  session runs only behind the block, and a first Stop that returns nil has removed
  everything, provided no Select was called (`session_late_select` shows why).
* **session_progress**, **session_reconnect**: a queued failure reaches the state,
  Stop returns although others hold its mutexes, reconnecting ends, an exited engine
  is restarted, given up or stopped.
* **manager**: racing clients never make two owners or an owner out of reach, where
  an owner has the guard, or an engine that no late Apply brought back; no block is
  without a session that owns the guard; a kill-switch change that names a session
  hits no other; and every Connect and Disconnect gives `m.busy` back. An engine that
  a late Apply did bring back may be out of reach: `EngineReachable` below.
* **subscriptions**: what a restart would load is what the book holds and no
  credential is orphaned, where only the book changes its part of the vault; a list
  is stored only under the link it came from; a due subscription is attempted.
* **plans**: the engine that decides about a flow sends it where the first rule of
  the plan points that the flow meets *as far as that engine knows its address*, and
  a query through the adapter to its resolver. Xray balances over a subset of an
  automatic group, and a provider's profile decides where the plan says "proxy". So
  the same plan may send a flow with a hostname different ways on different engines
  (`EnginesAgree` below). No renderer drops a layer of a connection, and a choice
  survives the session. A client that pages the log sees each entry that stayed once;
  a follower skips none without being told.
* **hosts**: while routes are installed and in force, packets of the engine do not
  return into the tunnel, and a cleanup that succeeds leaves no rule of the core's;
  when the events of a bridge have settled, its session does not show connected over
  an engine that was given up or stopped (one that is being brought back it may, see
  `ConnectedIsRunning` below); bypass processes end; a measurement answers for each
  server; a fetch that was not asked for a local reference dials no local address.
* **core**: no other core takes a session's routes or endpoint, and orphaned routes
  end; address pools never mix; a complete rule set of the kill switch lets out
  nothing beyond what `MayLeave` lists; the vault opens after any crash and implements
  `SecretMap`; a watcher sees the book.

### Statements that hold and are not part of a run

The modules state more, to be added to the `.cfg` of the run when a part is changed.
TLC finds no violation of them on these instances:

| Instance | Statements |
|---|---|
| `MCSupervisor.cfg` | `TypeOK`, `JournalTypeOK` |
| `MCSession.cfg`, `MCManager.cfg` | `SessionTypeOK`; `ManagerTypeOK` |
| `MCSubscriptions.cfg` | `SubsTypeOK`, `LinksDiffer`, `SlotsKept` |
| `MCPlans.cfg` | `PipelineTypeOK`, `GroupsAcyclic`, `SelectHonoured`, `LoginKept`, `PlainPlansStart`; `LogTypeOK`, `Accounted`, `LossEndsStream` (property) |
| `MCHosts.cfg` | `HostsTypeOK`, `TunnelTakesAll`, `OthersKept` (property), `ReceiverFirst`, `NotHalf`, `Settles`, `AdapterPermitted`, `OneListener`, `PortsKept`, `ComesBack` (property), `AnsweredOnce`, `FreedBeforeEnd`, `GoroutinesEnd` (property), `HopsBounded`, `NeverTruncated` |
| `MCCore.cfg` | `StartupTypeOK`, `EndpointReached`, `HomeTypeOK`, `GeodataWhole`, `ReportedAccepts`, `StartEnds` (property), `FilterTypeOK`, `EnginesReach`, `NoHalfSwitch`, `PlatformsAgree`, `VaultTypeOK`, `ReadsTheFile`, `FeedTypeOK`, `DeletionIsFinal` (property) |

### Runs that show a disagreement between the code and its own words

Each checks one property that a comment of the repository states; the quotes are
in the findings of `PROJECT.json`.

| Run | What happens |
|---|---|
| `guard_restore_stuck` | a Disarm cut short after its commit can never be repeated with success |
| `session_late_select` | a Select that began before Stop starts an engine after it |
| `subscriptions_new_link` | a link changed while the old one is fetched is not fetched at once: the refresh of `save` finds an update running, which then discards its result |

The modules also define statements of comments that do not hold and have no run of
their own. To see the counterexample, check the statement alone on the instance
named:

| Statement | Instance | What happens |
|---|---|---|
| `FailedIsTerminal` (property) | `MCSupervisor.cfg` | a failed Apply during a backoff: the failed engine is restarted by the old `watch` (`supervisor.go:589`) |
| `PlanIsWhatRuns` | `MCSupervisor.cfg` | it then runs another plan than `Plan()` reports (`supervisor.go:595`) |
| `StopLeavesNothing` | `MCSupervisor.cfg` | a replaced engine that outlives its kill is forgotten by a Stop that returns nil (`supervisor.go:343`) |
| `RoutesOwned` | `MCSupervisor.cfg` | routes half installed by a failed Route are not owned (`supervisor.go:427`) |
| `NoPanic` | `MCSupervisor.cfg` | a stream that ends during an Append: send on a closed channel (`journal.go:116`) |
| `ReconnectSkipsNothing` | `MCSupervisor.cfg`, `MaxEvents`, `Capacity` and `Buffer` 3 | events published out of order, then a reconnect that skips one (`journal.go:116`) |
| `ArmReplaces` (property) | `MCGuardRepeat.cfg` | Arm over an existing table adds to it instead of replacing it (`nftables_linux.go:50`) |
| `DisconnectedOwnsNothing` | `MCSession.cfg`, `SelectCalls = 0` | a Stop that failed reports disconnected and still owns the block or the routes (`runner.go:280`) |
| `GuardOutlivesEngine` | `MCSession.cfg`, `SelectCalls = 0` | a renewal racing a Stop whose engine step failed revives the engine after the guard is gone (`network.go:111`) |
| `RepeatedStopCleans` | `MCSession.cfg`, `SelectCalls = 0` | the repeated Stop skips the engine and returns nil with routes left (`runner.go:257`) |
| `FailedIsQuiet` (property) | `MCSession.cfg`, `SelectCalls = 0` | an engine starts under a failed session (`runner.go:464`) |
| `FailedStaysBlocked` | `MCSession.cfg`, `Outcomes` with `"cut"` | a cut SetKillSwitch(off): status on, firewall open, then a failure (`runner.go:332`) |
| `NoFailureLost` (property) | `MCSessionProgress.cfg`, `RestartBudget = 0` | a failure between Apply and Subscribe is never noticed |
| `BlockOwned` | `MCManager.cfg`, `Outcomes` with `"cut"` | an Arm cut short after its commit leaves a block nobody lifts (`guard.go:102`) |
| `DisconnectHitsNamed` | `MCManager.cfg` | a Disconnect stops a session it does not name |
| `CloseRestores` | the same | a Connect in flight survives the shutdown with its block on |
| `EngineReachable` | `MCManager.cfg` | an Apply that waited for Stop starts the engine of a session that nobody holds (`supervisor.go:329`) |
| `EnginesAgree` | `MCPlans.cfg` | for a hostname, a rule by address takes effect on mihomo and is passed over by Xray and sing-box (`plan.go:223`) |
| `ConnectedIsRunning` | `MCHosts.cfg` | a late event of one child, published with both states, shows connected while the other is being brought back (`bridge.go:70`) |
| `ImportedLoginUsed` | `MCPipeline`, `MCSpec`, the constants of `MCPlans.cfg` up to `Picks` | a login that an import accepted does not reach the engine |
| `ImportedServerStarts` | the same | an imported server that no plan can be started with |
| `UpdatesEndVisibly` | `MCCore.cfg` | the end of an update that is discarded or not stored is not announced |
| `NeighboursFound` | `MCCore.cfg` | IPv6 neighbour discovery through multicast is dropped with bypass networks on |

### Bounds, and why they are enough

* **Processes** (`MaxProcs`): a late restart needs the process that exited and
  the one that replaces it, and would start a third if the recheck after the
  backoff were wrong; the session runs, which are larger, have two. When the bound
  is reached, starting a child fails, which the code allows. The safety properties
  are proved for every number.
* **Restart budget 1**: both answers of `Allow`, before and after exhaustion.
* **Plans**: two in `Supervisor`, because its stale-plan questions need two; a
  session has only one.
* **`QueueLen`**: 0 where nobody listens; 1 in `session_safety`, so that events are
  dropped; 4 in the liveness runs, at least what can be published while the loop
  sits in one Apply with these processes and renewals. The production queue
  is 128, and `FailureReported` speaks of queued events.
* **Clients and sessions**: two clients race for one session, and a second
  session is what may replace it between two reads. `Division` lets one of them
  connect and disconnect, the other disconnect and change the kill switch: `m.busy`
  admits one Connect anyway, so two SetKillSwitch at once are what is left out.
  **`MaxLate`** 1: one session meets an Apply after its Stop. The proofs have neither bound.
* **Bridge** (`RelaysKeepUp`, `MaxLag` 3): the events of the first start are relayed
  before anything else happens, and no relay is more than three events behind, which
  a crash with its restart publishes. The proofs have no such bound.
* **Journal**: two events through a history of one and queues of one reach
  trimming, overflow and overlap; two appenders reach out-of-order sends; two
  streams reach a reconnect with the old stream still open. The proofs have no bound.
* **Subscriptions**: two of each, so that saves race for a link and fetches for the
  one slot; three events (requests, expired deadlines, shutdowns and crashes), since a
  change, a deletion and a save again of one record are three. Identifiers are random
  and alike, so `DrawnInOrder` keeps one order of drawing them.
* **Logs**: three writes into a record of two, by entries or by bytes, pages of one
  entry and a channel of one beyond the replay: eviction, folding, and loss happen.
* **`MaxFaults`, `MaxBridgeFaults`, `MaxKills`, `MaxMisses`** (2, 2, 2, 1): a fault, and one
  more while it is being repaired.
* **Routes**: one address family, since the code treats them one after the other;
  rules of two other programs and of an older core in the core's own priorities.
* **Measuring**: eight servers of every class, two batches for Xray, one socket.
  **Fetching**: two redirects, a body of two units, names that resolve four ways.
* **Vault**: two references, keys and identifiers, a limit two entries may exceed.
  Kills and power losses are not bounded. **Feed**: two revisions, a queue of two.
* **Pipeline**: one import before the first session, one session after it with the
  choices that were saved; the documents and requests are lists of representatives
  in `MCPipeline`, every protocol, layer, group and rule type among them.
* **`Outcomes`**: the passing runs of `Session` and `Manager` use `nft` runs that
  succeed or are refused; `"cut"` breaks several promises (tables above).
* **`SelectCalls`, `Renewals`**: one each, at any moment of the behaviour; the
  number of kill-switch changes is not bounded.

Deadlock is checked in every run; a part that is over stutters explicitly.

### Fairness

A goroutine that holds a mutex continues, a killed child is reaped, a cancelled
context is noticed (weak fairness). A goroutine that waits for a mutex gets it: Go's
mutex hands itself to a waiter that starves, which is strong fairness of the waiting
step. `select` chooses at random among ready cases, so a queued event is not passed
over for ever (strong fairness of `LoopEvent`). The rest is weak fairness of
goroutines that are never blocked by another for ever: the steps of the scheduler
and of a refresh, of the log stream and a client that reads and resumes, of the
bypass goroutines, of a measurement's goroutines, of a core that starts or ends.
systemd starts a service again that did not end cleanly, which is weak fairness of
`StartCore` unless the exit was clean; the model also starts one again whose start a
signal cut short, which `systemctl stop` would not. Of the manager, a Connect or
Disconnect under way goes on (`Serve`), and so does a SetKillSwitch that holds the
guard mutex it may wait for (`KillEnd`). None is assumed of users, crashes, kills,
network changes, late Applies or the outcomes of external commands.

## 4. What is proved

Eight modules hold proofs, for every value of the constants that satisfies the
named assumptions of the modules they extend. The assumptions are weak: bounds are
naturals (a queue, a page, a capacity at least one), the values that mean "nothing"
are not among the real ones, a request asks for known servers, TUN plans are plans.
TLC evaluates each of them in a run. The bounds that keep TLC finite (`MaxProcs`,
`MaxEvents`, `MaxFaults`, ...) are constants too, so a theorem holds for any number of processes,
events or faults. Each proof finds an inductive invariant, has one step or lemma per
action, and derives the properties from it.

| Module | Theorem | Statement |
|---|---|---|
| `SupervisorProofs` | `TypeCorrect` | `Spec => []TypeOK` |
| | `SingleEngine` | `Spec => []OneEngine`: at most one live engine, never untracked |
| | `StopHolds` | `Spec => []StopIsFinal`: no engine after Stop until the next Apply |
| | `AckedPlanHolds` | `Spec => []AckedPlanRuns`: with nobody at work, the engine runs the plan last acknowledged |
| | `StopFreesRoutes` | `Spec => []StopReleasesRoutes` |
| `SessionProofs` | `SessionHasOneEngine` | `SessionSpec => []OneEngine` |
| | `BlockIsShown`, `EngineIsGuarded`, `StopLeavesClean` | `BlockHolds`, `EngineBehindGuard`, `StopCleans`, where no `nft` run is cut short |
| `ManagerProofs` | `SingleOwner`, `OwnerIsReachable`, `KillSwitchHitsNamed` | `OneOwner`, `OwnerReachable`, `KillHitsNamed` |
| | `BlockHasOwner` | `BlockOwned`, where no `nft` run is cut short |
| `WatchProofs` | `SentOnce`, `NothingBetween` | `NoRepeat`, `EventCovered` of the journal |
| | `WatcherSeesBook` | `ViewCurrent` of the subscription stream |
| `SubscriptionProofs` | `BookIsStored`, `ListsAreOwn` | `VaultMatchesBook`; the action property `ListFromOwnLink` |
| | `PublicStaysPublic`, `HopsAreBounded`, `BodiesAreWhole` | `DialsChecked`, `HopsBounded`, `NeverTruncated` of a fetch |
| `CoreProofs` | `SessionsKeepRoutes`, `EndpointLeads`, `TokenAgrees` | `RoutesKept`, `EndpointReached`, `TokenOnDisk` of cores that start and end |
| | `PoolsNeverMix` | `PoolMatches` of mihomo's home |
| | `StoreOpens`, `MemoryIsFile` | `NeverRefused`, `ReadsTheFile` of the vault |
| | `StoreIsMap` | `Spec => Implements`: the vault refines `SecretMap`, where directories can be flushed (`DirSync`) |
| `HostProofs` | `SessionShowsTruth`, `AdapterIsPermitted`, `ReceiverComesFirst`, `PairIsWhole` | `ShownIsTrue`, `AdapterPermitted`, `ReceiverFirst`, `NotHalf` of the bridge |
| | `EveryServerAnswered` | `AllAnswered` of a measurement |
| `LogProofs` | `PagesMissNothing`, `FollowersSkipNothing` | `PagesAreWhole`, `NothingSkipped` |
| | `RecordIsBounded` | the record is never longer than its setting |

### The arguments

**Supervisor.** `OneEngine` is not inductive. `IInv` adds `Lock` (`holder` is
`"none"` exactly when `pc` is idle, and a restart only runs the steps of `start`),
`Tracked` (where the one live process may be at each `pc`), `Halted` (with
`stopping` set, the holder is in Stop or nothing is alive) and `Waiting` (a `watch`
in its backoff belongs to a process that exited). The last two carry the argument
for late restarts: `WatchRestart` goes on only if `s.proc` is still its own process
and `stopping` is unset, and that process has exited, so no second one can be alive
when it spawns. For the acknowledged plan, `Born`, `Working`, `Acked` and `Parked`
say which plan each holder and each waiting `watch` carries.

**Session.** Whatever a session does to its engine is a step of `Supervisor`, so
`IInv` holds of it (`EngineInv`). `Calls` says who may be inside the engine at each
step of Start and Stop, `Guarding` what the guard holds there: its record and the
kernel agree, and both differ from the status only when no engine was started.
`Ended` says that a stopped engine can meet one more Apply only, that of the loop, whose
context is cancelled. `StopCleans` itself excludes sessions with a Select.

**Manager.** `MInv`: `m.busy` has one holder (`Locks`), who works on the session
that is current or new (`InHand`); a Stop has marked its session and waited for the
guard mutex (`Halting`), an engine that reports it is stopped has left nothing unless a
late Apply took it up again (`Idle`), and an error-free Stop has released everything
else (`Released`); so only the session in hand owns something (`Owned`). SetKillSwitch does
not look at `m.busy`; `Changing` and `Resting` say why it is harmless: its session is
still current, or is marked and refuses. `Armed` ties a block to its session.

**Journal.** The history is the newest events without a hole (`Contiguous`); a number
is at one place on its way to a stream, and one that is queued though it was sent is
not above the head the stream captured, so it is skipped (`Once`); a number above
the head is in the queue or on its way, one below is in the replay (`Covered`).
**SubFeed.** Of every subscription, the last message in the queue is current, or
there is none and what the list or the client shows is (`Tracks`).

**Subscriptions.** `Kept` says what the vault holds chunk by chunk; it needs that a
new subscription takes an unused identifier (`Drawn`). **Fetch.** Whether a
reference is local is decided once, before anything is dialled (`Fresh`); the url of
a hop has been validated and there is at most one request per hop (`Paced`); the body
read is compared with the limit plus one byte (`Measured`).

**Startup.** The lock excludes cores of this build (`Exclusive`). The older build
knows no lock, but while it runs its socket is at the path (`OldBound`), so a core
that bound the path has it to itself (`Bound`), a socket about to be removed is dead
(`Dead`), and sessions exist only behind both (`Routed`). **EngineHome.** No engine
runs while the database is reset (`Alone`), a marker that names a pool vouches for
the database (`Vouched`), an engine runs with the marker's pool or with none
(`Marked`). **Vault.** The visible and the durable directory are always openable
(`Good`), what is loaded is what is there (`Loaded`), and a change under way is known
with the contents before it (`Consistent`). The refinement maps the durable contents,
the visible ones and the change under way; each step is one of `SecretMap` or none.

**Bridge.** A child that starts is started by Apply or restarted by its own supervisor
(`Child`), and is down only where Apply or Stop has put it (`Order`, `Well`), or the
session has been shown a failure, or an event that says so is on its way (`Told`,
`Doomed`). **Measure.** Each server of the request is answered, in the
prober, still to be reported by its engine, in the registry's channel or kept
for the prober (`OnTheWay`); the two calls of the prober never share a server
(`Apart`), and a channel is closed only when its goroutines are done (`Closing`).

**LogCenter.** Numbers rise with the place in the record (`Record`), so the cursor
splits it into read and left (`Paging`). The channel is in order, behind the entry in
hand, and that behind what was sent (`InOrder`); a matching entry not yet sent is on
its way, or is newer than all that is and the loss is counted (`Following`).

### Only model-checked

* Liveness, and with it everything under fairness, is out of the prover's reach:
  `FailureReported`, `StopReturns`, `ReconnectEnds`, `EngineRecovers`, `BusyEnds`,
  `DueIsAttempted`, `StoppedEnds`, `OrphansEnd`.
* `RoutesPreserved`, `ChoiceSurvives`, `LayersKept`: the pipeline uses recursive
  operators, as the code's renderers and group resolution do, and the properties are
  about what they compute for every input, which needs induction over data.
* `NoLoop` and `CleanIsEmpty`: `PolicyRoutes` looks rules up recursively, and both
  speak of positions in an ordered list that is edited one rule at a time.
* `OnlyAllowedLeaves`: `Filters` has no constants; TLC tries every packet class, rule
  prefix and adapter network it has, for two choices of bypass networks.
* Of the log center, the byte total (`Accounted`), which is a fold over the record.
* Sessions and managers with `nft` runs that are cut short: the tables of section 3
  show what breaks.

## 5. Abstractions and limits

General:

* Time is absent: the budget's window never slides within a behaviour, and a
  timeout or a backoff may end at any moment.
* In `Supervisor` and `Session` a plan is a name, and kernel routes are one flag,
  "at least partly installed"; `Pipeline` and `PolicyRoutes` have the detail.
* Counters, notices, redaction and the texts of errors are left out.
* `Manager` repeats the steps of `Session` that touch the guard or the engine in a
  coarser form, and `SubFeed` the operations of the book; that they agree is by
  inspection.
* The order in which a session's state changes reach its journal is not modelled
  (`setStateReconnecting` journals after unlocking).
* An engine that survives a killed core is not modelled.

By component, what is left out or worth knowing:

* **Supervisor**: an error of killing a child is not told apart from a child that does
  not exit (`process.go:159`); the end of a start publishes one "running" event where
  the code publishes two equal ones (`supervisor.go:447`).
* **Session**: `CutShort` lets no Apply succeed under a cancelled context, although
  Xray's handshake does not look at it (`xray/engine.go:98`). `StopCleans` speaks of a
  first Stop without a Select. The liveness runs have a queue that does not fill: an
  event lost to a full one is outside `FailureReported` and `ReconnectEnds`.
* **Manager**: `OneOwner` and `OwnerReachable` leave out an engine that an Apply brought
  back after Stop; `EngineReachable` shows what becomes of it. `BlockOwned` needs `nft`
  runs that are not cut short. Connect stays possible on an open connection until
  `GracefulStop`, here and not in `Startup`.
* **Vault and Subscriptions**: one process opens the store, although a `-check` core
  does so without the lock (`main.go:123`). PutSecret and DeleteSecret are requests of
  `Vault`; that a client aims them at a reference of the book is not modelled
  (`server.go:928`), so `VaultMatchesBook` is about what the book itself does.
* **LogCenter**: a filter is a level and a set of sources; `Since`, `Until`,
  `Contains` and `Pattern`, the export and the wire format are left out.
* **SubFeed**: a change for which the 64-entry queue has no room is dropped without
  notice, and so is the end of an update that is discarded or cannot be stored;
  `ViewCurrent` excludes the first (`full`) and the mark of the second (`unsaid`). The
  app keeps its table across reconnects (`sora.dart:507`).
* **PolicyRoutes**: `NoLoop` covers the installation and the time the routes are up; in
  an unroute or a rollback the engine's rule goes before the tunnel's
  (`tunroute_linux.go:44`), a window that is left out. `CleanIsEmpty` speaks of rules;
  the routes of a table without a rule decide nothing. The DNS rules of UDP and TCP
  are one rule.
* **Startup**: all cores use one socket path, and the lock is keyed on it
  (`platform_other.go:31`); writing the token does not fail by itself (`auth.go:121`) and
  Serve ends only by a cancellation (`main.go:383`). A token file torn by a kill blocks later starts (`auth.go:56`); a
  `-check` core takes no lock and may replace the token (`main.go:166`), which
  `TokenOnDisk` excludes; a core whose Shutdown failed still exits with 0 and leaves
  its routes, to a start that cleans up (`"left"`); the unit's stop timeout of 15 s
  is shorter than the 20 s of `Close` (`main.go:391`), and `GracefulStop` waits for a
  log watcher (`main.go:397`). The shutdown of the older build is one step.
* **EngineHome**: a kill during a copy leaves a `.geodata-*` file; a newer database
  of the same size with an older time is not copied. A copy that fails, and a stop
  that fails during a reload (`supervisor.go:342`), are left out.
* **Bridge**: the two derived plans, `Select` and IPv6 pools are left out; a renewal
  whose Apply failed is only logged, which `ShownIsTrue` excludes (`silent`). The
  property counts a child that is being brought back as well: its next event tells.
* **Bypass**: a renewal delayed past Close starts a tpws that nobody stops;
  `StoppedEnds` speaks of the proxies that were stopped, and a stop does not fail
  (`process.go:169`).
* **Measure**: a later Xray batch that fails repeats answers (`Twice`); the answers for
  servers without an engine are put in one step (`registry.go:266`); the limits of the
  request and the concurrency inside one engine are left out.
* **Fetch**: the provider's metadata, the transport's idle connections and an
  environment proxy are left out.
* **Filters**: the Windows `Disarm` forgets its session even if closing it failed. What
  `MayLeave` lists includes answers to incoming connections on both platforms, and on
  Windows an answer from the tunnel's address, whose interface no filter asks for.
* **Pipeline**: the syntax of base64, URLs, JSON and YAML is external, and so is whether
  the name of a flow to an address is known (sniffing, `redir-host`). A rule set is one
  of names. Behind mihomo, Xray may be handed the name or the address; both are tried. A
  provider profile's own domain strategy, fake addresses, resolver policies, proxy
  providers, smux, the observatory and the fragment outbound are left out.

Differences between documents and code that were met while modelling the pipeline
and are not part of a property: SIP008 items, which have no `"type"`, are invalid
(`docs/providers.md:10`); v2rayN's vmess JSON is not read; a vmess URL without
`security` gets TLS; Xray drops Shadowsocks obfuscation; sing-box drops the TLS of
SOCKS5; mihomo's bootstrap resolvers may be host names and its rule sets are not
declared; a choice is saved under a display name; `StableKey` includes a trojan
password (against `parser.go:202`); a control target `"block"` fails `Validate`.
