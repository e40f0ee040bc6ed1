# GravityLAN: specifications and proofs

TLA+ modules of GravityLAN's backend and agent, model-checked with TLC and, in part, proved with
TLAPS. `PROJECT.json` maps every definition to the lines of the source it stands for, and lists the
components, the hazards of this code, the runs and the theorems.

## 1. The system

GravityLAN is a network inventory for a home LAN: one FastAPI process on one asyncio event loop, an
SQLite file for the inventory (`gravitylan.db`) with a second one attached for measurements
(`telemetry.db`), an optional agent on the monitored hosts, and two browser interfaces. Nothing runs
in parallel inside the process, but everything awaits: each request and each background loop has a
database session of its own, and between two awaits any other may run. Sessions are created with
`autoflush=False, expire_on_commit=False` (`database/__init__.py:71`): a session keeps the objects it
loaded, its queries see the table and not its own pending changes, and its commit writes only the
columns that differ from what it loaded. Most of what is hard about this system follows from that,
and from two further facts: what grants access lives partly in the database and partly in memory, and
a host is known by an address, a MAC, a row id and an agent's token, none of which names it for ever.

| Component | State | Operations | Talks to | Hard part | Correct when | Module |
|---|---|---|---|---|---|---|
| Presence hysteresis (`scanner/presence.py`, planner, dashboard, health probe) | `devices.is_online`, `missed_scans`, history | one check per device and pass, commit per batch | outbox, heartbeats, settings | overlapping passes over the same rows, lost commits, devices a pass does not select | offline after N failures in a row, outages reported, who is watched is not stuck | Presence |
| Notification outbox (`services/webhook_service.py`, `api/webhooks.py`) | outbox rows, subscriptions, `_delivery_lock` | enqueue, deliver, retry, delete, purge | presence, sync; HTTP services | crash between POST and commit, deletion and reset under a pass | nothing delivered twice, attempts bounded, everything settles | Outbox, Delivery |
| Telemetry tiers (`telemetry_rollups.py`, `telemetry_store.py`, `telemetry_query.py`) | raw, hourly, daily rows, retention | store, fold, prune, purge, query | probe, reports, scheduler | late rows, interrupted runs, boundaries | nothing lost before its time, counted twice, or missing in a query | Rollups |
| Inventory sync (`scanner/sync.py`) | addresses of devices, discovered hosts, interfaces | one batch per scan | scanners, outbox | unique addresses, unflushed moves, routers in several subnets | a device follows its MAC, no batch is lost, what is announced is stored | Inventory |
| Scan jobs (`api/scanner.py`, planner, relay) | active flag, last progress, subscribers, `discovered_hosts` | start, broadcast, store batches, clean up | sync, browsers | broadcasts and cleanups that overtake each other | one scan at a time, shown as it is; the list follows the hosts | Scans |
| Scheduler, start, reset, database layer (`scanner/scheduler.py`, `main.py`, `database/`, `api/settings.py`) | loops, cleanup time, schema, legacy tables | start, migrate, loop, stop, reset | all of the above | failure or crash between two steps | loops survive errors; repeated starts lose and resurrect nothing | Process |
| Agent trust (`agent_tokens.py`, `agent_telemetry.py`, `enrollment_service.py`, `api/agent.py`, `api/backup.py`) | token rows, pending tokens, install codes | report, adopt, enrol, deploy, import | agents, backup | ids that name another machine later | only a device's own agent reports for it, none is lost | Trust |
| Agent (`agent/gravitylan-agent.py`, `agent_deployer.py`, `agent_scripts.py`) | files, processes, boot hooks of a host | install, start, report, save, remove | server | crash while saving, two processes, platforms | an installed agent works, alone, and after a reboot | Agent |
| Authentication (`api/auth.py`, `api/setup.py`, `session_service.py`, `stepup.py`) | password row, sessions, grants, attempts, API tokens | log in, confirm, change, set up, reset | every endpoint | requests that read before and write after another | what must end together ends together; guesses are bounded | Auth |
| SSH work (`ssh_terminal.py`, `patch_service.py`, `api/ssh.py`, `api/agent_patches.py`) | tickets, terminals, known hosts | prepare, redeem, connect, confirm key, run | authentication, hosts | a key checked early and stored late, slots | the stored key is honoured, slots come back, a reset ends terminals | Terminal |
| Devices, interfaces, topology (`api/devices.py`, `interfaces.py`, `topology.py`, `interface_service.py`) | devices, services, groups, interfaces, links, caches | edit, refresh, add, attach, merge, detach | sync, browsers | reads before a look-up used after it, stale caches | nothing set up is lost, an address is used once, lists are current | Registry |
| Discovery probes, router import, user interfaces, health score, Docker view | none, or only rows of their own | input and output | - | - | - | not modelled |

## 2. What is modelled

Modules come as `X`, the specification, and `MCX`, which gives it the constants a configuration file
cannot write down. One run each has `X*.cfg`; Presence has two. Theorems are in `XProofs`, except that
`SchedulerProofs` has those about Presence, Process and Scans, and `AgentProofs` those about Agent and
Trust. Modules whose proofs share a module are extended together, so Process, Scans and Agent have
names of their own for what every module has: `ProcessSpec`, `ScansSpec`, `HostSpec`, and so on.
Variables marked *auxiliary* only watch. Comments that begin with `Mutant` mark variants of the
following definition which no specification uses: each is a plausible bug, and TLC finds a property
violated when it takes the definition's place (`PROJECT.json`, "mutants").

### Presence

State: the committed rows (`row`, and `parked`, the column `ip_placeholder`), the setting
(`threshold`), whether an agent's heartbeat is recent (`fresh`), and `copy[p][d]`, the row as pass `p`
loaded it together with the verdict it reached. The counter is a number that saturates at `MaxMissed`.

- `Load` is a pass's select. `Selects` says what each kind of pass takes: the planner the online
  devices with an address in a scanned subnet, the probe all but hidden and displaced ones, a full
  scan all of them, a report its own device, a sync those that were heard.
- `Judge` is one answer: `register_seen`, `register_miss`, or no verdict where the pass leaves the
  device to another one (`CountsMiss`). `mark_device_offline` triggers the webhook here. A sync may
  also `Displace` a device whose address answers for another MAC: it goes offline without a miss.
- `Commit` writes a finished batch with `Merge`, column by column against the loaded row.
- `CommitFails` and `Restart` drop a session; the next start repairs the displaced devices.
  `RelayWake` is the agent relay putting a device online without touching its counter,
  `AgentFallsSilent` and `ChangeThreshold` are the surroundings.
- *Auxiliary*: `recorded` and `alarmed` (the history entry and the webhook of this outage), `silent`
  (this outage began without a check), `streak`, `trusted`.

Left out: the order in which a batch's devices are probed over the network (any order is allowed),
the services' own flags, and the interfaces of a device.

### Outbox and Delivery

State of Outbox: subscriptions, rows, the line of workers at `_delivery_lock`, and per worker what its
session holds: the subscriptions it selected (`cache`), the entries of its pass (`todo`) and the
attempts as loaded (`loaded`). Workers are the task of each event, the retry loop and the retry
endpoint. A pass is `Acquire`, then for every entry `Refuse` or `Post` and `Answer`, then `Settle`.
`StoreFails`, `CommitFails`, `RowGone` and `Crash` are the ways it fails. `DeleteSub`, `Retry`,
`Purge` and `BackoffEnds` happen at any point. `received` and `posts` only watch.

Delivery is the promise without tasks, sessions and lock: there is one attempt at a time, none for an
entry that was received and not lost track of; an entry is settled by the answer to its own attempt,
cancelled with its subscription, reopened by the administrator; an outcome may be lost. Outbox
implements it (`ImplementsDelivery == Promise!Spec`): the status is the row's, the attempt is that of
the one worker between a POST and the commit of its outcome.

### Rollups

Time is a clock of ticks, `TicksPerHour` to the hour, the first tick of an hour standing for the
grace period. A rollup row is the set of measurements it aggregates, so that "counted twice" and
"lost" can be said at all; means and maxima are left out. A measurement is its device and its tick, so
a device has at most one in a tick. A maintenance run is `StartRun`,
`FoldHour`..., `HoursDone`, `FoldDay`..., `DaysDone`, `Prune`; its uncommitted rows are `staged`.
Measurements arrive stamped with an earlier tick, the administrator purges or changes the retention,
the run fails or crashes. A query is a pure operator on the state: `Segments` splits a window over
the tiers as `telemetry_query.py` does, from the earliest and latest row of each, `Points` are the
rows the segments select. Health samples and agent metrics pass through the same code one after the
other; one of the two is modelled.

### Inventory

State: the tables `dev` (address, old address, placeholder and online flags, interfaces) and `disc`,
what the session holding SQLite's write lock sees of them (`work`), and per session the objects it
loaded with its changes. The network (`site`: subnets, gateways, which hosts share a MAC as Unraid
boxes do, who is offline at first) is one of `Sites`. `Start` opens a batch, which lists an address
once and may list a MAC at several addresses, also of one subnet; `Sync` is one answer
(`_sync_host_internal`: `Matched`, `MatchedDisc`, `Attached`, `Upserted`, `Updated` with `Resolved`
and `SafePlaceholder`), `Commit` flushes and commits, `CommitRaises` ends a batch whose session a
failed flush has spoiled, `CommitLocked` is `_commit_with_retry` on a locked database. `Flush` checks
the unique addresses UPDATE by UPDATE, as SQLite does. One answer is one step: two sessions
interleave between answers, not between the queries for one answer.

Left out: host names (the ARP turbo loop has none), containers, the backfill of a missing MAC,
several devices with one MAC that are no Unraid hosts. The planner's deletions are in Scans.

### Scans

The flag and the last progress of `ScanStateManager`, sockets with the last status sent to each, the
broadcast each of two broadcasters (the scan, the relay) is sending, the scans (`api`, and the
scheduler's quick or full one) with what they have still to sweep, the rows of `discovered_hosts`, and
for everybody who writes them the batch that is read and not yet committed. A scan is `StartScan` or
`Wake`; for each subnet `Sweep` (who answers is read from the table) and `SyncSubnet` (the batch is
stored, or lost); `Tidy` (what is to be deleted is read), `CommitScan` or `Fail`, and `Finish`. Beside it
run the ARP loop and the relay (`Hear`, `Heard`), deletions, browsers, and `ServerRestarts`. A batch that
updates a row deleted since is lost without an error (`Outdated`), one that inserts an address
inserted since raises one (`Conflict`), and a locked database loses any. Reading and setting the flag is one
step: an `asyncio.Lock` nobody holds is taken without giving up control, and no holder awaits.

### Process

A start runs `AddUniqueIndex` (delete duplicates, after one copy of the database per start, and build
the index), `DeduplicateServices`, `MoveSubnets` and `Serve`; each commits by itself, a step may fail
(and, by its `try`, be skipped) and the process may crash anywhere and start again. Then the three kinds
of loop go through `Look` (the setup gate), a turn (`Turned`, `Clean`) and `Rested`, or are `Cancelled`, and
one that had a session open still closes it (`Closed`), which a commit that waits for the database's lock
can make long. A reset is `ResetRequested`, `Stopped`, perhaps after `TimesOut`, `Wipe`, `Drop`,
`StartAgain`; there is one at a time. What a loop does in its turn is the matter of Presence, Rollups,
Outbox and Scans.

### Trust

A device id names a machine; the token row, the stored measurements and install codes name the id.
A report is `Report` (the token is looked up, and an older form of it upgraded), `Resolve` and
`Resolved` (a token nobody knows is kept as pending or adopted) and `Persist`. An agent gets its token
by `CreateCode`, `Redeem` and `Download`, or by `Deploy` and `Deployed`. `DeleteDevice`, `AddDevice`
(SQLite reuses the highest id) and `Import` with `Revoke` and `PurgeImported` change what an id
names, while reports and installations are on their way; `Restart` loses what is in memory. A purge
leaves the measurements it could not delete (`unpurged`).

### Agent

One host of one of four kinds (systemd, Synology, Unraid, plain), its files, its processes and what
starts them. A process is `ListGhosts`, `KillGhosts`, `Load`, then `Send`, `Answered` and, when the
server pushed new settings, `Open`, `Write`, `Swap` of `agent.conf.tmp`; after `StopTold` it exits.
Installing is `BeginOverSsh` or `BeginScript`, `Stop`, `Place`, `StartService`, `Verify` or
`VerifyFallback` or `ScriptEnds`; removing is `BeginRemoval` and `Remove`. `Crash`, `Reboot`,
`UnitRestarts` and `Fail` come at any step.

### Auth

The password row in its forms (none, plain text, hash; the master token until one is set), sessions,
confirmations, counted attempts, API tokens and the setup flag. Requests take several steps and
interleave: `LoginStart`, `LoginJudge`, `LoginMigrate`, `IssueSession`; `ChangeStart`, `ChangeRefused`,
`ChangeCommit`, `ChangeEnd`; `StepUpStart`, `StepUpJudge`, `Grant`; `SetupStart`, `SetupSave`;
`CreateTokenStart`, `CreateTokenCommit`; `ResetStart`, `ResetWipe`, `ResetFails`, `ResetDrop`. Tokens and
the reset are asked for by a session with a confirmation or by the bearer of the master token, who needs
none (`Callers`). The wipe may fail to delete the tokens and go on (`spared`). An ORM commit updates the
row it read, with an error when that is gone, or inserts one, with an error when the unique key is there.

### Terminal

Terminals, package updates, queries for updates and deployments to one host. Each looks at the stored
host key once when it is prepared, connects, compares the key it meets (`CheckKey`, `Probe`, `Query`,
`Deploy`), may ask its user (`Accept`, `RejectOrLeave`, `PromptEnds`) and may store the key
(`Remember`, `Persist`). A terminal then logs in (`Authenticate`) and asks for a shell (`OpenShell`),
which the host may leave unanswered. Tickets are redeemed once. A reset wipes the tables, then forgets
tickets and closes the terminals that have a transport (`doomed`, auxiliary).

### Registry

Devices with services, parents and links, interfaces, suggestions to merge and the two cached
lists. A request that waits (for a name server, a port scan or its next query) is two steps, what it
read and what it writes; from its first write to its commit it holds SQLite's write lock and is one.
After the commit most requests read their row once more and only then drop the caches: a step of its
own (`Refetch`, `Dropped`), which fails when the row is gone by then (`DropFails`). `Merge`, `Attach`,
`Detach`, `Add`, refreshes of one device or of all, deletions, edits of services and links, dismissals,
lists and the map are modelled; names, groups and other columns as writes only (`EditDevice`,
`EditGroup`, `DeleteGroup`). A merge writes the parent from what it had loaded (`ParentOfTarget`).
`ChangeAgent` and `DeleteRack` are writers that do not drop the list. `setUp` remembers what the
administrator set up, moved along by merges.

### How they fit together

The modules share the session semantics and no variables. Process starts and stops the loops that are
the fairness of Presence, Outbox and Scans, and the maintenance runs of Rollups. Presence triggers
the events of Outbox, and Inventory announces after its commit; in Outbox an event simply occurs.
Scans knows a sweep's answers only as rows; Inventory says what rows a batch writes. Trust and Agent
share the token: Trust takes the host for an agent with a token, Agent takes the server for the
number of the token it accepts. Auth and Terminal share the reset and the browser's confirmation.
Each of these couplings is one call in the code and carries no answer back; only Outbox and Delivery
are composed formally.

## 3. The runs

| Run | Instance (distinct states) | Properties |
|---|---|---|
| `PresenceScans` | full scan, probe and sync passes over one device with an agent, thresholds 1 and 2, one disturbance (2.4 M) | `OutageIsReported`, `OfflineAfterConsecutiveMisses` |
| `PresenceLive` | fair planner and probe passes and reports over two devices, one with services and an agent, one hidden (0.06 M) | `ShownAsItIs` |
| `OutboxLive` | one event, two subscriptions, loop, administrator, two attempts, one retry, one disturbance (0.2 M) | `NeverSentTwice`, `PostsBounded`, `OnlyRetryReopens`, `RemovedHasNothingNew`, `ImplementsDelivery`, `EverythingSettles` |
| `RollupsTiers` | two devices, two days of two hours, two measurements, one disruption, two retentions (0.3 M) | `TiersHold`, `AddsNothingTwice`, `CaughtUp`, `QueriesAreExact` |
| `InventorySync` | two devices, three MACs and addresses, three networks, two sessions, four answers, a MAC at one or two addresses (0.4 M) | `ListIsTrue`, `FollowsMac`, `PlainNeverFails`, `AliasesAreOne`, `TakenOver`, `StaysInSubnet` |
| `AuthRequests` | two requests, two sessions and the master token, two passwords, one API token, one client, limit 2, one reset (2.8 M) | `GuessesBounded`, `PasswordChangeEndsOthers`, `ResetEndsAll`, `OnlyKnownReplaces` |
| `TerminalReset` | two jobs of any kind, two host keys, one slot for a terminal, one reset (0.11 M) | `SessionsHold`, `OnlyConfirmedReplaces`, `SlotsComeBack`, `ResetEndsTerminals` |
| `TrustIds` | one device id, two machines, two tokens, one install code, one deletion or import, whose purge may fail (0.27 M) | `IdsNameOneMachine`, `NobodyLost` |
| `AgentHost` | four platforms, three processes, two installations with new tokens, two settings, two faults (0.4 M) | `InstallHolds`, `OneAgentWorks` |
| `ScansJobs` | a requested full scan, a quick scan and a relay over two subnets, the host of one comes and goes, one browser, one disturbance (0.21 M) | `ScanIsShown`, `ScanEnds`, `ListFollowsHosts` |
| `ProcessLife` | two tables with duplicates, three loops, cleanup every two hours, two faults (0.33 M) | `LoopsFollowSetup`, `StartsRepeatSafely`, `HistoryIsCleaned` |
| `RegistryMerge` | three devices in three subnets, a fourth address, two requests at a time, three in all (0.26 M) | `NothingSetUpIsLost`, `AddressesHold`, `CachesAreCurrent` |

Some properties are conjunctions of named parts, one question each:

| Property | Parts |
|---|---|
| `Presence!ShownAsItIs` | `DeadGoesOffline`: a device dead for good that a recurring pass counts (`Watched`) ends up offline for good. `AnsweringComesBack`: one that answers and is not hidden ends up online |
| `Rollups!TiersHold` | `TypeOK`. `NothingLost`: no measurement goes before its retention. `DailyIsWhole`: a folded day has all its hours |
| `Rollups!QueriesAreExact` | `MissesNothing`: while no late row is about (`AllInTime`), no measurement of the window is missing after its first, partial day. `CountedOnce`: unless the raw retention was raised (`RawReachesBack`) or a purge met a run (`DayCameBack`), no measurement reaches a query by two points |
| `Inventory!ListIsTrue` | `TypeOK`. `EveryHostListed`: what answered has a discovered host. `ToldIsStored`: what was announced is in the tables |
| `Auth!GuessesBounded` | `TypeOK`, and no more wrong passwords within a window than the limit |
| `Terminal!SessionsHold` | `TypeOK`. `TerminalsBounded`: the limit of terminals. `StoredKeyHonoured`: who is logged in met the stored key, unless that changed since |
| `Trust!IdsNameOneMachine` | `TypeOK`. `TokensFollowDevice`, `NothingOfFormerDevice`: tokens, codes and, where an import could delete them, measurements under an id are of the machine it names |
| `Agent!InstallHolds` | `TypeOK`. `ConfWhole`: `agent.conf` is never torn. `BootsAgain`: a reboot starts the installed agent with its token. `OldAgentsGone`: no agent with an older token runs |
| `Scans!ScanIsShown` | `FlagIsScan`: the flag is up as long as the scan is at work. `NobodyLeftWaiting`: no browser keeps a progress bar |
| `Scans!ListFollowsHosts` | `AnsweringIsListed`, `SilentIsDropped`: the list in the end is who answers |
| `Process!LoopsFollowSetup` | `NoWorkBeforeSetup`: no loop scans or cleans before the setup. `AloneInReset`: from the wipe of a reset to its last step no loop of before is there, be it in the session it closes |
| `Process!StartsRepeatSafely` | `DeletedIsCopied`: every duplicate deleted is in a copy. `SubnetStaysDeleted`: a deleted subnet does not return |
| `Registry!AddressesHold` | `TypeOK`. `AddressOnce`: an address is a device or an interface, never both. `SuggestionsHold`: suggestions can be carried out in any order |

The other properties say: an outage that a check began has its history entry and its webhook
(`OutageIsReported`); a device goes offline only after the threshold of failures in a row, or with its
address (`OfflineAfterConsecutiveMisses`);
no POST for an entry that was received and recorded (`NeverSentTwice`), without
a retry no more POSTs than attempts and lost outcomes (`PostsBounded`), no settled entry pending again but by a retry
(`OnlyRetryReopens`), nothing new waiting for a removed
subscription (`RemovedHasNothingNew`), every entry
settled in the end (`EverythingSettles`); no bucket added where there is one (`AddsNothingTwice`) and
none skipped (`CaughtUp`); a device ends up where its MAC answered (`FollowsMac`), a plain batch is
not lost (`PlainNeverFails`), two addresses of one MAC in a subnet end as one device and one listed host
(`AliasesAreOne`), a device loses its address only to another one (`TakenOver`), and one
that answers in several subnets stays (`StaysInSubnet`); a password change ends the other sessions
(`PasswordChangeEndsOthers`), only who gave the password replaces it (`OnlyKnownReplaces`), and a
reset leaves no session and no API token (`ResetEndsAll`); only a confirmed key replaces a
stored one (`OnlyConfirmedReplaces`), a terminal gives its slot back or gets as far as the request for
a shell (`SlotsComeBack`), and a reset ends every terminal that was connected
(`ResetEndsTerminals`); an agent whose token was replaced ends up known or pending (`NobodyLost`);
one agent works in the end (`OneAgentWorks`); scans end
(`ScanEnds`); old history goes (`HistoryIsCleaned`); merges lose nothing that was set up
(`NothingSetUpIsLost`), and no cached list outlives a change (`CachesAreCurrent`).

Conditions in the properties name what they leave out, and the auxiliary variables decide it:

- `OfflineAfterConsecutiveMisses` speaks of devices whose checks since the last clean reset were
  serial (`trusted`). It and `OutageIsReported` leave out outages that began without a check (`silent`):
  the sync gave the address away, or a start repaired the row. `DeadGoesOffline` speaks of devices that
  something counts (`Watched`).
- `QueriesAreExact` leaves out rows stored after their hour was folded (`AllInTime`), a raw retention
  raised since rows were pruned by it (`RawReachesBack`), and a day that a purge met between its folding
  and its commit (`DayCameBack`).
- A *plain* batch of Inventory overlaps no other and is not *odd*. Five cases are odd, each judged by
  what the session sees when it syncs an answer. `Several`: a MAC answers from two addresses of one
  subnet; `AliasesAreOne` says what becomes of it when nothing else is odd. `HandedOver`: a recorded address answers for another
  MAC, and the MAC recorded with it answers elsewhere. `Returning`: a host that was offline, or that
  this batch has just moved, answers at its address and at another one. `Parked`: the address of a
  device answers for another MAC, and so does something at the device's former address. `Shared`: an
  address answers for another MAC than it is recorded with, and that MAC is live in another subnet.
  `ToldIsStored` and `TakenOver` hold of overlapping batches too.
- `PasswordChangeEndsOthers` and `ResetEndsAll` leave out what was on its way while the change or
  the reset ran (tag `late`); what existed before (`old`) must be gone, but API tokens when the DELETE of
  their table failed and was skipped (`spared`). `ResetEndsTerminals` speaks of terminals whose handshake
  was over; `StoredKeyHonoured` and `OnlyConfirmedReplaces` of keys that did not change since the job
  looked (`fresh`).
- `TokensFollowDevice` leaves out ids that changed hands under a request for them (`late`) and ids
  SQLite gave out again after a deletion (`reused`); `NothingOfFormerDevice` also measurements an import
  failed to delete (`unpurged`); `ConfWhole` two agents that save at the same time (`overlap`).
- `AddressOnce` leaves out an address two requests had both found free (`contested`);
  `CachesAreCurrent` a list read before a change and stored after it, and one older than a change that
  drops nothing (`slipped`);
  `NothingSetUpIsLost` what a merge does not keep (`MovedSetUp`): the duplicate's own parent, a parent
  the target got meanwhile when the one it was loaded with is the duplicate, services of the duplicate
  that changed while the merge waited (`overtaken`), and services of others that have taken an id it
  had read.
- `ListFollowsHosts` speaks of hosts in subnets some scan sweeps (not `Skipped`).

What happens in the cases left out is told in section 5.

### Bounds

- Presence: thresholds 1 and 2 give a miss that does not count yet and one that does, and an
  administrator may change the threshold during a count; three passes overlap in all combinations,
  which includes two writers and a third that reads in between. The passes treat the devices of a
  batch independently, so one device suffices except for liveness, which a second one could delay:
  one there is the probe's and the agent's, the other, hidden, the planner's. A fourth pass in
  `PresenceScans` is out of TLC's reach; the theorems cover any number of any kind.
- Outbox: two attempts instead of three distinguish first, retried and last; two subscriptions of one
  event are two entries of one pass. `MaxRetries` and `MaxDisturbances` 1 let each happen at every
  point; the theorems cover the safety properties and the refinement for any number.
- Rollups: two ticks to the hour separate the grace period from the rest, two hours to the day a
  day's first hour from its last, `CommitEvery` 2 a committed bucket from a staged one. Two
  measurements show an hour with and without data, a gap, and a late row. Windows of 2, 4 and 7 ticks
  begin within an hour, at a day and within a day; the second retention doubles the raw and daily
  tiers, so that a change shortens or extends them.
- Inventory: four answers are two overlapping batches of two, or four batches in sequence. It takes
  three to move a device out of the way, bring it back and meet it at its old address. The networks
  are one subnet, two with a gateway and an Unraid host, and two with a device that is offline. Three
  devices are beyond TLC here; the theorems cover any number.
- Auth: two requests are every pair of requests, two passwords a change and a change back, a limit of
  2 one attempt that is allowed beside one that is judged. Terminal: two jobs are every pair; one slot
  makes every second terminal a contest for it.
- Trust: one id suffices for it to name a first and a second machine; a deletion or an import is what
  makes it change. Two tokens are a former and a present one.
- Agent: three processes are an old one, a new one and one a unit restarts. Scans: two subnets
  distinguish a scan's first and last; a third status or browser adds no order of two broadcasts.
  A quick scan, which deletes, a full scan, which does not, and the relay are one of each kind of writer;
  the ARP loop is a relay that tells nobody, a requested planner scan a quick scan that is shown.
  Neither is in the instance; the theorem about `ScanIsShown` covers them.
- Process: one table gets a unique index and one does not; two faults are a failure and a crash in
  either order. Registry: three requests of which two overlap are a read, a change by another, and
  the write, or three in sequence; a link, a child and a service of each kind are there at
  the start, a fourth device may be added.

Symmetry is used for requests, sessions, passwords, devices and tasks that nothing tells apart, and
only in runs that check no liveness.

A state may be a deadlock in Rollups when the clock has stopped, in Inventory when no answers are left,
in Registry when the requests are used up, in Agent when nothing is installed and the bounds are
reached. Those four runs do not check for it; all others do.

### Fairness

All fairness is of steps the program takes by itself; nothing somebody has to do is ever forced, and
failures are bounded, so that they cannot starve everything else.

- Presence: the planner and the probe start again for ever (`_quick_loop`, `_health_probe_loop` catch
  every exception and sleep), what they select is what the code selects, a pass goes on (answers come or time out), heartbeats age. A full scan is
  off by default and gets no fairness for its start.
- Outbox: the retry loop starts again for ever, a worker in the lock goes on (a POST ends within its
  five seconds), time passes.
- Terminal: connecting, the prompt and authentication have timeouts, and the program's own steps
  follow (`Proceeds`). The requests for a pty and a shell have none (`ssh_terminal.py:146-147`) and get no
  fairness but on a closed transport. An open shell is the user's.
- Trust: an agent reports for ever (`AgentOrchestrator.run` catches and sleeps) and the server
  answers. `Resolve` and `Resolved` have strong fairness: a restart or an import drops a report again
  and again, but not each one at the same step for ever.
- Agent: processes run on; systemd starts the service again (`Restart=always`). Scans: the loops
  start over, a scan, its broadcasts and its last step go on (a browser that takes nothing is dropped
  by the ping, nmap is taken to end). The step that stores a timer's batch (`SyncSubnet`) has strong
  fairness: a row inserted between its read and its commit ends a planner scan, but not every one.
  Nothing makes the ARP loop or the relay hear. Process: a start, a reset and an exit go on, loops turn
  and, when cancelled, end.

## 4. What is proved

Eight modules prove, for every value of the constants that satisfies the modules' named assumptions:

| Theorem | Statement |
|---|---|
| `SchedulerProofs!TypeCorrect` | `Spec => []TypeOK` (Presence) |
| `SchedulerProofs!OutageReported` | `Spec => []OutageIsReported` |
| `SchedulerProofs!HysteresisHolds` | `Spec => OfflineAfterConsecutiveMisses` |
| `SchedulerProofs!LoopsAlwaysFollow` | `ProcessSpec => []LoopsFollowSetup` |
| `SchedulerProofs!StartsAlwaysRepeat` | `ProcessSpec => []StartsRepeatSafely` |
| `SchedulerProofs!ScanAlwaysShown` | `ScansSpec => []ScanIsShown` |
| `OutboxProofs!TypeCorrect` | `Spec => []TypeOK` |
| `OutboxProofs!SentOnce` | `Spec => []NeverSentTwice` |
| `OutboxProofs!RetryAloneReopens` | `Spec => OnlyRetryReopens` |
| `OutboxProofs!PostsAreBounded` | `Spec => []PostsBounded` |
| `OutboxProofs!NothingForTheRemoved` | `Spec => RemovedHasNothingNew` |
| `OutboxProofs!Implements` | `Spec => ImplementsDelivery` |
| `RollupsProofs!TiersAlwaysHold` | `Spec => []TiersHold` |
| `RollupsProofs!NothingIsAddedTwice` | `Spec => []AddsNothingTwice` |
| `RollupsProofs!RunsCatchUp` | `Spec => []CaughtUp` |
| `RollupsProofs!QueriesAlwaysExact` | `Spec => []QueriesAreExact` |
| `InventoryProofs!ListAlwaysTrue` | `Spec => []ListIsTrue` |
| `InventoryProofs!DevicesFollow` | `Spec => []FollowsMac` |
| `InventoryProofs!PlainAlwaysStored` | `Spec => []PlainNeverFails` |
| `InventoryProofs!TakenOverOnly` | `Spec => TakenOver` |
| `InventoryProofs!RoutersStay` | `Spec => StaysInSubnet` |
| `AuthProofs!GuessesLimited` | `Spec => []GuessesBounded` |
| `AuthProofs!ChangeEndsOthers` | `Spec => []PasswordChangeEndsOthers` |
| `AuthProofs!ResetEnds` | `Spec => []ResetEndsAll` |
| `AuthProofs!KnownReplaces` | `Spec => OnlyKnownReplaces` |
| `AgentProofs!OneMachine` | `Spec => []IdsNameOneMachine` |
| `AgentProofs!InstallationsHold` | `HostSpec => []InstallHolds` |
| `TerminalProofs!SessionsSafe` | `Spec => []SessionsHold` |
| `TerminalProofs!ConfirmedReplaces` | `Spec => OnlyConfirmedReplaces` |
| `RegistryProofs!SetUpIsKept` | `Spec => []NothingSetUpIsLost` |
| `RegistryProofs!AddressesAlwaysHold` | `Spec => []AddressesHold` |
| `RegistryProofs!CachesStayCurrent` | `Spec => []CachesAreCurrent` |

*Outages.* `OutageIsReported` alone is not inductive: a pass that has judged a device offline has
triggered the webhook but not committed. The invariant adds that every copy about to take an
alerting device offline has its webhook triggered (`AlarmFirst`). Whatever puts the row online ends the
outage, its history entry and its alarm, except for verdicts still in flight; a commit that takes it
offline writes the history row itself, unless its pass displaced the device, and then the outage is
`silent`.

*Hysteresis.* `TrustInv` says of a trusted device that at most one pass holds it, that this pass's
copy is the row as it stands, and that the row's counter, with the miss the pass is about to add, is
covered by the streak of failures. Trust ends when a second pass loads the device, a success is rolled
back or the relay wakes it; it returns with a clean reset by a sole holder. A commit that takes a
trusted device offline counted up to its limit, so the streak is at least as long, or it displaced it.

*Loops and starts.* `LoopInv` adds to `LoopsFollowSetup` that a reset under way is in a running process
whose scheduler is stopped, so that nothing can start a loop beside it. A reset gets to its wipe only
when every loop has ended, with or without the timeout: `wait_for` cancels `stop()` after five seconds,
which cancels the loops again, and raises only when `stop()` and the loops are over. `StartInv` says that a start which has its copy has every
duplicate of that moment in it, until the last of the steps that delete any; duplicates that arise
later meet the next start, which copies again. The setting that subnets come from is gone before
anybody can delete a subnet, whichever step of a start failed or crashed before.

*Scans.* A browser may be told "running" by a broadcast that was slow, after the scan is over, so
`ScanIsShown` alone is not inductive. `ShownInv` adds what is on its way: the flag is set as long as
the requested scan is at work, the relay says nothing of running, and once the scan is about to
finish neither the last progress nor any broadcast says "running", and a browser that shows it is
among those some broadcast has yet to reach. A scan of the timers tells nobody, and whether a batch is
stored or lost changes nothing of that.

*Inventory.* The properties speak of a batch at its commit, the proof of a session between any two of
its answers (`Going`), in layers that need more and more of the batch. The tables the session sees use
each address once and nothing is to be inserted twice (`Base`): that holds of every session, because
`Flush` refuses what would break it. What the batch has announced is so already or will be when it is
flushed, and a device that has lost its address lost it to a device announced there (`Told0`): that
holds of sessions that overlap as well, as long as no case is odd, because a session that has not
written yet moves an address only by its own pending UPDATE, and one that has holds the write lock.
For a batch that is alone besides, nothing loaded is stale and whatever is to move goes to an address
that is nobody's, now or after the flush (`GoodDev`, `GoodDisc`), so that no flush fails
(`GoodDevFlushable`, `GoodDiscFlushable`); every device that answered is where it should be
(`Follows`), none that was online has left its subnet (`Stays`), and who was moved aside does not
answer (`AsideQuiet`). One lemma for each layer and operation (`Listed`, `Attached`, `Updated`,
`Flush`) carries it over, `SyncedBase`, `SyncedTold` and `SyncedGood` put the branches of
`_sync_host_internal` together, and `CalmDevFacts` and `CalmDiscFacts` say what each odd case rules out; that a plain batch has each MAC once in a subnet is
one of them.
Then a session meets the steps of others: it is no longer alone (`GoingTogether`), or another commits
and what it has loaded may be stale (`GoingElsewhere`); that cannot happen once it has written.
`GoingCommits` reads the properties off the last flush. That a safe placeholder exists rests on there
being as many placeholders as devices (`PlaceholderLeft`; the code counts up without end), and that
nobody moves there on no host answering from one.

*Outbox.* `Safe` is the type invariant and four parts: who is first in line is the only worker in a
pass (`LockInv`); what a pass has still to do was pending when it was loaded (`PassInv`); an event's
rows exist only once it has stored them (`EventInv`); an entry that was received is settled, or the
one worker that has the answer is about to settle it (`ReceivedInv`). `NeverSentTwice` follows from
the last part and the first: a worker that posts holds the lock, so nobody else has an answer for its
entry. That no commit reopens a row is a property of `Settled` under the same invariant: it never
writes the status `pending`. A removed subscription gets nothing new because,
the administrator's retry apart, only `Store` makes an entry pending, for subscriptions that are still
there, and the deletion cancels what is pending.

`PostsBounded` compares counters that several steps update at different times: the POSTs sent, the
attempts in the row, the attempts as the pass loaded them, and the outcomes lost. `Counting` says, as
long as nobody has asked for a retry, for every entry and every worker how they stand: no worker posts
an entry outside a pass (`Blank`); an entry with no POST in flight has at most as many POSTs as
attempts and losses (`Stored`); one in a pass at most as many as the attempts loaded, and one more while its POST
is in flight (`Known`). A crash, a failed commit and a row that is gone turn the POST in flight into a
loss, which `disturbances` counts.

*Refinement.* `LockInv` makes the mapped attempt of Delivery a set of at most one element. `AnswerInv`
adds to `Safe` that a worker whose attempt is answered has an answer. Each action is then a step of Delivery or a stutter, one lemma
each: `StorePublishes`, `AttemptBegins`, `AnswerReplies`, `SettleRecords`, `PassLoses` (a failed commit
or a row that is gone), `CrashLoses`, `RetryReopens`, `AroundSteps` (deletion, purge, back-off), and
`QuietSteps` for what Delivery does not see. `StepDelivers` puts them together.

*Authentication.* The invariant has four parts. `Types` adds to the type invariant what a request of
each kind was given (`Shape`): a login that goes on after its judgement, and every change, was given
the password it had read, which is what `KnownReplaces` needs. `Balance` says that the attempts counted
for a client are at least the wrong ones plus those still being judged; a reservation, a judgement and
an expiry move one from one side to the other, and a limit on the sum is a limit on the guesses.
`Wiped`: a session of the former instance is there only while a reset has yet to drop it, and an API
token of it only if the last wipe failed to delete the tokens. `Passwords`
is the hard one. While a change is under way nothing is claimed of who knows which password; when the
last one ends, what it spares must be the keeper's session or nothing, although another change may have
committed in between. `Spares` carries that: a change that has yet to end the other sessions spares the
keeper, or a session that is gone, or another change will end what it spares. Steps that touch neither
the password nor a change keep all of it by one argument about a request before and after (`Tame`).

*Telemetry.* `NothingLost` speaks of one measurement, and so does the invariant. `Sound(s)` says of each
measurement `s` that was committed in time: it is held (`Held`, the property itself); if the hourly
tier has any row at or after its hour, it is folded into an hour or a day (`HourFrontier`), and the same
for days (`DayFrontier`): these two are what makes it safe that a run begins at the latest row there is;
while a run folds, every measurement behind its cursor is folded or staged (`HoursSoFar`, `DaysSoFar`),
and after each half it is folded outright (`HoursFolded`, `DaysFolded`), which is what `Prune` needs.
A failed run only drops what is staged, and the frontier is of committed rows alone. `Complete` keeps
rows of buckets that are not over out of the tiers. `CaughtUp` follows from the last two parts, and
`AddsNothingTwice` from `RunInv`: what a run stages lies beyond what the tier has. The lemmas about
least elements and about hours and days as quotients are proved by well-founded descent.

*Queries.* `QueriesAreExact` says what a pure operator makes of any state, so the proof needs what the
states have in common and what `Segments` does. The first is a second invariant, `Exact`: rows hold
measurements of their own bucket (`Contents`), and a measurement under way was not committed before
(`Fresh`); a measurement still raw and already in its day is in its hour, a staged hour has raw rows,
a staged day hourly ones (`Layered`); of two measurements a tier has lost the older first (`Aged`).
The last holds because the retentions are nested (`RetentionNests`): an hourly row that goes is older
than any raw row that stays. The second is geometry. `FloorIs`, `CeilFacts` and `CoverageFacts` place
window, boundaries and coverages on bucket edges; `Shapes` shows that every plan is one of four
(`ByDays`, `ByHours`, `ByRaw`, `ByRawAndHours`), each with its oldest segment as it was (`Stays`) or
filled in with a coarser tier (`Fills`). For nothing missed, one lemma per shape (`DaysServe`,
`HoursServe`, `RawServes`, `RawAndHoursServe`) finds a segment and, by `Exact`, the row in it. For
nothing counted twice, `SegmentsAreTiled` shows that a coarser segment ends where the finer one
begins, and `ServedByOne` that no measurement is then in a row of two. `NotBothFilled` is the only
place that needs `RawReachesBack`; the first version of the property did not have it, and could not be
proved (section 5).

*Agent.* `ConfWhole`, a part of `InstallHolds`, needs `Saves`: unless two agents have saved at the same time, at most one process
has a file open, it is the temporary one, and when it is about to be moved it holds all of that
process's configuration. The rest needs what is true during an installation: `Course` says which
steps follow which and when the token is the newest, `Cleared` that nothing runs and nothing starts an
agent while files are replaced, `Current` that from the moment they are placed every file and every
process has the newest token or none, `Boots` that the boot hook or service is in place when the
installation reports its success. Most steps change one process; `Follows` says what such a step may
do to it and carries all parts over at once. Reboots and units that restart are where `Current` and
`Boots` meet: what a boot starts reads the file, and the file has the newest token.

*Registry.* None of its three invariants is inductive, because requests read before they wait and write
after it. `Inv` says of every waiting request what still holds of what it has read, and `CachesAreCurrent` of
a list that is out of date who is still to drop it (`Dropping`): whoever deletes the row such a request
waits for drops the caches itself. A merge that was not
overtaken has seen each service of the duplicate, unless the target has one for the port (`SeenHolds`);
the address of a request without a rival is as free as when it was checked (`NoRivals`). Steps keep
that by `Hears`, `ServicesStay` and `AddressesStay`: whoever writes services of some devices, or takes an address,
tells those who have read it. `Kept` is `NothingSetUpIsLost`, with the addition that a child's row is
there. The step that matters is `MergedKeeps`: every link, child and service that was set up before is
found again after its ends are mapped to the device that is kept. The proof also showed that an earlier
version of `setUp` claimed too much (section 5). `AddressesHold` adds to that the merge suggestions.
That no suggestion wants a target another one merges away rests on three lemmas: `ClustersAgree`
(devices of one cluster have the same cluster), `BestIsOne` (of any devices one outranks the others, a
lexicographic order of four numbers, by descent in each), and that an edge joins devices of one cluster.

*Terminal.* Nearly every step changes one job and leaves the stored key alone, so the invariant says of
each job, with the stored key and whether a reset is under way, that it is `Sound`. `Agrees` is the
part that carries the keys: as long as the stored key is what it was at the job's look, a job asks and
stores only where there is no key, and one that has logged in met the stored one. A store or a deletion
outdates the looks of all others, and `Sound` survives that for any key. `ConfirmedReplaces` follows: a
terminal that stores a key with a fresh look finds none, so what it replaces came after its check, and
the insert of a learned key fails where there is a row. The limit needs `IsFiniteSet(Jobs)`: every
step but `Enter` adds nothing to the active terminals, and `Enter` adds one where there is room.

*Agent trust.* `TokensFollowDevice` speaks of rows and is not inductive: the tokens come from agents,
reports, pending entries and installations, and an import leaves codes and measurements behind for a
while. The invariant says of each of them what machine it is of. What carries a token carries one made
for its machine (`MadeFor`); what names a device by its id is of the machine that had the id last
(`Belongs`), or the id is an excepted one, or an import has yet to revoke the code or purge the
measurement. `Keeps` is what every step but an import does to ids: none names another machine than
before unless it is excepted, so what a step does not touch stays sound (`Changes1`), and each action
is left with what it writes. `ImportKeeps` shows where the order in `backup.py` counts: the token rows
go with the devices in one transaction, a request on its way excepts its id, and the rest is covered
by the ids the import holds until `PurgeImported`, and after that by `unpurged`.

The assumptions the theorems rest on are named and stated in the modules that declare the constants;
TLC evaluates each of them. They say that bounds are numbers, that placeholders such as `None` are no
members of the sets they extend, that sets are finite where a limit or a least element is spoken of,
and of the rows an instance starts with what the tables' unique indexes guarantee (`FirstRowsAssumption`).

Only model-checked: liveness, which needs ENABLED under fairness (`ShownAsItIs`, `EverythingSettles`,
`SlotsComeBack`, `ResetEndsTerminals`, `NobodyLost`, `OneAgentWorks`, `ScanEnds`, `ListFollowsHosts`, `HistoryIsCleaned`).
Every invariant and every action property that a run checks is a theorem, but for `AliasesAreOne`. No theorem rests on what is
only model-checked.

## 5. What the modelling showed

The conditions of section 3 exist because the code does the following. Each was met while modelling;
none is a run of its own.

- *Presence.* A pass counts its miss on the row it loaded before another pass's success was
  committed, so a device can go offline earlier than `presence.py` says (`trusted`). A device whose
  address answers for another MAC (`sync.py:439`, `663`), or whose placeholder a start repairs
  (`migrations.py:153`), goes offline with no miss, no history entry and no webhook (`silent`),
  contrary to `presence.py:6`. Hidden devices with services or an agent (`health_probe.py:144` skips
  them, the planner leaves them to the probe), and devices in no scanned subnet without services
  (`planner.py:136`), are counted by nothing that runs by itself: dead, they stay online for ever
  (outside `Watched`).
- *Outbox.* A pass still posts for a subscription deleted since the pass loaded it. A retry that waits
  for the lock writes the attempts it had loaded, so one entry can be posted more often than the limit.
- *Telemetry.* `plan_segments` clips only the segment in front when it fills in a coarser tier
  (`telemetry_query.py:91`). When hours and then days are filled in before the raw rows, the days may
  end after the hours and overlap the raw rows, and measurements are counted twice, contrary to
  `telemetry_query.py:11`. It takes a raw retention raised after rows were pruned, so that a day has
  raw rows of its last hours only and hourly rows that begin within it. The proof found it; it needs
  three hours to the day and three measurements, where the run has two. `RawReachesBack` leaves it out.
  A purge during a maintenance run is undone by the rollups in the run's session. The move
  of legacy measurements, repeated after a failure, skips rows whose ids new ones have taken
  (`telemetry_store.py:246-249`).
- *Inventory.* A device displaced twice is displaced to the address it already has, and the batch fails
  (`sync.py:417`; part of `Parked`). After a rollback on a locked database the retry commits nothing, and
  the events of the batch are sent (`sync.py:150`): `ToldIsStored` speaks of stored batches. Two scans that
  hear the same new address both insert it, and the later batch is lost (`alone`). An address whose
  recorded MAC is live in another subnet makes every batch with it fail (`sync.py:312-342`; `Shared`). Of
  two addresses of one MAC in a subnet the one matched later wins; the discovered host moves along, so
  the other is not listed, and each further batch moves both again (`Several`). A device between them that
  answered for the first is set aside for an address nobody has in the end. A displaced device that
  answers from a gateway keeps its placeholder. `_attach_interface` does not look whether the address is
  a device's own.
  The proof found more. A displaced device is given
  its old address although an earlier answer of the batch has moved another device there: that move is
  pending, and `_find_safe_placeholder_ip` asks the table, where the address is free (`sync.py:419`,
  `autoflush=False`). When both are flushed the address is there twice, and the whole batch is lost; it
  takes three devices, where the run has two (`Parked` leaves it out). Two answers of one batch may
  have one MAC, from two subnets: of a router that was offline both are taken for a move, so that the
  first address announced is left again, or ends up with no discovered host (`Returning` leaves it
  out).
- *Authentication.* A login that migrates a plain-text password writes the hash of what it read, and
  undoes a change made meanwhile (`auth.py:636`). A login that has judged the former password when a
  change ends the other sessions gets its session afterwards; so does a login, and an API token being
  created, when a reset drops what there is (`late`). A `DELETE` that fails is skipped
  (`settings.py:330-336`): the API tokens of the former instance stay valid (`spared`). A wrong present
  password at a change is refused and counted by nobody (`auth.py:696-703`), so `GuessesBounded` is about
  logins and confirmations.
- *Terminal.* A reset closes the terminals that have a transport. One that is still at the prompt or
  connecting, and an update or deployment, is not reached and goes on against the wiped instance; a
  ticket redeemed before it is forgotten opens a terminal after it. A host that accepts the login and
  answers no request for a pty or a shell holds its slot until a reset (`ssh_terminal.py:146-147`).
- *Trust.* A report or an installation on its way while the id it names is given to another device, or is
  given out again by SQLite after the highest one was deleted, writes under that id (`late`, `reused`);
  so does a code in memory that names a deleted device. An import only logs that the measurements of a
  table could not be deleted, or that the revocation before failed (`backup.py:515-518`), and those of the
  former device are then the new one's (`unpurged`).
- *Agent.* Two agents that save at once share `agent.conf.tmp`; with a crash in between the file can be
  torn (`overlap`). `ReportSender` logs a back-off it does not keep.
- *Scans.* Discovered hosts of subnets a scan skips are deleted by every scan that covers them
  (`Skipped`, which `AnsweringIsListed` leaves out): what the relay hears there is not listed for long. The
  instance has none; with one of its two subnets skipped TLC finds no error either.
  A batch that a deletion or a lock made stale is lost without an error, whoever wrote it, and its hosts
  are counted as found all the same (`planner.py:268-272`, `sync.py:145-148`); the next scan lists them. One
  whose insert meets a row inserted since ends the planner's scan. The event `stop_scan` sets is read by
  nobody. The relay broadcasts COMPLETED while a scan runs, so a browser may hide the progress bar
  early; what is checked is that none keeps it. Two scans
  that both find no row `scanner.initial_scan_done` insert it, and the later commit fails.
- *Process.* A reset that fails leaves the scheduler stopped until the next start
  (`settings.py:370-373`); a `DELETE` that fails for one table is swallowed; a scan started by a
  request is not stopped by a reset. The timeout of `settings.py:298` logs that the scheduler did not
  stop in time; by then it has: `wait_for` cancels `stop()` and raises only after `stop()` has ended, and
  that is in a `gather` which cancels the loops once more and is left when the last is over. The reset
  waits longer than its five seconds rather than wipe beside a loop.
- *Registry.* An address can become a device and an interface when both requests looked before either
  wrote (`contested`). A merge can close a cycle of parents; it drops the source's rack position and
  cables, group, notes and own parent, and deletes services added to the source while it ran. It compares
  the target's parent as loaded before several awaits (`interface_service.py:319-320`): if that was the
  source, a parent the administrator gives the target meanwhile is overwritten with none. It moves
  services by the ids it had read (`interface_service.py:285`): one that has taken a deleted one's id is
  moved with them, even from a third device, and another merge that has read that device is not told. The
  proof found that case, which takes four requests; the runs had three. What the administrator set up on
  the third device is then not kept, and `setUp` says so. Refreshes overwrite edits made while they
  waited, and two refreshes of services may both add one. A list may be stale for the ten or thirty
  seconds it is cached: when it was read before a change and stored after it, after an agent was deployed,
  removed or adopted (`agent.py:676`, `715`, `774`), and after a rack was deleted (`topology.py:84`), which
  drops the map only (`slipped`). So is it when a request's row is deleted before it is read
  again, but then whoever deleted it drops both.
- *Patch sessions.* A prompt of `sudo` split over two reads is not recognised, although
  `patch_service.py` answers it "however late".

## 6. Not modelled, and the plan

Not modelled, with reasons:

- Discovery probes, collectors of the agent, key formats, cryptography, parsers (router import, package
  lists, scan output) and the user interfaces: input and output, or pure functions over text.
- Racks and cabling: rows checked and written by single requests. Patterns like those of Registry
  (a check, then a write) recur there. The deletion of a rack is in Registry, as a writer of the list.
- Two resets at once: the second may stop the scheduler the first has just started. The move of legacy
  measurements at a start. A group whose refresh after the commit fails. Databases older than the foreign
  keys, where a parent may dangle.
- Scans: the ARP loop and requested planner scans are in the module and in no instance. `nmap` has no
  timeout (`discovery.py:107-116`); `ScanEnds` takes it to end.
- Trust: the address a report comes from is taken to be `Device.ip`. Agent: `systemctl enable` that fails
  (`agent_deployer.py:304`, `|| true`) on a host that otherwise has systemd; the agent would be gone
  after a reboot. Process: a retention outside of 1 to 365 days (`scheduler.py:275`), with which nothing is
  cleaned.
- The counter of a device's interfaces (`presence.py:85`): the code of Presence once more, with a
  constant threshold. The deletion of a device's measurements against a late probe
  (`telemetry_store.py:120`).
- Containers, host names and the backfill of MACs in the sync; the score of `health.py`, which is a
  formula over read-only queries; streams of logs and metrics and their revocation; audit entries.
- Which route asks for which scope: a table, not a behaviour.
- Intervals in seconds: a loop turns, a ticket expires, at any time.

Next, in this order:

1. An abstract specification of the presence history (online, offline, reported) for Presence, and one
   of the device list for Inventory.
2. Interfaces in Presence, racks beside Registry, host names and containers in Inventory.
