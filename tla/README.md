# TLA+ models of mmwx-custom

mmwx-custom is a controller that sits next to an official proxy panel, and a Helper that
runs on every server. The controller queues signed commands, upgrades Helpers, keeps the
Core mode an administrator wants, disables and deletes users, deletes servers and shares
Cores with the external FLVX system; the Helper polls, executes, repairs the Core it owns,
samples traffic and shapes it. Both keep their state in one JSON file with a backup. This
directory holds TLA+ models of the parts whose correctness depends on the order of steps,
the configurations that check them with TLC, and proofs for TLAPS.

- `PROJECT.json`: components, runs, mutants, the map from definitions to source lines,
  hazards, findings and theorems
- `*.tla`, `*.cfg`: described below

```
tlc -workers 2 -config MCManagementChannel.cfg MCManagementChannel
tlapm ManagementChannelProofs.tla
```

## 1. Inventory

Paths are relative to `src/`, `H/` is `cmd/mmwxc-helper/`.

| Component | State | Operations | Hard behaviour | What makes it correct |
|---|---|---|---|---|
| **Management command channel**: `agent_management.go`, `connection_control.go`, `H/main.go`, `H/management.go` | per server a queue (16) and a history of results (20); in the Helper the owed result, the completed IDs, the pending uninstall | enqueue, accept a report, expire, withdraw, retire; poll, verify, execute, save | lost answers, late handlers, crashes between execution and save, saves that fail after they happened | executed once, results arrive, bounded lists. *ManagementChannel* |
| **Durable state files**: `durable_write.go`, `H/state*.go` | primary, `.bak`, temporary files | write, recover | a crash or an error between two file operations | a load returns a state some save wrote. *Outcome: DurableStore* |
| **Helper upgrades**: `helper_batch.go`, `update_progress.go` | one batch with a row per server, one progress record per server, queued update commands | update one server, start and stop a batch, report, post progress, sweep, advance, flush | late posts, rollbacks, a database read between two lock sections, silence, restart | at most two at a time, one live update per server, everything ends. *UpgradeScheduler* |
| **Helper identities and tokens**: `helper_identity.go` | seven maps by server, install tokens, pending credentials | create and consume a token, promote a credential, rebind a machine, retire | a save that fails in the middle leaves memory changed | whoever is authorised stays so after a restart; a deleted server has nobody. *HelperIdentity* |
| **Server deletion**: `server_delete*.go` | a stored plan of steps, tombstones | plan, carry out a step, sweep | a step done but not recorded, edits between preview and step | only what was announced goes, nothing is opened up, what is left is listed, it ends. *ServerDeletion* |
| **User access**: `user_access_lifecycle.go`, `user_persistent_disable*.go`, `user_lifecycle.go`, `user_management.go` | intents, credential backups, block lists, deletion plans | disable, enable, delete, evaluate, migrate | whole inbounds replaced by an old copy, races with the background evaluation | an enabled user has the old credential back, a disabled one is blocked, a deleted one is gone. *UserAccess, UserDeletion* |
| **Core mode intents**: `core_mode*.go` | intent, back-off, queued repair | compare with reports, observe, issue a repair | drift, an official write with a lost answer, a save that fails | intent, official record and machine converge. *CoreMode* |
| **Takeover**: `takeover.go`, `H/takeover.go` | session, snapshot, services | stop one Core, start the other, roll back | failure at any step, session over, the Helper dies | one Core serves at a time. *CoreHandoff* |
| **External ownership**: `H/external_ownership.go`, `H/external_config.go`, parts of `H/lifecycle.go` | binary, protected image, hash, drop-in, last good configuration, flags | repair round, update, roll back, repair of the control configuration | drift between any two checks, an update cut short, lost answers | the image matches its hash, the owned Core returns, a repair gets into force. *OwnedCore, OwnedCommands, ControlConfig* |
| **FLVX billing**: `flvx_store.go`, `flvx_helper.go`, `flvx_api.go`, `H/flvx_instance.go`, `H/flvx_runtime.go`, `internal/flvx` | Core counters, Helper totals and cursors, published report, share row with ledger, generation, sequence, usage | sample, persist, publish, upload, merge, acknowledge, add and remove inbounds, revoke | counters that restart, reports repeated and late, crash between any two writes, midnight | never billed twice, lost only with a Core, quota stays closed, nothing dropped unbilled. *FlvxBilling, TrafficMeter* |
| **FLVX egress, guards, pins**: `H/flvx_egress.go`, `H/flvx_guard.go`, `H/flvx_reality_pin.go` | plan, rules and outbounds in the Core, guards with ports, pins | replace rules, replace guards in three steps, add and remove nodes | calls with lost answers, a Core or Helper that restarts in a pass | no node without its rules and guard; the Core gets to the payload. *FlvxPins, FlvxGuards, FlvxPolicy* |
| **FLVX limits**: `flvx_user_limits.go`, `H/flvx_user_limits.go`, `H/flvx_rate.go` | budgets with sequence and expiry, the record of what is in the kernel, groups of the Core | exchange, expire, one tc batch per pass, tear down | a record that is never read back, tools that fail, budgets nobody renews | packets are never sent into nothing, reported limits are real, limits end. *FlvxBudgets, FlvxRate, FlvxGroups* |
| Package traffic groups: `package_traffic_groups*.go` | SQL aggregates, block lists | evaluate, enforce | stale aggregates | over quota means blocked. *Not modelled* |
| Machine protection, IP limiter | settings taken over, sticky addresses | apply, hand back | restart in between | the original setting returns. *Not modelled* |
| Secure channel, release cache, status tasks | replay window, cached release, tasks | accept, refresh, follow | window edges, failed refresh | *Not modelled* |
| Connection ownership, UI metadata, realtime pages, front end, installers | rows, files | reads and writes | none of their own | *Not modelled: input and output, joins over data* |

How they interact: everything the controller keeps for its Helpers is one structure under
one lock, written as a whole (`helperState.saveLocked`), so a save made for one part also
publishes what another part changed in memory and did not save. The Helper's report is one
HTTP call (`helperDetailedConnectionsHandler`) that carries the result, the status and the
FLVX report and returns a command and the FLVX payload. Upgrades, Core modes and server
deletion use the channel as their transport and also remove commands from it. The Helper
runs its pass, its FLVX manager and its upgrade workers concurrently. Users, packages and
inbounds belong to the official system, which is only reached by HTTP and its database and
changes by itself.

How the modules are composed:

| Module | Extends | With |
|---|---|---|
| CoreHandoff | CoreMode | the Helper that executes `core.mode.apply` |
| UserDeletion | UserAccess | deletions as further jobs of the same users |
| ServerDeletion | HelperIdentity | the identity of the server that is deleted |
| ControlConfig | OwnedCommands, OwnedCore | the repair of the configuration of the Core that the round repairs |
| FlvxPolicy | FlvxGuards, FlvxPins | the passes that use the decisions about guards and pins |
| FlvxRate, FlvxGroups | FlvxBudgets | two consumers of the budgets |
| FlvxBilling | *implements* TrafficMeter | `Meter == INSTANCE TrafficMeter WITH ...` |

## 2. ManagementChannel (and DurableStore)

One server, its controller and its Helper.

| Model | Code |
|---|---|
| `ctl`, `ctlStore` | `ManagementCommands`, `ManagementResults` of the server in memory; `helper-state.json` and its `.bak` |
| `helper`, `helperStore` | `localState` (`PendingResult`, `CompletedCommandIDs`, `UninstallPending`); its file and `.bak` |
| `pc`, `reply` | where `runOnce` stands; the command of the answer |
| `late` | requests whose client timed out: their handler may still run |
| `expiresAt`, `now` | `ExpiresAt`; the controller's clock. The Helper's differs by `HelperDrift` |
| `rewound`, `ran`, `forgotten` | history for the properties, never read by a guard |

| Action | Code |
|---|---|
| `Enqueue` | `enqueueManagementCommand`: checks, append, save, roll back |
| `ControllerAnswers`, `ControllerHandlesLateReport` | `acceptManagementReport` in `helperDetailedConnectionsHandler`: acknowledge, remember, expire, save or roll back, answer with the head |
| `WithdrawCommand` | the places that take commands back: silent updates, ended batch rows, superseded `core.mode.apply`, a server deletion; saved, unsaved or rolled back, as they do |
| `ControllerSavesOther` | any other `saveLocked` |
| `RetireServer`, `ControllerRestarts` | `retireDeletedServerState`; `helperState.load` from the primary or the backup |
| `HelperReports` ... `HelperEndsPass` | `runOnce` step by step: save, upload, read the answer, verify and execute, save |
| `HelperFinishesUninstall` | the branch for `UninstallPending` |
| `HelperRestarts` | `loadLocalStateWithRecovery`: primary, backup or defaults |

`DurableStore` says what one call of `durableWriteFile` can leave behind, from the order of
its file operations. In particular a save reported as failed may have replaced the file.

Abstractions: UUIDs are numbered, results are known by their command, payloads and
signatures are left out (a command that does not verify in time is rejected with a result),
and the withdrawal of several commands at once is done one at a time.

## 3. UpgradeScheduler

| Model | Code |
|---|---|
| `state.job`, `.update`, `.queue`, `.seen` | `HelperBatch`, `AgentStatus.Update`, the update commands of `ManagementCommands`, the reported Helper version |
| `file`, `dirty` | `helper-state.json`, `updateProgressDirty` |
| `scheduler` | the three lock sections of `helperBatchTick`: sweep, (database read) advance, flush |
| `taken`, `given`, `workers` | the Helper's side: a command being executed, attempts that reached it, upgrade workers that may post |
| `issuedFor` | history of attempts by server and batch |

`UpdateOneServer`, `StartBatch`, `StopBatch` are the operator's calls, `Report`,
`Execute`, `Post` the Helper's, `SweepStale`, `AdvanceBatch`, `NothingToAdvance`,
`FlushProgress` the scheduler's, `ControllerRestarts` a reload of the file. Times are ages
in ticks, so behaviours are infinite and liveness is not cut short by a clock bound. A row
or attempt compares attempt numbers where the code compares `StartedAt`. Failed and
rolled-back outcomes are one phase; Core upgrades, which share the progress record, are
updates to the other version.

## 4. FlvxBilling

One share on one server, any set of nodes.

| Model | Code |
|---|---|
| `core` | the FLVX Core: start epoch, raw counters and which nodes have one, inbounds, blocks (external; as `collect` and the Core calls use it) |
| `helper`, `disk` | `flvxManager.state`, `state.json` |
| `published` | `flvxManager.report`, `reportedMaterial` |
| `pass`, `settled` | progress of `reconcile`, `reconciledPayload` |
| `inbox`, `request`, `late` | the payload not yet accepted, the upload under way, abandoned uploads |
| `share` | the share's row and its ledger |
| `carried`, `missed`, `born` | history: bytes really carried; nodes with bytes between the last sample of a pass and their block; what was carried when each generation of the Helper's totals was drawn |

The Helper's pass is cut where its writes are: `SaveFinalCounters`, `SaveCursors`,
`RemoveInbounds`, `AddInbounds`, `FinishPass` and, when usage crossed the cap in the pass,
`CloseAdmissions` and `CloseInbounds` (or `SteadyPass` if nothing differs), with
`CoreCallFails` and `FailPass` (`reportFailure`) for the errors, `StopRevoked` and
`RemoveInstance` after a revocation, `StayUnborn` for a share paused from the start.
`Accept` is `accept`, with `reportAbsentInstance`. On the other side `Answer`,
`UploadFails` and `HandleLate` are the controller's transaction (`mergeFLVXReport`,
`flvxHelperDesired`) with its answer read, lost, or handled long after; `PutDesired` and
`SaveShare` are the API.

A pass blocks what it will remove (`Limited`, `limits`), samples it for the last time, saves
the cursors and only then calls `rmi`. The comment at `H/flvx_runtime.go:530` says that the
counters go with the handlers; the Core of the repository's tests keeps them. So `Without`
is either, and a pass that saved nothing before `rmi` would lose bytes (the mutant of
`OnlyCoreRestartsLoseTraffic`).

Abstractions: up and down bytes are one number; a desired revision is the set of enabled
nodes; reset days are numbered periods, seen by both sides at once; a collected report is
published at once or later (the 30-second rule is the choice in `PersistReport`);
installation of the instance and its proxy, expiry dates and connection limits are left
out.

`TrafficMeter` is what the ledger promises, without Helper, reports and faults: a meter
that is read from time to time, may lag behind the Core or miss bytes, but never runs ahead
of it nor backwards, and whose usage grows within a period at least by what it bills.
`Meter == INSTANCE TrafficMeter WITH billed <- ..., period <- share.period, used <-
share.used` maps the row of the share onto it, and `BillsLikeAMeter == Meter!MeterSpec` is
checked as a property: every step of the detailed system is a carried byte, a reading, a
new period or a stutter. The usage is bounded from below only, see the observations.

## 5. CoreMode and CoreHandoff

| Model | Code |
|---|---|
| `formal`, `session` | `xray_mode` in the official database; an administrator session that may write it |
| `intent`, `queued`, `saved` | `data.CoreModeIntents`, the queued `core.mode.apply`, what `helper-state.json` has of both |
| `agent`, `xray`, `dropIn` | the mode file and the running mode of the official Agent, `xray.service`, its drop-in |
| `own`, `ownSaved` | `localState.ExternalOwnership` in memory and in `state.json` |
| `job`, `result` | the command being executed with its step; the result not yet reported |
| `mishap`, `died` | history: a service call or write failed, the Helper died during a handoff |
| `torn` | history: a write failed and nothing in the code makes up for it |

CoreMode has the controller's handlers (`Request`, `OfficialChange`, `Observed...`,
`Reconcile` with drift, grace and back-off, `ControllerRestarts`) with what the Helper sent
as parameters. CoreHandoff adds the Helper: `performExternalTakeover` (`CheckDone`,
`Snapshot`, `Arm`, `SetExternal`, `WriteExternal`, `RestartExternal`, `WaitExternal`,
`ControlConfig`) and `ensureEmbeddedDesiredState` (`CheckEmbedded`, `RequestEmbedded`, `RestoreFiles`,
`WriteEmbedded`, `RestartEmbedded`, `WaitEmbedded`, `Resume`, `ResumeMode`, `ResumeServices`),
each with its failure and the rollback that
follows it. An ownership that exists is first completed (`CheckOwnership`, the
`reconcileExternalOwnership` inside the handoff), and that may fail. A write of the Agent's
file may fail before the file is replaced (`WriteExternal`, rolled back) or after it
(`WriteExternalTears`). The failures for which the code has no repair are in `Tears`; they set
`torn`, and the properties about the machine are not claimed after one of them. The back-off keeps no count, times are "not yet" and "over", and one health
check sees the current state or times out.

## 6. UserAccess and UserDeletion

| Model | Code |
|---|---|
| `row`, `active`, `life` | official account and its state; the lifecycle record with the intent |
| `here`, `client` | the inbounds in the running configuration, the credential of each user in each (none, original, swapped) |
| `backup`, `blockRows` | the saved originals, the block rows of the database |
| `listed`, `ready`, `eval` | the published block list in memory, whether it was evaluated since the start, the evaluation under way |
| `supported`, `enforced`, `confirmed` | per Helper: block support, what it blocks, what it confirmed |
| `job`, `wholes` | the request that holds the lock of the user, with its plan and item; saved deletion snapshots |

A request of an administrator and the background migration are jobs. `BuildAccessPlan`,
`SaveAccessPlan`, `BlockItem`, `ReadInbound`, `WriteInbound`, `ApplyOfficial`,
`RefreshAtEnd`, `FinishAccessAttempt` are the parts of `executeAccessPlan` between two
remote calls or database writes. `EvaluationReads`, `EvaluationSaves`,
`EvaluationPublishes` are the three parts of `evaluateDisabledUsers`, `Report` the Helper's
request. UserDeletion adds `BuildDeletionPlan`, `SaveDeletePlan`, the three parts of an item that lie between
its remote calls (`DeleteItem` reads and compares, `RemoveItem` removes, `VerifyItem` reads
again), `VerifyDeletion` and `FinalizeDeletion` of `executeDeletePlan` under the same lock of the
user, but, as in the code, without the lock of the inbound.

Packages, external nodes and the credentials themselves are left out.
`applyAccessOfficialState` is not under the lock of the inbound (see the observations): a
replacement for another user that had read the inbound before brings the random credential
back. The history variable `undone` has exactly those pairs of user and inbound, until their credential
changes again, and `EnabledIsRestored` and `SwappedHasBackup` speak of every other random credential
(`Random`), in shared inbounds too.

## 7. HelperIdentity and ServerDeletion

| Model | Code |
|---|---|
| `mem`, `file` | the identity maps of `helperState` in memory and in `helper-state.json` |
| `asked`, `held`, `age`, `script` | token requests under way, tokens in an administrator's hands, their expiry, a downloaded install script |
| `config`, `core` | per machine: the installed Helper's identity and credential, whether it owns a Core |
| `db` | the official inventory: nodes, packages, subscription files, forward groups and chains, tunnels, inbounds, routes, certificates |
| `plan`, `call` | the saved `serverDeletionPlan`, the call that carries out one step |
| `evaluation`, `issued` | `evaluateDisabledUsers`, which may have read what a sweep deletes; uninstall commands |
| `touched`, `lost` | history: what administrators changed after the plan, warnings whose save failed |

`Check`, `Act` (or `ActFails`, `ActRouted`, `ActRoutedFallback`, `StopsCore`,
`DeletesServer`, `Retire`), `Save` (or `SaveFails`) are one call of
`executeServerDeletionStep`. `Effect` and `Halfway` say what each kind of step does, whole
or cut short. `Sweep` is `server_delete_cleanup.go`. `Start` computes the plan with the
operators `Affected`, `BrokenChains`, `BrokenTunnels`, `Doomed`, `DeadInbounds`, and
`PackagesFirst` and `PackagesLast` are the orders of its steps. Administrators edit between
any two steps (`Outside`), Helpers report, are installed and moved (`HelperIdentity`).

Before the server goes its identity is compared with the plan's (`deletionServerHash`): a token
renewed meanwhile (`RenewsServer`) stops the deletion for good; a renamed server is left out. That
a node is still there after its official deletion is one of the outcomes of `ActFails`.

A machine stands for its identity UUID. Statistics servers and pinned exits are names a
node depends on, the preview is the moment of `Start`, and the official clean-up after a
node is deleted is external. Reading and writing one package is one step. `Current` is any
step of the least rank: the code keeps the steps of a rank in a list of its own order.
`InventoryAssumption` is what the official database guarantees of an inventory: typed rows,
and selections of nodes there are.

## 8. OwnedCore, OwnedCommands, ControlConfig

| Model | Code |
|---|---|
| `core`, `image`, `rolls` | the Custom Core binary, its protected image, the rollback binaries |
| `unit`, `link`, `xray`, `custom` | drop-in, path link, `xray.service`, the duplicate service |
| `config`, `backup` | the live configuration (user part, control sections) and the last good copy |
| `own`, `saved` | `ExternalOwnership` in memory and in `state.json` |
| `job`, `helper`, `worker`, `newest` | the step of the round or command, the running Helper, the update worker, its binary |
| `master`, `marker`, `stale` | the controller's official snapshot, the recovery marker, the snapshot an Agent has not seen |
| `left`, `torn` | bounds by kind of event; history of the states an interruption leaves for which the code has no repair |

`Round` ... `Status` follow `reconcileExternalOwnershipWith` and `externalOwnershipStatus`;
`OwnedCommands` has prepare, arm, activate, rollback, update, rollback of the Core, restart
and stop step by step; `ControlConfig` the loop of `external_config.go`: look, prepare,
mark, post, activate, reload, confirm. `AgentReports` and `AdminEdits` change the official
side. Systemd restarts what fails, the worker of a Helper update restarts the Helper
between any two steps.

Restart and wait are one step, the grace of 30 s ends at any time, and the one-minute
back-off is left out as it only delays. Attaching the official Core, `core.config.apply`, assets and
uninstallation are left out.

## 9. FlvxPins, FlvxGuards, FlvxPolicy

| Model | Code |
|---|---|
| `wish`, `check` | the payload FLVX wants now; what the next check of a site would find |
| `st`, `disk` | `flvxLocalState` in memory and on disk: plan, rules, nodes, guards, pins, `RoutingRestartAt` |
| `mem` | what the manager keeps in memory only: retry times, `reconciledPayload`, whether this epoch's RoutingService answered (`routingOK`), or has none |
| `core` | the FLVX Core: rules, outbounds, inbounds, guards; whether it has a RoutingService; `unheard`, a history variable: the Helper cannot know its rules |
| `pass`, `spent` | the step of `reconcile`; bounds by kind of event |

`RealityPin`, `DecidePin` are the pure decisions of `flvx_reality_pin.go`;
`RetargetGuards`, `Allotted`, `GuardNeed`, `GuardFinal`, `GuardDropped` those of
`flvx_guard.go`. A pass is `PlanPass`, restart for routing, `WithOutbounds`, `WithRules`,
`ReplaceRules`, `RemoveStale`, then the guards and nodes (`RemoveOldGuard`, `AddGuard`,
`RemoveNode`, `AddNode`, `DropGuard`) and `EndPass`; every call of the Core may fail, or
succeed and lose its answer (`Landed`). The state is saved before the first call for a node and after each.
`SaveRestart` may fail to save, and the pass with it; `RoutingUnknown` is the Core that does not say whether
it has a RoutingService. `taken` are the ports that official inbounds, nodes, the API or the share's own
range hold (`conflict`): no guard is put there, a guard that is there already goes, and a group that has
such a port gets another. What a check says of an address is per address (`why`), whether a node may
leave its address is per node (`PinMoveFree`).

The share is active (FlvxBilling has the rest), and all nodes are VLESS Reality with the
same server names, so a guard group is a pinned address. A stopped Core is a new Core.
Ports are interchangeable, the smallest free one is taken. Rendering a plan, geo files and
memory figures are `RenderFails` and `RulesFail`.

## 10. FlvxBudgets, FlvxRate, FlvxGroups

| Model | Code |
|---|---|
| `sent`, `entry`, `held` | the calls of FLVX; the controller's newest budgets; the Helper's, each with its age |
| `node`, `net` | which user's node runs on a port; the machine's devices, chosen by the scan or taken by somebody else's qdisc |
| `kernel`, `lim` | IFBs, classes and filters in the kernel; the Helper's record of them (`flvxRateLimiter`) |
| `job`, `rates` | the step of `reconcileRates` with the rest of the batch; the rates reported last |
| `leases`, `group`, `snapshot` | the Core's leases by user and kind, its group with its limit, the snapshot a pass works with |

`PutUserLimits`, `ForgetUserLimits`, `Upload` and `Tick` are the exchange and the expiry of
both sides. A pass is `PassRefused`, `PassClears`, `PassHasNothing`, `PassIsSteady` or
`PassReconciles`; the last goes through `Scan`, `SetUp` and `Synced` and one `tc` batch,
whose lines are run one by one (`RunBatch`) and may be refused in the middle
(`RefuseBatch`), after which everything is torn down (`RemoveFilters`, `RemoveLinks`,
`LinksGoRegardless`). FlvxGroups has `ConnLimit` and `UserLimits` and the leases that come
and go between the snapshot and the limits.

Rates and connections have only the budgets in common, so TLC checks each on its own share;
`GroupsSpec` is the specification of the budgets and the groups alone. A rate of zero, like
none, does not limit (`H/flvx_rate.go:803`).
The IFB pair is one device, the filters of both directions, protocols and families are one,
others meddle only with IFBs, and both machines read one clock. The online-IP limit, the
cap of the server and failing limit calls are left out.
## 11. Runs

Every bound is a CONSTANT with a comment. All runs finish within four minutes.

| Run | Module, configuration | Bounds (states) | Checks |
|---|---|---|---|
| `channel` | MCManagementChannel, MCManagementChannel.cfg | 2 commands (one of a batch, one the uninstall), lists of 2 and 3, 2 mishaps of which 1 a lost call, Helper clock 1 behind (634k) | `TypeOK`, `ExecutedOncePerRecord`, `CompletedIsOwedOrRecorded`, `GoneIsRecorded`, `QueueDrains`, `ResultsArrive` |
| `upgrade_attempts` | UpgradeScheduler, UpgradeScheduler.cfg | 1 server, 1 update of its own and 1 batch, 1 fault (310k) | `OneLiveUpdate`, `OneCommandPerRow`, `BatchEnds`, `AttemptsEnd` |
| `upgrade_batch_cap` | UpgradeScheduler, UpgradeSchedulerCap.cfg | 2 servers, cap 1, 1 fault (551k) | `AtMostActive` |
| `flvx_faults` | FlvxBilling, FlvxBilling.cfg | 1 node, 2 bytes, quota 1, 1 change of FLVX, 1 fault (679k) | `BillsLikeAMeter`, `FinalCountersBilled`, `OnlyCoreRestartsLoseTraffic`, `DroppedNodesWereBilled`, `OverQuotaCloses` |
| `flvx_removed_node` | FlvxBilling, FlvxRemovedNode.cfg | 1 byte, 2 changes, 1 fault | `RemovedNodesAreBilled` *is violated* |
| `core_handoff` | CoreHandoff, CoreHandoff.cfg | 2 requests, 2 faults (109k) | `ServesThroughRefusals`, `HandoffStartsNoSecondCore`, `RequestsEndAtTheRealMode`, `Converges` |
| `user_access` | MCUserDeletion, UserAccess.cfg | one user on 2 inbounds, or two users on one; 2 requests, 1 change of the official system or 1 fault (694k) | `EnabledIsRestored`, `SwappedHasBackup`, `ReplacementsKeepSwaps`, `BlocksFollowTheIntent` |
| `user_deletion` | MCUserDeletion, UserDeletion.cfg | two users on one inbound, 2 requests, no fault | `DeletedUserHasNoClient` *is violated* |
| `server_deletion` | MCServerDeletion, ServerDeletion.cfg | a full inventory with 1 change and 1 fault; bare ones with 1 token and 1 fault, and with block lists an evaluation may write late (519k) | `NoSelectionIsEmptied`, `LeftoversAreAnnounced`, `DeletedIsRetired`, `AuthorizedIsDurable`, `OnlyPlannedNodesGo`, `DeletionEnds` |
| `owned_core` | MCControlConfig, ControlConfig.cfg | the combinations of events in `Budget`: drift, writes, commands, crashes, faults, edits (667k) | `ImageGuardsTheCore`, `OwnedCoreReturns`, `RepairIsActivated` |
| `flvx_policy` | MCFlvxPolicy, FlvxPolicy.cfg | 2 nodes, 2 plans, 2 sites, 2 guard ports, 3 events of different kinds (580k) | `NodesHaveTheirGuard`, `AddsBehindRules`, `PolicyConverges` |
| `flvx_limits` | MCFlvxLimits, FlvxLimits.cfg | 2 users, 2 ports, 2 devices, 3 events; 1 user with up to 3 leases (372k) | `NoRedirectIntoNothing`, `RatesInForce`, `AdmittedWithinBudget`, `RatesEnd` |

The bounds are enough for the cases the properties are about. Two mishaps are a crash
after a failed save, or a crash of both sides, and a history of 3 lets results be trimmed
in the channel. With one server the whole life of an attempt fits beside a batch that wants
the same server, and two servers with room for one decide the cap. One node suffices for the
ledger because its nodes do not share anything but the quota. In CoreHandoff two requests
supersede each other and two faults are a failure in the handoff and one in its rollback.
Two users on one inbound are the case of a replaced inbound, one user on two that of a plan
with a failed item. The full inventory has every kind of dependency and step once. Two nodes
with two plans are a node whose rules arrive in the same pass as the node, or leave before
it; three events are a change with a crash and a fault on top. Counters of the owned Core
are capped by kinds, in the combinations that meet in one step of the code, as all
together would only multiply unrelated histories.

Deadlock is checked in the runs of the channel and of the upgrades, where tickers
never stop. The other configurations say `CHECK_DEADLOCK FALSE`: once the bounded events are
used up and everything has converged, the system has nothing left to do. What must not
stop early is a liveness property there.

## 12. Fairness

Weak fairness on the steps of a loop that runs by itself; never on administrators, FLVX,
faults or crashes.

- ManagementChannel: the Helper's pass (ticker in `main.go`), the controller's answer to a
  request that is open, the clock.
- UpgradeScheduler: the three steps of `helperBatchTick` (one goroutine with a ticker) and,
  strongly, the clock, which ticks whatever the scheduler does.
- FlvxBilling: `Accept`, `Reconcile` and the upload, each on every tick of the instance.
- CoreHandoff: reports and the handoff (5 s loop of the Helper), recovery of the Agent
  (systemd), the return of a session (an administrator logs in again), the end of grace and
  back-off.
- UserAccess: the evaluation (a ticker) and, strongly, reports of each Helper: faults are
  counted, so an infinite behaviour has a Helper that answers.
- ServerDeletion: `Progress` (the page asks for the next step while a plan runs), the lock
  in `Retire`, strongly (a waiting goroutine gets a Go mutex, starvation mode), time, and
  the evaluation.
- ControlConfig: the step of the Helper, the Agent's report, systemd's restart, the worker
  of an update.
- FlvxPolicy: the pass and the end of a retry wait (the run loop, 5 s). FlvxRate: the steps of a
  pass and the clock, and, strongly, a pass after each minute.

## 13. Findings

Runs that expect a violation; each quotes the line of the repository it disagrees with in
`PROJECT.json`.

- `flvx_removed_node`: a Helper restarted between the first inbound of a node and the end
  of that pass never reports the node if FLVX removes it before the next pass; its bytes
  are sampled and never billed (`H/flvx_runtime.go:286`).
- `user_deletion`: a request for another user that read a shared inbound before the deletion
  removes the client writes it back after the deletion has verified its absence
  (`user_lifecycle.go:1709` takes no lock of the inbound).

## 14. Observations

Where a property had to be stated with an exception, or a state of the model is worth
knowing. None of them is checked as a finding.

Core mode and takeover:
- An older repair command for the other mode that is still queued or running ends a newer
  pending request. The property says only that it ends at a mode really in force.
- A rollback before the official write leaves the request pending (`docs/architecture.md:126`
  against `core_mode_official.go:59`).
- A Helper that dies inside a handoff can leave no Core, or two; `ServesThroughRefusals`,
  `HandoffStartsNoSecondCore` and `Converges` exclude it (`died`).
- So can failed writes; the three properties exclude them too (`torn`, `Whole`). If
  `writeAgentXrayMode` fails after it has replaced the file and the rollback is refused,
  `rollbackTakeover` reads `external` and starts `xray.service` beside an Agent that still runs
  embedded. The rollback inside `ensureEmbeddedDesiredState` ignores that the previous mode
  could not be written, restarts the Agent and starts `xray.service` all the same
  (`takeover.go:198-203`). If the drop-in of a resumed ownership cannot be written, the
  ownership stays enabled without it until the next pass completes it, which starts
  `xray.service` whatever the Agent runs by then. If the write of `embedded` fails after the
  file was replaced and nothing can be resumed, the file says embedded, the Agent runs
  external, and `coreModeLocalHealthy` calls it healthy although no Core runs: the repair
  loop has nothing to repair.
- Between the write of `embedded` and the stop of `xray.service` (`takeover.go:264-267`) an
  Agent that was down and is started by systemd is a second Core for a moment
  (`AgentReturns`).
- If `armExternalOwnership` fails before the ownership is enabled and the controller then
  refuses the rollback, nothing resumes the External services.

Users:
- `applyAccessOfficialState` does not hold the lock of the inbound, so a replacement under
  way for one user can bring back what was removed or swapped for another on a shared inbound:
  a user who was enabled meanwhile is left with a random credential, whose backup goes with the
  request. `EnabledIsRestored` and `SwappedHasBackup` exempt the pairs this happened to
  (`undone`); with a third request the model gets there, in 20 steps.
- A confirmation can become stale between its check and the write that relies on it.

Server deletion and identities:
- A node added or edited between the check of a call and its official operation is deleted
  with the rest (`server_delete_execute.go:325`); a node edited after the preview blocks the deletion.
- `DeleteEmptiedLifecyclePackage` deletes a package that was turned into "all nodes" (an empty
  list) between preview and step.
- With two first-install tokens the download of the second replaces the credential of a Helper
  that runs with the first, whose rebinding is refused from then on.
- A failed save of a rebinding leaves memory with the moved identity until the restart
  (`helper_identity.go:626`); a failed save of a report that replaced the file can promote
  the pending credential at the restart.
- When an administrator removes the server by hand during its deletion, the official
  deletion takes its nodes out of the packages, and a package of nothing else becomes "all nodes"
  before the plan gets to it (`ByHand` is the exception in `NoSelectionIsEmptied`).
- `AuthorizedIsDurable` lets the place of a machine in the file be taken by any other credential
  of it: after two failed saves that can be an older one.
- A rebinding leaves the other install tokens of its target server as they are
  (`helper_identity.go:613`), and they record the identity the server had before. Downloading
  one puts that identity back (`helper_identity.go:400`) under the credential of the machine that
  has moved there: its reports are refused from then on. With a fourth token, of the
  identity in between, whose download could not be saved, memory accepts the machine again and
  the file does not, and no other credential has its place: then `AuthorizedIsDurable` is false.
- The uninstall command belongs to the server and not to a machine: when the server is rebound
  to another machine, which carries it out, and back within the wait, the first Helper is taken
  for uninstalled. Two rebindings need more tokens than the run has.
- A warning announced in a call whose plan could not be saved is lost (`lost`). A completed
  sweep is never repeated, so a token authorised before the deletion and issued after the
  retirement stays, and whoever installs with it has a Helper of a server that is gone
  (`LateToken`). `DeletedIsRetired` and `NoHelperIsLeft` do not speak of deletions this
  happened to; a late token that comes before the retirement is covered.

Owned Core:
- A failed update of a Core that drifted since the last round puts the drifted binary into the
  image, after which the round refuses it (`H/external_ownership.go:422-425` says otherwise).
- A Helper that dies inside a Core update, or is restarted by the worker of its own update,
  leaves image and hash different; every later round fails until the next update (`torn`).
- The last good copy is taken after the validation and can be of another configuration.
- `core.rollback` on an owned machine is undone by the next round.
- An administrator's edit between the repair and its confirmation makes the marker refuse
  every later repair until the old user part returns.

FLVX billing:
- A Helper that dies after its counters were saved but before `record` publishes, at the restart,
  a report whose usage includes bytes its nodes do not. The controller takes the larger usage
  and adds the same bytes again when the next report names them (`mergeFLVXReport`): one
  byte can cost two of the quota. So the meter bounds the usage only from below.
- When usage crosses the cap within a pass, the pass samples, then blocks, then removes
  (`H/flvx_runtime.go:577-597`): bytes carried between sample and block are counted by nothing but the
  Core's counter. If the counters go with the inbounds they are lost (`Unsampled`). If the
  counters stay, the node is already reported as removed, the next pass samples them, and as
  only a byte count changed nothing is published for 30 seconds; when the node leaves the desired
  state and the answer to the older report arrives in this time, `record` drops the node (the
  sampled counter is compared with the unpublished status) and the bytes
  never reach the ledger. `DroppedNodesWereBilled` exempts these nodes (`missed`).
- If the counters go with the inbounds, a node that is added again in the same epoch starts below
  its saved cursor. When it has overtaken the cursor before the next sample, `Delta` counts the
  difference only (`Stale`). The last sample of the pass that adds it makes this window small.
- Usage of the last period that is reported after midnight counts in neither period.

FLVX policy:
- After a lost answer to `adrules` and a plan that returns to the recorded one, the record
  equals the target and "applied" is reported while the Core keeps other rules; `withhold`
  trusts the same record. The same can follow when the Helper dies before it has saved an answer, or
  the Core restarts within a pass. The properties do not speak of a Core after that
  (`unheard`), until rules are replaced with an answer again. They do rely on nothing else:
  that the record is right whenever every answer was heard is part of what is proved.
- The record of the rules is also erased when the API does not answer and there is no plan
  (`H/flvx_egress.go:738-746`), although the Core may have rules: the comment there, "A Core
  without RoutingService never received our rules", speaks of `missing` only. An erased
  record of a Core with rules counts as `unheard`, even when a later removal lands unseen and the
  empty record is right by coincidence: a node kept at its guard then has no rules behind it.
- A Helper that dies twice, after the removal of a node and after its addition, each time
  before the save, has another inbound on record than the Core, and keeps a record of
  a node that is gone; with both guarded, the guard of the node the Core has may be
  dropped. So `NodesHaveTheirGuard` speaks of the nodes that are as recorded.
- `RoutingRestartAt` is saved before the restart, so a Helper that dies in between never
  restarts the Core and the covered nodes stay away (`NeverRestarted`). A save that fails there
  ends the pass, and what the file has decides after a restart of the Helper.
- A guard added before a crash and not yet saved, and a node removed before one, stay in the
  Core or in the record until it restarts (`H/flvx_guard.go:348`, `:63`).
- A Core that restarts within a pass gets nodes without rules until the next one.

FLVX limits:
- When none of the open leases is counted, `ConnLimit` admits one more than
  `H/flvx_user_limits.go:238` says; leases opened between the snapshot and the first limit are
  missed until the next pass.
- One device with somebody else's ingress qdisc switches all shaping off.
- An IFB that is taken down by somebody loses packets until the check of that minute, and a
  filter removed by somebody is not noticed at all: the record is never read back.

## 15. Proofs

Each proof module EXTENDS the modules it is about (HelperCoresProofs has FlvxPolicy and
CoreHandoff, the two Cores a Helper keeps), and proves `Init => Inv`,
`Inv /\ [Next]_vars => Inv'` with one lemma for each action, and `Inv => Property`. Every
inductive invariant was first checked by TLC with the bounds of the run. Assumptions are
the named ASSUMEs of the modules: bounds are naturals, limits positive, sets finite where
the code holds them in a list, nothing about their size.

| Module | Theorem | Property of a run |
|---|---|---|
| ManagementChannelProofs | `TypeCorrect` | `TypeOK`, with the limits of queue, history and replay window |
| | `ResultsNeverLost` | `CompletedIsOwedOrRecorded` |
| | `RemovalIsRecorded` | `GoneIsRecorded` |
| | `NothingRunsTwice` | `ExecutedOncePerRecord`, within the replay window |
| UpgradeSchedulerProofs | `LimitOfRunningRows` | `AtMostActive` |
| | `OneLiveUpdatePerServer` | `OneLiveUpdate` |
| | `OneCommandForEachRow` | `OneCommandPerRow` |
| FlvxBillingProofs | `LedgerIsAMeter` | `BillsLikeAMeter`: FlvxBilling implements TrafficMeter |
| | `OnlyTheCoreLosesTraffic` | `OnlyCoreRestartsLoseTraffic` |
| | `FinalCountersAreBilled` | `FinalCountersBilled` |
| | `DroppedNodesAreBilled` | `DroppedNodesWereBilled` (action) |
| HelperCoresProofs | `NodesComeBehindRules` | `AddsBehindRules` (action) |
| | `GuardsOfNodesListen` | `NodesHaveTheirGuard` |
| | `RefusalsKeepServing` | `ServesThroughRefusals` |
| | `NoSecondCore` | `HandoffStartsNoSecondCore` (action) |
| | `RequestsEnd` | `RequestsEndAtTheRealMode` (action) |
| ControlConfigProofs | `ImageGuards` | `ImageGuardsTheCore` |
| FlvxLimitsProofs | `NoRedirect` | `NoRedirectIntoNothing` |
| | `RatesHold` | `RatesInForce` |
| | `ConnectionsHold` | `AdmittedWithinBudget`, of `GroupsSpec` |
| UserDeletionProofs | `OriginalsAreKept` | `SwappedHasBackup` |
| | `EnabledMeansRestored` | `EnabledIsRestored` |
| | `ReplacementsKeepOthers` | `ReplacementsKeepSwaps` (action) |
| ServerDeletionProofs | `SelectionsAreKept` | `NoSelectionIsEmptied` |
| | `NoHelperIsLeft` | `DeletedIsRetired`, with its exception of late tokens |
| | `OnlyPlannedGo` | `OnlyPlannedNodesGo` (action) |
| | `LeftoversAreListed` | the official half of `LeftoversAreAnnounced` |

`TypesAlways`, `BillingIsSound`, `AnswersAreSound`, `PolicyHolds`, `HandoffIsSound`, `OwnedCoreIsSound`, `RatesAreSound`,
`GroupsAreCovered`, `UsersAreSound` and `DeletionIsSound` state the inductive invariants
themselves.

**Results are never lost** (`DeliveryInv`). The property speaks of the Helper's memory and
the controller's file, but a Helper restart brings back an older copy and a controller save
writes what is in memory. So it is stated of all copies of the Helper's state and of the
controller's memory, with: the file is never behind the memory (a failed save can leave it
ahead); a Helper that runs a command owes nothing (the answer took the previous result);
while an answer is read its result is already recorded.

**A retirement is recorded, nothing runs twice** (`UninstallInv`, `ReplayInv`). The files are
never ahead of what was answered, so a Helper that is gone left its uninstall in the
controller's history. Every execution of a command is in the completed list, or was lost
with a copy of the state, which `forgotten` counts. The property claims this while at most
`CompletedMax` commands were drawn: a controller that falls back to its backup again and again can
offer a withdrawn command after the Helper has completed more than it remembers, so beyond
the window the statement is false, in the model and in the code.

**Upgrades** (`SchedulerInv`). The same facts hold of the memory and of the file (`Good`): the
running rows are within the limit, a server has one live update. `Commands` relates
both to the attempts: a row that runs holds the command of its attempt, no two rows one
command, and no command is issued twice. No step brings a command or a waiting row
back that was not in the memory or the file, so a restart is no special case.

**Billing** (`BillingInv`). Every byte in the ledger is a different byte that the Core carried:
`LedgerIsSound` names the set, and says which of them the present generation can still report.
The Helper's totals never exceed what was carried since the generation was drawn (`HelperIsSound`,
with `born`), reports in any place, old or late, are earlier views of a generation
(`ReportsAreSound`), and each generation ends before the next (`GenerationsInOrder`).
Then every step of the system is a step of TrafficMeter or a stutter. Sums over nodes are
the folds of the community modules, and sums are compared by the least set of nodes
where the comparison would fail, as induction over data is out of reach.
The hypothesis `FewGenerations` is that at most `MaxRetired` generations followed the first:
the controller remembers 32 retired ones (`flvx_store.go:510`), their names are random
(`H/flvx_instance.go:194-199`), and a late report of an older one would be billed again.

**Removed nodes** (`AckInv`, on top of `BillingInv`). A node has ended when it is removed or its
instance is stopped. An acknowledged sequence stands for a report, and a state may have moved
on since without a new sequence: byte counts go out every 30 seconds, only material changes at
once. So `Answered` says of the state in memory and of the one in the file: a sequence that
was acknowledged, or still will be, belongs to a report with the last byte of every node that
has ended in this state. It is inductive because a settled pass that publishes nothing finds the
ended nodes as they were published (`RecordIsSound`): they are not served, their counters gain
nothing, and the quota, which can close and open nodes within a pass, is part of the material.
The order of a pass (cursors, removals, additions, last sample) is in `PassIsSound`.

**FLVX Core** (`PolicyInv`). Four records can disagree: memory, disk, the pass and the Core.
`RecordInv`: while every answer of this Core was heard (`Heard`), the record, or within a pass the
target it is about to record, is what the Core has; a Core that was never recorded has no nodes.
`Behind`: rules that were heard of cover every port the nodes of the Core point at. It is inductive
because a pass asks
for rules for every port in use (`TargetInv`), replaces rules only when they differ from the
record or that is stale, and points nodes only at guards of recorded rules (`GuardsToDo`).
Within a pass, `GuardsListen` follows the list of guards that listen, through failing
calls, the removal of old guards at the end and a restart of the Core, after which it
claims nothing; `WithheldInv` says that a node only the new plan covers is withheld while the
recorded plan is another; `FinalInv` that what a node becomes uses only guards that
listen and no withheld node. `NodeAppears`: an inbound appears only by the step of a pass
for it, or by its call that lands although the pass fails or the Helper dies. The pure
decisions enter by what they keep: a port in use keeps its group through `RetargetGuards`,
`Allotted` and `Freed`. Nodes, plans, sites, ports and the numbers of events are any.

**Handoff** (`HandoffInv`). By the step of the handoff: what runs, what the drop-in says,
which ownership is saved, and so to what a failure at this step rolls back. The invariant is
weakest where the Agent's file is being put back (`Between`): there a running `xray.service` is
only known to be what is resumed, and `NothingStartsBetween` shows step by step that nothing is
started meanwhile. After the death of the Helper in a handoff or a torn write
nothing but the types is claimed (`TearsStep`), and after a failed service call nothing of the
services: those are the exceptions the properties have.

**Owned Core** (`HelperInv`). A prepared ownership has an image with the expected hash,
outside the steps that write the two one after the other and unless one of these was
interrupted (`torn`). It covers rounds, updates, rollbacks and crashes of all three modules.

**Rates** (`RateInv`). Whenever a pass may rely on the record, the record is what is in the
kernel; a filter is the last line of a batch that leads to it (`OrderInv`), so one that fails
midway redirects nowhere; a user gets a class that nobody else has because classes are taken
by rank among the free ones (pigeonhole). **Connections** (`GroupsInv`): the limit
set plus the leases the group does not count stay within the budget and the relays.

**Users** (`UserInv`). A saved plan is carried out long after it was made, with failed calls and
restarts in between. `ItemSound` says what each item of it still relies on: the original is in
the backups before an inbound is replaced, an item that only blocks is for a credential that
is not swapped, an item of an enabling that is done left no swapped credential. `Locked` is
what the lock of an inbound gives: no two users are between reading and writing it, and what
one of them read has no original where the inbound has a swapped credential, so writing it
back brings none back. A write can only bring back a random credential that has gone since the
read, and then the pair is in `undone`; so for all other pairs the lock is not needed to know that a
random credential is one the user's own request put there (`Fades`). `ListsSound`: the database names no user to be enabled, and no list that
an evaluation holds or a Helper has names one who is enabled. Users and inbounds are any
sets, and so are the pairs whose credential is not the user's alone.

**Deletion of a server** (`DeletionInv`). A call is a copy of the saved plan and of what it found,
and both go on while administrators and Helpers change the system. `PlanInv`: the steps are
completed in the order of their ranks, and what a completed step achieved (`Settled`) cannot be
undone by a later step, a repeated one or a restart; so at the step of a node, every package
and subscription that selects it has been narrowed or was edited by hand. `CallInv`:
the step is one of the first that are left, and the rows it looked at are those of the plan.
`SystemInv`: a node that is not planned stays on its server, selections only lose nodes and are
emptied by nobody, tunnels do not come back. `NoticesSound`: what a step left behind is announced
by the plan or the call, or was announced in a plan that could not be saved. The inventory, the
Helpers and the identities are any that satisfy `InventoryAssumption`, `IdentityAssumption` and
`DeletedAssumption`.

Only model-checked:
- every liveness property, as the prover has no fairness and no ENABLED;
- `AuthorizedIsDurable`: it is checked within the bounds of its run and is not true for every number of
  tokens. With four tokens and a failed save the history of section 14 (a rebinding, and two older
  tokens of the target server) violates it, so there is no theorem to prove without excluding
  that history;
- what `LeftoversAreAnnounced` says of the Helper itself, for the reason given in section 14.

## 16. Not modelled, and why

- **Package traffic groups**: one SQL statement a minute decides; what follows is the block
  list that UserAccess has for disabled users.
- **The single file operations of `durableWriteFile`**: DurableStore states their outcomes,
  a model of each operation is planned.
- **Secure channel, operator authorization**: cryptography and session lookups; the window
  of received sequences is a small algorithm, planned with a reference definition.
- **Machine protection, IP limiter, release cache**: one saved value each.
- **Connections and their ownership, UI metadata, realtime pages**: joins over rows and
  single writes without a protocol.
- **Front end, proxy, installers, probes of Reality targets**: input and output around the
  state above. The outcome of probes, renderings and downloads is an input of the models.

## 17. Plan

1. DurableFile: `durableWriteFile` and the recovery one operation at a time, with a crash
   between any two; shown to implement `DurableStore`.
2. Package traffic groups on top of UserAccess; the secure-channel window against a
   reference definition.
