# TLA+ models of ECorp (crony)

This directory models the coordination core of the repository: how the server
allocates runs of tasks to runners and what it accepts from them, how a runner
stays connected and executes an assignment in a worktree, how commands and
artifacts travel, and how the factory takes a GitHub Project item from a claim
to a published pull request. `PROJECT.json` lists the runs, the mutants, the
source lines behind every definition, the hazards and the theorems.

    tlc -workers 2 -config RunGraph.cfg MCRunLifecycle     # one run of PROJECT.json
    tlapm RunLifecycleProofs.tla                           # one proof module

## 1. The system

Three planes: clients (React/Tauri desktop, `crony-cli`, the ACP/A2A/MCP
gateways), a control plane (`crony-server`, Axum over HTTP and WebSockets, and
`crony-store`, the Postgres transactions), and execution (`crony-runner`, one
outbound WebSocket per runner, supervising coding agents in git worktrees).

| Component | State | Operations | Hard behaviour | Module |
|---|---|---|---|---|
| Run store and scheduler (`crony-store/src/lib.rs`, `crony-server/src/main.rs`) | missions, tasks, runs, agents, evidence, approvals, messages | allocate, resume, dispatch, apply runner events, decide, expire, lose a runner | transactions of scheduler, runner events, operators and timers in any order; a pass spans many | `RunLifecycle` |
| Runner connection (server, store, runner) | `runner_nodes`, credentials, `AppState.runners`, `OutboundBus`, `active_runs` | register, heartbeat, reconcile, grace, revoke, rotate | several sockets and tasks of one runner at once; crashes on both sides | `RunnerConnection` |
| Command outbox (server, store, runner) | `runner_commands`, `control_leases`, `seen_commands` | enqueue, dispatch a page, acknowledge, fail | redelivery, lost acknowledgments, leases that move on | `CommandOutbox` |
| Artifact upload and staging (server, store, runner) | `artifacts`, staging and content-addressed objects | reserve, stage, copy, commit, reject, recover | two stores without a common transaction; recovery beside live handlers | `ArtifactStaging` |
| Worktrees, verifier, deliverables (runner) | worktree, branch, seal, snapshots, hard boundary | prepare, resume, seal, verify, export, finalize | edits from outside between any two steps, hard stops, crashes | `Worktree` |
| Provider adapters (runner) | child process tree, controls, permission requests | start, steer, decide, cancel, tear down | everything races: controls, provider output, exits, timeouts | `ProviderSession` |
| Workspace connections (server, store, runner) | setup operations, saved connection, runner registry | connect, sign in, test, bind and resume runs | receipts and acknowledgements over a lossy socket, registry on disk | `WorkspaceConnections` |
| Factory work items (store, `crony-cli`) | `factory_work_items`, operations by idempotency key, mission, GitHub issue | claim, renew, upgrade, materialize, transition, launch, settle, recover, reopen | fenced leases, replayed requests, two drivers of one actor | `FactoryClaim`, promise in `FactoryItem` |
| Factory controller (store, `crony-cli`) | `factory_controllers`, request budget | heartbeat, pause, resume, reconcile, wait | takeover by a newer process, quota waits that must survive it | `FactoryWatch` |
| Verification recovery (store, server, runner) | recoveries, budget and contract revisions, lineage of runs | authorise, dispatch, verify, correct, resume, cancel | a tree that may change between seal, check and verdict | `FactoryRecovery` |
| Publication (store, `crony-cli`) | `pull_request_publications`, GitHub branch, pull request, status | start, renew, push, create, checkpoint, record | external effects that cannot be rolled back | `Publication` |
| Control leases, budgets, staffing, planner, dependency context, auth, gateways, clients, tools | see `PROJECT.json` | | | partly or not at all |

The parts meet as follows. An HTTP request or a runner event triggers a
scheduling pass. The pass lists candidate tasks, picks a ready connection from
the in-memory map, allocates a run in a transaction and sends `StartRun` once,
unacknowledged. The runner prepares a worktree, lets an adapter work in it,
verifies what came out and streams run events over the socket; the server
accepts them only from the connection in the map and applies each one in a
transaction, the bytes of a deliverable going through the object store.
Decisions, breaker stages and steering go the other way through the
`runner_commands` table and are redelivered until acknowledged. On top of this,
`ecorp factory` processes claim Project items, create one mission for each,
recover failed verifications under governed budgets, and publish what was
verified.

What makes each part correct: a task and an agent have at most one active run,
acceptance is backed by evidence, finished is final (run store); nothing is
allocated on stale knowledge, and no run waits for nobody (connection); a command
takes effect at most once, in order, and its record tells the truth (outbox);
what is called stored can be read (staging); what is accepted is one sealed tree
and clean-up loses nothing (worktree); nothing outlives a session and a
permission is answered once, as decided (adapters); a login starts once and both
sides mean the same source (workspace connections); an item has one owner and one
mission (factory); what the record says of GitHub is so (publication).

## 2. Modules

| Module | Models | Relation to the others |
|---|---|---|
| `Assignment` | abstract promise: an assignment is made over no live one, ends once | |
| `RunLifecycle` | run store and scheduler | implements `Assignment` (`INSTANCE ... WITH`) |
| `RunnerConnection` | one runner's registration, epochs, grace, revocation | the loss of a runner is one action of `RunLifecycle` |
| `CommandOutbox` | durable commands of one run | abstracts `RunnerConnection` to an epoch counter |
| `ArtifactStaging` | uploads, object store, recovery passes | its outcome is `finalize_artifact_upload` of `RunLifecycle` |
| `Worktree` | one worktree and its assignments | the runner inside a run of `RunLifecycle` |
| `ProviderSession` | one call of an adapter | inside the provider step of `Worktree` |
| `WorkspaceConnections` | one saved connection | |
| `FactoryItem` | abstract promise about a Project item | |
| `FactoryClaim` | work item, drivers, GitHub issue | implements `FactoryItem` |
| `FactoryWatch` | the controller's loop and quota | a cycle of it is a cycle of `FactoryClaim` |
| `FactoryRecovery` | governed recovery of one task | store, server and runner composed in one module |
| `Publication` | publication of a verified item | begins where `FactoryClaim` ends |
| `RunLifecycleProofs`, `RunnerConnectionProofs`, `CommandOutboxProofs`, `ArtifactStagingProofs`, `WorkspaceConnectionsProofs`, `FactoryClaimProofs`, `FactoryWatchProofs`, `PublicationProofs` | theorems | extend the module they are about; the theorem about `Assignment` is in `RunLifecycleProofs` |
| `MC*` | instances for TLC | |

An action carries the name of the Rust function it models where there is one.
Definitions such as `AcceptedAll`, `EnableAny` or `IgnoresExpiry` that no action
uses are the mutants: plausible bugs, listed in `PROJECT.json`, each of which
makes TLC report the property it is paired with.

### RunLifecycle

One action is one database transaction: `create_task_run`, `create_resume_run`,
`fail_run_before_dispatch`, one action per event type of `apply_runner_event`
(`run_started`, `run_approval_requested`, `run_verification_passed`,
`run_completed`, `run_failed`, ...), `finalize_artifact_upload`,
`evaluate_circuit_breaker`, `decide_action_approval`, `expire_action_approval`,
`decide_verification`, `mark_runner_runs_lost`, `queue_message`. Each variable is a
column or a group of columns of one table. What a handler does between
transactions has state of its own: `candidates` (the list of a scheduling pass),
`dispatch` (how far the allocating handler is), `timers` (expiry timers in server
memory), `worker` (the supervised process, which emits its events in the order of
the runner's code). `ServerRestart` forgets the first three.

Abstractions: a run id is its position in the creation order; usage and loop
metrics are one pressure level; a run has at most one action approval and one
artifact; agents are pinned; no mission belongs to a factory work item (those
branches are in `FactoryClaim` and `FactoryRecovery`);
`tasks.verification_status` and `agents.station` mirror other columns and are left
out.

### RunnerConnection

The store keys its rows by runner, so one runner is modelled. The server handles
one socket sequentially; sockets, timers and spawned tasks interleave at every
`await`, and an action is what happens between two of them. `handler[e]` is where
`runner_socket` of epoch `e` is: `Authenticate`, `RunnerConnected`, `InsertEntry`
and `Reconcile` are the four transactions or map updates of a registration,
`MarkUnclaimed` and `EnableDispatch` the task that finalizes it a second later.
`node` is the row of `runner_nodes`, `entry` the entry of `AppState.runners`; that
the two change at different moments is the point of the model. On the runner's
side `link` is the socket it reads, `bus` the connection its `OutboundBus` is
attached to, `buffer` the events the bus keeps, `held` its `active_runs`, and
`credFile`/`enrollFile` its two files. `up` and `down` are the channels of each
socket; `LeaveSocket` delivers a prefix of the first, loses what the aborted
writer had not sent and buffers what was sent after the writer had failed.
A run that ends sends its last event first (`RunEnds`) and stays in `active_runs`,
`reported`, until its worktree is finalized (`RunRemoved`). `WithdrawRun` is what
the server does to a run its runner still works on without a `StopRun`: an approval
that expires (`expire_action_approval`), an artifact it rejects.

Assumptions, each visible as a guard or named in a comment:

- UUIDs are drawn fresh from what nothing remembers any more, so finitely many
  suffice for unboundedly many connections.
- The grace period outlasts the gap between two awaits of a scheduling pass
  (`GraceExpires`), and the rotation of a credential, minutes later, comes after
  the one-second finalization (`RotateCredential`).
- The claims a runner registers with, `Register` and `attach` are one step.
- An operator enrolls a runner again only while no registration is in progress.
- The server runs with `runner_startup_recovery`, its default.
- `lapsed` is a history variable: epochs whose disconnect or expiry transaction
  failed and was only logged.

### CommandOutbox

`outbox` and `status` are the rows of `runner_commands`; `work[d]` is one call of
`dispatch_pending_runner_commands_for_epoch`, with the page it fetched earlier (the
positions of its commands in `outbox`, sent in creation order).
Each command is checked (`CheckCommand`: epoch, then the lease for control
messages) and sent (`SendCommand`: epoch again) in separate steps. On the runner,
`seen` is `seen_commands`, `assignment` how far the supervised run is, `boundary`
the compare-and-exchange of `HardBoundaryControl` between a hard breaker stage and
the clean-up of the workspace. `effects` counts how often a command reached the
run and is a history variable. `PageSize` stands for the `LIMIT 100` of the query.
Left out: `requeue_control_message` and runners without `durable-control-v1`.

### ArtifactStaging

A handler of the server goes through one step per transaction or object-store
call: it reserves a row of `artifacts`, writes `staging`, copies to `final`,
commits and acknowledges. `Recover` is a pass of the recovery task, one step per
row or object it looks at, beside the handlers and after a restart. `aged` says
that a row is older than the recovery grace, which passes by the action
`GraceEnds`. The runner's loop sends each role at most `MaxTries` times (6 in the
code), each time under a new event id. The object store is external: reads see
the last write, a write may be lost, and bytes may be damaged before they are
verified.

### Worktree

`pc` is where the assignment's task is, from admission (`Assign`, with what
`prepare`, `resume_at` and `verify_at` check) over the provider's work, the seal
(`fingerprint`), the checks, the export of the deliverable, its upload and the
`finalize` of the worktree. `rec` is what the server recorded of earlier
assignments and hands to the next, `hard` the `HardBoundaryControl`. Between any
two steps `Around` edits the tree, moves the base branch, makes a file operation
fail, kills the process or asks for a hard stop. A path is a class of files: the
source says what the code does differently with tracked, ignored, out-of-scope,
secret-like and artifact files, and there is one path of each. Git is external.

### ProviderSession

`stage` is where `execute` of the adapter stands; the four adapters share the
variables and have their own actions (`External*` and `Claude*` for the command lines in an owned
process tree, `Codex*`, `Copilot*`). `inbox` holds the controls the runner sent,
`deferred` what the adapter keeps for a later moment, `ask`/`answers` what became
of a permission request on the provider's side. `root`, `tree` and `term` are the
processes: they live or die on their own, and a kill takes effect later. A stop
of Codex kills the child only before the thread is requested (`turn` 0); later it is
`asked` and waits for the turn, whose interrupt is then `sent`, or for the start-up
to fail. At the end of the child's output the loop is `drained`: it waits for the
exit and reads no control. A failing `stop` of the Copilot client is ignored. The
kind `probe` is the availability probe, which shares the teardown.

### WorkspaceConnections

`db` is the store's side (one operation row per version of the connection),
`net` the socket with its command queue and reports, `reg` the runner's registry
file and `flight` the native checks in memory, which a restart forgets. Begin,
report, acknowledge, expire, claim of a login, `bind_new_run` and `resume_run` are
actions. Each of the registry's writes may fail, with what the code makes of it: the
reservation (`execute`) and the receipt (`finish`) are reported as failures without
a receipt, a login that cannot be claimed ends the check (`SourceRefused`), and an
acknowledgement that cannot be kept is asked for again by the next heartbeat. A
check ends ready, in need of a sign-in, or failed with the source it looked at. A
snapshot is identified by the commit it
pins and by whether the agent listed its models.

### FactoryItem and FactoryClaim

`item` is the row of `factory_work_items`, `ops` the answers stored under
idempotency keys, `drv[p]` where the cycle of driver `p` is. A driver makes one
request per step: read the Project, claim or reclaim, upgrade the source, move the
Project status, create the mission, launch it, settle it; the store's answer to
each is `ensure_active_factory_control`, the guard of the operation, and a replay
if the key is known. The mission moves by itself (`MissionCompletes`,
`MissionFails`, `MissionResumes`, ...) and takes the row with it as
`factory_run_failure.rs` and the outcome reconciliation do. A person may launch the
mission without the factory (`OperatorLaunch`, the server's `launch_mission`). A
mission that a breaker stopped may leave a checkpoint (`kept`); a driver that
recovers checkpoints asks for its verification (`RecoverCheckpoint`), and takes a
cancelled item back to running first (`Reopen`, `reconcile_checkpoint_cancellation`)
if its last event is the driver's own cancellation of the running item. An item
starts absent, as the claim of an older release, or cancelled so. `FactoryItem`
states what everyone else may rely on: a fence that only grows, versions that every
change consumes, one mission, and outcomes that stay, but for a cancellation, which
may be taken back for the mission the item has.

### FactoryWatch

`ctl` is the row of `factory_controllers`, `w[p]` the loop of a `watch` process:
heartbeat, desired state, wait, cycle, report. Deadlines are countdowns moved by
`Time`. `owed` and `reconciled` are history variables: the longest wait GitHub
asked for, and the newest generation a finished cycle had seen when it began. A
low quota counts as asked for unless it is `Stale`: older than what the process
already knows, which `merge_quota` ignores on purpose.

### FactoryRecovery

`db` holds the lineage of runs over one worktree, their recoveries, the task, the
mission and the work item; `command` the pending command of the newest run, which
`Dispatch` rechecks before it sends it; `proc` the runner's assignment; `tree` the
content of the worktree, which is its own fingerprint. The operator's actions are
the server's recovery routes (verifier-only, checkpoint verification, source
correction, budget and contract revision, cancel, park). The runner asks nothing of
a launch but that it does not hold the run already; that the earlier assignment has
left the worktree is a consequence of what the store demands of the source.
`OutsideEdit` changes the tree and `RunnerCrash`, `mark_runner_runs_lost` and an uncertain teardown are the
faults.

### Publication

`pub` is the row with its lease, token and attempt, `proc[p]` a process of `ecorp
factory publish` with what it last read. `gh` is GitHub (external): base, branch,
pull requests and Project status. A version is only ever compared with the row's,
so a process keeps whether the row is still `current`. The branch is absent, at the
verified commit, `behind` it (at an ancestor) or `other`; looking it up (`Push`),
the plain `git push` (`Send`) and looking it up again (`Pushed`) are three steps,
between which people create, move and delete it. Every request may be carried out and its answer lost; a process may crash anywhere and is run again;
`People` change the branch, the pull request, the status or the publisher's
authority.

## 3. What the runs check

Several named properties are conjunctions; their parts are listed and each is
defined and commented on its own in the module. Times are for two workers.

| Run | Instance | Checks |
|---|---|---|
| `task_graph` | parent and child task on one agent, 2 + 1 attempts, 3 runs, server restarts; 1.2 M states | `OneActiveRun`; `RowsAgree`; `FreshRunAfterParents`; `ImplementsAssignment` |
| `gates` | a gated task that must deliver an artifact and asks for an approval, metrics around the limits, one queued message, quarantined worktrees, 1 run; 1.1 M | `AcceptedTaskHasEvidence`; `RowsAgree`; `TerminalRunIsFinal`; `ExpiryIsAutomatic` |
| `connection` | 2 epochs, 2 tokens, 1 run, withdrawals, 1 fault (a revocation is one); 0.4 M | `DispatchIsSound`; `StaleWorkIsStopped`; `RowIsWatched`; `EveryRunEnds` |
| `commands` | two control messages, two dispatches, pages of one, one lost connection, 2 leases; 1.0 M | `AppliedAtMostOnce`; `RecordIsTrue`; `SteersKeepOrder`; `CommandsSettle` |
| `artifact_staging` | receipt and deliverable, 2 tries each, two socket tasks, 1 fault; 0.5 M | `BytesAreStored`; `GraceProtectsUpload`; `StorageSettles` |
| `worktree` | 3 assignments, three kinds of session, a checker that may write, commit and patch contracts, 1 trouble of each kind; 0.4 M | `AcceptanceIsSound`; `SourceIsKept`; `AssignmentEnds` |
| `provider_session` | every adapter and the probe, 2 permission requests, 2 directions, 3 controls, 1 fault; 0.8 M | `ReturnIsSound`; `ProviderIsTold`; `StopEnds` |
| `workspace_connections` | connect, sign in, test; a ref that has moved by the last check or not, a registry of two receipts, 1 fault; 0.8 M | `RegistryIsSound`; `NativeLoginOnce`; `ConnectionSettles` |
| `factory_claim` | two actors, one of them with two processes, 2 cycles, 1 fault, 1 edit (an operator's launch is one); 1.4 M | `ItemIsBacked`; `OwnerDecides`; `ImplementsItem` |
| `factory_watch` | two watchers in turn, 2 operator requests, 1 refused or low answer, 1 fault; 0.2 M | `DoneMeansReconciled`; `WaitIsServed`; `ReconcileCompletes` |
| `recovery` | 3 runs over one worktree, manual gate, 2 limits, 1 fault, 2 edits; 0.7 M | `RecoveryIsSound`; `NoLaunchPastBarrier`; `RecoverySettles` |
| `publication` | two processes, of one identity or two, 3 attempts, 1 fault, 1 edit; 1.3 M | `RecordedIsOnGitHub`; `NothingIsUndone`; `PublicationCompletes` |

- `RowsAgree`: `TypeOK`, an agent's current run is active (`CurrentRunIsActive`), a
  task in work has a run and an active run holds its task (`WorkedTaskHasRun`,
  `ActiveRunHoldsTask`), a completed mission is done (`CompletedMissionIsDone`), an
  approval has one verdict (`OneVerdictPerApproval`), resumes form a chain and
  attempts count runs (`LineageIsChain`, `AttemptsAreRuns`), a reserved message is
  still owed (`ReservedMessageIsOwed`).
- `DispatchIsSound`: `TypeOK`, `ReadyMeansReconciled`, `ServedRunnerIsReachable`.
  `RecordIsTrue`: `TypeOK`, `AcknowledgedIsApplied`.
- `BytesAreStored`: `TypeOK`, `ReadyIsReadable`, `AcknowledgedIsStored`,
  `OneRowPerContent`, and what a handler staged is there when it copies it
  (`StagedBytesStay`).
- `AcceptanceIsSound`: `TypeOK`, `AcceptedIsSealed`, `DeliveredIsScoped`,
  `SealIsCurrent`. `SourceIsKept`: `CleanupLosesNothing` always, and
  `HardStopKeepsSource`.
- `ReturnIsSound`: `TypeOK`, `ReturnedIsStopped`, `TerminalIsLast`,
  `CompletedIsEarned`. `ProviderIsTold`: `AnswersAreDecided`,
  `DirectionsKeepOrder`.
- `RegistryIsSound`: `TypeOK`, `RegistryLoads`, `PinsSurvive`, `SidesAgree`.
  `ConnectionSettles`: `SetupSettles`, `ReadyReachesRunner`.
- `ItemIsBacked`: `TypeOK`, `OneMission`, `VerifiedIsComplete`, `LaunchedIsReady`.
  `OwnerDecides`: `FencedOut`, `PolicyBlockStands`.
- `RecoveryIsSound`: `VerdictIsOfSealedTree`, `RecoveryFollowsRun`.
  `NothingIsUndone`: `StagesStand`, `ForeignBranchStands`.

Why these bounds. Two tasks are what it takes to have a parent and a rival for an
agent; two runs of a task are an old and a new attempt, three also a resume of
either. Two epochs are an old socket and its replacement, drawn again when nothing
remembers them, so that the number of connections is not bounded. Two dispatches
and two commands give every order of two fetches, sends and acknowledgments. Two
socket tasks and two tries are a handler that is still busy with a first upload
while its retry arrives. Three assignments of a worktree are a first run, a resume
and a verification of what both left. Three drivers give a fail-over between
actors and a double of one actor, two publishers a takeover, two watchers a
succession. One fault at every possible step is what the code's own recovery is
written for; the faults of one bound are alternatives, so each is tried alone
against everything else. What a second fault could do to the safety of the modules
with theorems is left to those, which hold for every bound on the faults (section 4). The ref of a saved connection
moves between its second and its third check (`Heads`), which gives a snapshot that
is replaced and one that is found again. Symmetry is used in `factory_claim` (the two
processes of one actor), which checks no liveness property.

Deadlock is checked in `artifact_staging` (recovery passes never end) and
`worktree` (an idle worktree may stay so, which `Exhausted` says). It is not checked
where the system may stop: all work is done, a bound is reached, or something waits
for an operator.

Fairness, each weak and only of what a process does by itself:

- `RunLifecycle!FairSpec`: the clock reaches an expiry and tokio runs a due timer.
- `RunnerConnection!FairSpec`: the reconnect loop, the socket handlers, spawned tasks
  and timers, the supervised processes and a pass that has begun go on; nothing is
  assumed of operators, faults and the decision to start a run.
- `CommandOutbox!FairSpec`: heartbeats start dispatches, both sides read their
  socket, and a lost connection is made again.
- `ArtifactStaging!FairSpec`: the recovery interval ticks; handlers, the runner's
  bounded loop and the grace clock go on.
- `Worktree!FairSpec`: the assignment's own steps; adapters, verifier commands and
  uploads all have deadlines.
- `ProviderSession!FairSpec`: the adapter, its timers, the kill of the operating
  system and the return of an SDK call; people and providers owe nothing, neither an
  answer to an abort nor the end of a stream, so `StopEnds` exempts what is
  `OutOfReach` for good.
- `WorkspaceConnections!FairSpec`: server, runner and the expiry clock go on.
- `FactoryWatch!FairSpec`: the loop runs for ever, a cycle ends (every command in it
  has a time limit), time passes.
- `FactoryRecovery!FairSpec`: the server polls its commands, a lost runner is noticed,
  a live runner works on.
- `Publication!FairSpec`: a process that runs goes on or is run again, and leases end.

## 4. What is proved

For every value of the constants, from the named assumptions of each module only
(`RunsAssumption` and `GraphAssumption`, `ConnectionConstants`, `OutboxConstants`,
`StagingAssumption`, `ConnectionAssumption`, `ClaimAssumption`, `WatchAssumption`,
`PublicationAssumption`). They say that bounds and waits are numbers, that the task
graph is a function of the tasks, that a setup operation has kinds the protocol
knows and that the "none" values are not members; TLC evaluates them in every run.

**Run store** (`RunLifecycleProofs`)

| Theorem | Statement | Argument |
|---|---|---|
| `TypeCorrect` | `Spec => []TypeOK` | inductive as it stands; one step per action, one fact per column |
| `OneActiveRunHolds` | `Spec => []OneActiveRun` | `RunsInv`: types, rows dense up to `created`, and the property. `StepOnRuns` first reduces every action to one of three effects on runs: insert over no active run, finish active ones, or keep statuses within their kind |
| `TerminalRunStays` | `Spec => TerminalRunIsFinal` | the same three effects |
| `StoreImplementsAssignment` | `Spec => ImplementsAssignment` | the three effects are `Assign`, `End` and stuttering of `Assignment` |
| `RowsAgreeHolds` | `Spec => []RowsAgree` | three inductive invariants, each preserved by a summary of the step (`PlanStep`, `LedgerStep` for the first two) to which every action is reduced first. `PlanInv` relates runs to tasks, missions and agents and needs `WaitingRunAwaits`: the task of a run that waits for an approval waits too, unless the expiry of an earlier approval cancelled it. `LedgerInv` is about messages, lineage and attempts and needs `DispatchOrder`: no worker before the command was sent, and a run counts as never started only if its dispatch was refused and it failed. `VerdictQueued`: an approval has the one verdict that was queued for it. `AttemptsAreRuns` counts rows with the cardinality theorems |
| `AcceptedTaskHasEvidenceHolds` | `Spec => []AcceptedTaskHasEvidence` | `EvidenceInv` adds to `LedgerInv` that a verdict rests on evidence that still passes (`VerifiedRunPasses`) and that the runner has nothing left to say while the manual gate is open (`GateIsLast`), so that a late decision accepts the evidence it was shown |
| `FreshRunAfterParentsHolds` | `Spec => FreshRunAfterParents` | a run appears only by `create_task_run`, which looks at the parents in its own transaction, or by a resume |
| `OneLiveHolds` | `Assignments!Spec => []Assignments!OneLive` | with `Dense`: ids are used in order, so no assignment overwrites another |

**Runner connection** (`RunnerConnectionProofs`)

| Theorem | Statement | Argument |
|---|---|---|
| `RowsStayWatched` | `Spec => []RowIsWatched` | `WatchInv`: types of row, handlers and timers. A handler that holds the row's epoch leaves the watching phases only through the step that starts the timer; a restart turns connected rows into rows in grace, with timers; a fresh epoch is never the row's |
| `DispatchIsSoundHolds` | `Spec => []DispatchIsSound` | `TypeInv` gives every channel its shape. `PhaseInv`: before the claims are reconciled there is no finalization, and what is dispatched to has finished it. `ReadyInv`: once marked, every active run of the runner was claimed or is newer. `ReachInv`: a registered socket is the one in the map or has a disconnect in its channel |
| `StaleWorkIsStoppedHolds` | `Spec => []StaleWorkIsStopped` | in addition `LifeInv` (a run is unborn, starting, or held, one of these at a time, its last event is sent by what holds it, and it is started once), `EventsInv` and `ClaimsInv` (what the socket carries before and after the registration), `StartsInv` (a start on its way is for an active run as long as the connection lasts) and `HeldInv`, the property itself extended to the second between reconciliation and finalization: what is held and neither stopped nor about to be is active and kept, or was ended by the server under this connection |

**Command outbox** (`CommandOutboxProofs`)

| Theorem | Statement | Argument |
|---|---|---|
| `AppliedOnce` | `Spec => []AppliedAtMostOnce` | `AppliedIsKnown`: what was applied is remembered, or the assignment is over. A restart forgets both memory and assignment |
| `HardStopKept` | `Spec => []HardStopIsKept` | `HardInv`: an accepted hard stage has taken the boundary while the assignment lives; finalization takes it only if it is open |
| `RecordIsTrueHolds` | `Spec => []RecordIsTrue` | `RecordInv`: every positive acknowledgment, on the wire or carried over to the next connection, and every remembered command is true of the provider. A decision that found no provider is the exception section 5 names |
| `SteersKeepOrderHolds` | `Spec => SteersKeepOrder` | `OrderInv`, for any two control messages of one lease version: the older is ahead of the younger in the socket (`DownInOrder`) and in effect (`EffectsInOrder`). That needs what a dispatch of the present connection may assume of rows it no longer has before it: the older was sent, has reached the run, or neither can be sent any more, since its lease has gone or the run is not active (`PageInOrder`, `SendInOrder`). A message that failed did so because the lease or the provider had gone (`FailedIsLate`), so a page without it cannot let a younger one past. A dispatch of an older connection is stopped by the epoch check before it sends |

**Artifacts** (`ArtifactStagingProofs`)

| Theorem | Statement | Argument |
|---|---|---|
| `BytesAreStoredHolds` | `Spec => []BytesAreStored` | `StagingInv`. `OnceInv`: an upload is on the wire or at one task, once, and until that task looks for a row nothing on the server refers to it. `RowsInv`: what a row says of objects and run. `HandlerInv`, `RecoveryInv`: what a task and a pass still know of the row they read some steps ago. A pass never removes bytes that are still needed, since what it removes belongs to a row that is no longer staged, or to none when it looked again. `AckInv`: what the runner was told stays stored |
| `GraceProtectsUploadHolds` | `Spec => GraceProtectsUpload` | recovery settles aged rows only (`RecoveryInv`), and every other step on a reservation is of a task that works on it |

**Workspace connections** (`WorkspaceConnectionsProofs`)

| Theorem | Statement | Argument |
|---|---|---|
| `RegistryIsSoundHolds` | `Spec => []RegistryIsSound` | `ConnectionInv`, one part per side. `RegInv`: every accepted snapshot, saved source and active provider goes back to an acknowledged receipt that the registry still has; making room for a new receipt removes none of these. `AgreeInv`: a ready report that the store has, or that is on the wire, is the one in the receipt, or a newer operation has taken over. `FlightInv`: a check in memory has an open receipt. `RunInv`: the pin of a run that started is among the accepted snapshots. `StoreInv`, `NetInv`: what the rows and the socket can hold |
| `NativeLoginOnceHolds` | `Spec => []NativeLoginOnce` | `WorldInv`: a login that was started is marked in its receipt before it starts, or the receipt was forgotten and its operation has expired, so that no command admits it again |

**Factory** (`FactoryClaimProofs`, `FactoryWatchProofs`, `PublicationProofs`)

| Theorem | Statement | Argument |
|---|---|---|
| `ItemIsBackedHolds` | `Spec => []ItemIsBacked` | `ClaimInv`: a row without a mission is in a state of a claim and no mission exists; the cycle of a driver says how far the item has come (`Fits`); an upgrade on record means a pinned source. `StepShape` first reduces every action to one of five effects on the row: kept, taken over, advanced, given its mission, taken back. `LaunchedIsReady` is about a driver that asks for the launch; a mission an operator launched says nothing of the item |
| `OwnerDecidesHolds` | `Spec => OwnerDecides` | the same invariant; a replayed answer changes nothing, and a resumed run lifts the block its own failure caused |
| `StoreImplementsItem` | `Spec => ImplementsItem` | the five effects are steps or stuttering of `FactoryItem`; only a cancelled item with a mission is taken back, its fence unchanged; an item starts absent, as a claim left by a release that did not pin its source, or cancelled with its mission |
| `DoneMeansReconciledHolds` | `Spec => []DoneMeansReconciled` | `WatchInv`: for every process, superseded ones too, the generation that forced a cycle is not newer than the one the cycle saw when it began, and becomes reportable only when the cycle is collected (`Covered`); generations only grow |
| `WaitIsServedHolds` | `Spec => WaitIsServed` | `WaitInv`: the process in office waits at least as long as it owes. It rests on `IsBudget`, true of every budget in memory and of the row: a wait has a reason, and if the quota known is low the wait lasts until its window ends. One lemma for each operation of the budget (`restore`, `check`, `observe_json`, `failure`, `success`, the clock) says that it keeps this shape and does not shorten a wait that is still due |
| `RecordedIsOnGitHubHolds` | `Spec => []RecordedIsOnGitHub` | `PublicationInv`: as long as no person has changed GitHub, there is at most the branch and the one pull request of the publishers (`Untouched`), a process about to record a stage has seen it there (`Seen`), and what the row records is there (`Backed`). Effects are only added, so what one process has seen still holds when another, or its successor after a crash, records it |
| `NothingIsUndoneHolds` | `Spec => NothingIsUndone` | the same invariant; a stage is recorded only over an earlier one in a version that is current; the branch is moved by nothing but the `Send` of a process that found none, only to the verified commit, and never from commits the verified one does not contain |

Each inductive invariant was model-checked on the instance of its run before it was
proved. Some definitions have the form the proofs need, with the same meaning:
pages of commands as sets of positions, the events a runner buffers as a function
of positions, the doublings of a backoff as a table. One property changed: with a
second quota window `WaitIsServed` does not hold if data of an older window counts
as a deadline; `quota.rs` ignores such data ("Stale ones are ignored", lines 125-126), and
`owed` now leaves it out.

Only model-checked: everything that must eventually happen (`ExpiryIsAutomatic`,
`EveryRunEnds`, `CommandsSettle`, `StorageSettles`, `AssignmentEnds`, `StopEnds`,
`ConnectionSettles`, `ReconcileCompletes`, `RecoverySettles`,
`PublicationCompletes`), since fairness and `ENABLED` are out of the prover's reach;
and the safety properties of `Worktree` (`AcceptanceIsSound`, `SourceIsKept`),
`ProviderSession` (`ReturnIsSound`, `ProviderIsTold`) and `FactoryRecovery`
(`RecoveryIsSound`, `NoLaunchPastBarrier`), for which no inductive invariant has been
worked out: each relates the content of a tree, or the fate of a process, to what
several handlers remember of it, over most of the variables of its module.

## 5. Where the code does less than one might expect

Four sentences of the documentation that the code does not keep. TLC
reproduces each with these modules; since the code does otherwise, no property
states them.

| `docs/ARCHITECTURE.md` says | What the code does |
|---|---|
| "Expired approvals cancel the run, task, and mission coherently" (lines 116-117) | the approval of an earlier attempt expires and cancels the mission under a run that keeps working (`crony-store/src/lib.rs:9324`) |
| "a transport reconnect does not kill the child process or discard events" (lines 414-415) | events handed to a socket are dropped when the runner leaves it (`crony-runner/src/main.rs:1746`) |
| "Revocation disconnects the live node and blocks reconnection" (line 96) | a registration that authenticated before the revocation completes after it (`crony-store/src/lib.rs:2701`) |
| "They remain pending until the runner acknowledges application" (lines 115-116) | a decision that found no provider is acknowledged as applied on redelivery, if the negative answer was lost (`crony-runner/src/main.rs:1678`) |

What the properties exclude, because the code does not do it:

- Run store and connection. A run that a scheduling pass creates after its runner
  was revoked stays active with an offline runner (`EveryRunEnds` exempts revoked
  runners). If `runner_disconnected` or `expire_runner_grace` fails the error is
  only logged; together with a lost credential the runs of that runner stay active
  until the server restarts (`EveryRunEnds` is for one fault, `RowIsWatched` exempts
  such a row). If `runner_connected` fails the socket stays open without a
  registration. Expiry timers live in server memory and are not armed again after a
  restart (`ExpiryIsAutomatic` is checked while the server stays up). `run.failed`
  and `run.cancelled` before `run.started` leave operator messages reserved.
  `run.failed` is refused once somebody else ended the mission, and the run stays
  active until its runner is lost. The credential is rotated before the runner has
  the next one, and an answer lost in between needs an operator (`ReEnroll`). A run
  whose approval expires, or whose artifact is rejected, is ended by the server and
  not stopped: its runner works on until it reads the rejected decision or connects
  again (`StaleWorkIsStopped` exempts what was withdrawn under the present
  connection). A run stays in `active_runs` while its worktree is finalized, after
  its last event, and may be claimed and stopped then.
- Commands. The lease of a control message is checked when it is dispatched, not
  when it is applied or acknowledged, so a message in flight may be applied after
  the lease changed, and even be recorded as cancelled.
- Artifacts. A transient object-store error fails the run, except for receipt
  uploads. A handler that stalls past the grace may find its reservation abandoned;
  an object it then writes is an orphan until the next pass. Recovery also finalizes
  artifacts of ended runs.
- Worktree. In the first run the checks execute in the worktree itself and the
  export takes what they changed. An edit that is undone before the next
  fingerprint is not seen. A crash leaves verification snapshots in the temporary
  directory. Ignored files created between the check of `finalize` and `git worktree
  remove` go with the worktree. On systems other than Windows a verifier command
  that times out leaves its descendants.
- Adapters. Codex and Copilot return an error through `?` while the child has only
  been sent its kill, and without a terminal event (`ReturnedIsStopped` covers every
  outcome, and every return of the adapters that own their process tree). A Codex
  child that closes its output and lives on keeps the adapter waiting for its exit
  (`codex.rs:341`), stops included; a Copilot session that was told to abort is
  waited for without a limit (`StopEnds` exempts the two). That the Copilot client
  could not be stopped is ignored (`copilot.rs:613-614`), and a client that lives on is
  exempt from `ReturnedIsStopped`. Calls of the SDK and writes to Codex's input, which
  have no limit of their own, are assumed to end. Decisions and notes for Codex wait for its
  next line of output and may be overtaken by later directions (`DirectionsKeepOrder`
  is about directions). A Codex turn that completes after a stop is reported as
  completed; a Claude process that needs longer than 350 ms after its result is
  killed and reported as failed.
- Workspace connections. With two acknowledgements on the way a provider can be
  selected by a receipt the store did not record (the comment in `connections.rs`
  near line 416 says otherwise), so `SidesAgree` compares the two sides only where
  the store calls the connection ready; `MaxQueue` is 1 in the run. A test that starts while
  a run is being dispatched clears the active snapshot.
- Recovery. Uncertain teardown is modelled at a hard boundary only; elsewhere it lets
  a resumed run start while the last report of the run before it is still being
  made. A re-attestation for a review is asked for when no verifier is about to report
  its seal itself; the code does not wait for that. If the claim holder ends or parks the item during a recovery, the
  events that end the recovery run are refused and the recovery stays open
  (`RecoverySettles` says so). `decide_verification` does not look at a quarantine.
- Claim. A mission that failed may still have a run that works, so no property says
  that a failed item is at rest. The operator's `launch_mission` starts a materialized
  mission without asking whether its Project item was moved or its source pinned, so
  `LaunchedIsReady` is about the drivers. A cancelled item may run again: outcomes are
  final but for the driver's own cancellation of a running item whose mission left a
  checkpoint. Of the recoveries only checkpoint verification is in `FactoryClaim`;
  the others are in `FactoryRecovery`.
- Controller. A forced reconciliation may run its cycle twice; a throttled request
  counts as a failure again although the comment near `factory.rs:1305` says it does
  not; the cycle of a superseded watcher goes on to its end.
- Publication. Between the look at the branch and the push a person may create it; the
  plain push (`publish.rs:1076`) then fast-forwards it if it is at an ancestor of the
  verified commit. No commit is lost, which is what `ForeignBranchStands` says, but a
  branch somebody else made is moved. Two processes of one identity share a token and may keep each other
  from finishing (`PublicationCompletes` assumes different identities). A second pull
  request is opened after a person closed the first, and a person's change of the
  Project status is overwritten.

## 6. Plan

1. Done: `RunLifecycle` with `Assignment` and its proofs, `RunnerConnection`,
   `CommandOutbox`, `ArtifactStaging`, `Worktree`, `ProviderSession`,
   `WorkspaceConnections`, `FactoryClaim` with `FactoryItem`, `FactoryWatch`,
   `FactoryRecovery`, `Publication`.
2. Proofs. Done: the safety properties of `RunLifecycle`, `RunnerConnection`,
   `CommandOutbox`, `ArtifactStaging`, `WorkspaceConnections`, `FactoryClaim`,
   `FactoryWatch` and `Publication`, and both refinements. Next: `RecoveryIsSound` and
   `NoLaunchPastBarrier`; `ReturnIsSound` and `ProviderIsTold`; `AcceptanceIsSound` and
   `SourceIsKept`.
3. Modules: ownership, expiry and transfer of control leases with interrupts and the
   emergency stop; budget arithmetic and its integer limits; staffing.

## 7. Not modelled

The planner, prompt and dependency formatting, authentication and encryption,
message formats of the providers, what git and verifier commands do inside, the
protocol gateways, the web and desktop clients, and the deployment tooling: they
keep no state of their own that the properties above depend on, or are pure I/O.
Their effects enter the models as runner events, failing steps or constants (the
task graph). Selection of a runner by capability is a free choice. The arithmetic
that turns usage into a breaker stage is a pressure level. `PROJECT.json` lists
every component with its status and what its module leaves out.
