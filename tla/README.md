# Devstation in TLA+

Devstation is an engine (`src/server`, TypeScript on Deno) that provisions
virtual machines on Proxmox clusters and installs services on them, behind a
JSON-RPC and an MCP interface, with a terminal UI (`src/tui`) as its client.
This directory models the parts of it where steps of several actors interleave,
fail or are cancelled, checks them with TLC on small instances and proves the
most important invariants with TLAPS for every instance.

- [Inventory](#inventory): the system's parts, their state and what is hard about them
- [The modules](#the-modules): what each models, and how it corresponds to the code
- [The runs](#the-runs): what TLC checks, on which instances
- [Fairness](#fairness)
- [Disagreements](#disagreements): where the code and its documentation disagree
- [Proofs](#proofs)
- [What is only model-checked](#what-is-only-model-checked), and [what is not modelled](#what-is-not-modelled)

Paths are relative to `src/server/src` unless they say otherwise.

## Inventory

The engine is one JavaScript process. A handler, a task, a policy or a watcher
runs until its next `await`; everything else may happen there. `Server.serve`
(`shared/inbound/rpc/server.ts`) starts every request as it arrives and does not
wait for the one before. What survives a crash is the JSON files under
`~/.devstation`.

| Part | State | Operations | Hard about it | Must hold |
|---|---|---|---|---|
| **Execution runtime** `shared/executions` | per execution: event buffer, `closed`, the `waiting` promise, abort signal, idle timer, held log lines | `start`, `emit`, `cancel`, `watch`, settle, idle timeout | four sources of a terminal; watchers that attach at any time and sleep between broadcasts; output that is still held | one terminal, last; each watcher sees the stream from the start and is never left asleep; output is in order |
| **Cluster provisioning** `cluster/application/handlers/proxmox/provisioning`, `cluster/domain/models/proxmox/nodes` | of each node its state, its VMs and whether it has a credential (`clusters.json`); per run: position, snapshot | plan, apply, destroy; VM and node edits; acknowledge an interruption | runs, edits and acknowledgements between any two awaits; a dispatch or the tool that throws; a crash | no node stuck in `*_STARTED`, no two tools on one node, VMs locked while a tool works, success only when the tool has succeeded or the node was left out |
| **Station installs** `station/application`, `station/domain/models` | status of each service (`stations.json`); the registry of claims; per session: list of services, position | install and uninstall sessions; register, unregister, update | overlapping sessions; the station saved from a stale copy; a policy that throws after the success was persisted; cancellation | no service held by two sessions, none left `INSTALLING` with no one to move it on, hosts before what runs on them |
| **Station installer** `station/outbound/installer` | secrets and outputs published so far, peers | per role, instance and step: probe, apply, publish, rollback, verify | cancelled between or within steps; skipped steps; hosts that boot, restart or go | what a role reads of another was published; steps in order, none after a failed one; nothing is done to a host after an abort |
| **Cluster aggregate** `cluster/domain/models/proxmox/proxmox-cluster.ts`, `cluster/outbound/persistence` | nodes, VMs, images; a version of the file | register, replace, unregister, connect, assign images | uniqueness across nodes; references between VMs, images and nodes; a second process over the same file | VM ids and addresses unique; an image in use is not unassigned; no update lost between processes |
| **Event bus and policies** `shared/building-blocks/outbound/events`, `*/inbound/policies` | subscriptions | dispatch to policies, then to subscribers | a policy that throws keeps the later ones from hearing of it; the state is already persisted | projections (image usages, VM services, secrets) agree with the aggregates |
| **Vault** `vault` | encrypted secrets (`vaults.json`) | create, generate, replace, delete, rename | `of` ... `save` with awaits in between and no lock; secrets stored under one name and deleted under another | no secret lost to a concurrent change; uninstall removes what install stored |
| **Image registry, sizes** `images`, `size` | lists in files, the usage projection | add, update, remove; assign and forget usages | the same unserialized file pattern | no image lost; usages agree with the clusters |
| **File system store** `shared/file-system` | one JSON file per kind of object | read, write | a write truncates and then writes: a reader or a crash in between | a reader sees a whole file |
| **Authentication** `auth`, `shared/authentication`, the UI's gate | `.salt`, `.auth`, `mcp/token.json`; sessions with a time to live, the active one | set up, log in, renew; mint and revoke a token; boot an MCP server from it | two set-ups at once; a crash between two files; expiry in the middle of a long run; the session saved last stands for all work without one | one key for everything that is encrypted; an open screen's engine can resolve secrets |
| **RPC, MCP, endpoints** `shared/inbound`, `*/inbound` | pending requests, watches | dispatch, notify | the concurrency of everything above | each request is answered once |
| **JSON-RPC client** `src/libs/jsonrpc-client-ts` | pending calls, notification queues | call, notify, close | the server exits under pending calls | every call settles |
| **Terminal UI** `src/tui/ink/src` | the run of a cluster as the screen knows it | start, watch, abort | the stream, the node events and the aborted timer race; cancel before the id is known | what the screen says is what the engine did |
| **Self-update** `src/tui/ink/src/self-update` | the binary, the staged one, the marker | download, stage, swap, roll back, apply at boot | a crash between two renames | there is always a program to start |
| **Blueprint parser** `blueprint` | none | parse, resolve templates | pure | agrees with the DSL's definition |

How they interact: an endpoint calls a handler; a handler changes an aggregate
through its repository and has the dispatcher deliver the events it recorded; a
long operation is handed as a `Task` to the runtime, which returns an execution
id at once. Provisioning and installs are such tasks: they drive an aggregate
through its lifecycle around an external tool (OpenTofu, ssh), and are watched
and cancelled through the runtime.

`PROJECT.json` lists all components with their files, and every hazard with the
line where it bites and the properties that cover it.

| Module | Models | Relation to the others |
|---|---|---|
| `ExecutionStream` | what the `Execution` interface promises a consumer | abstract |
| `Executions` | the runtime | implements `ExecutionStream` |
| `Provisioning` | nodes, runs and requests on one cluster | its runs are tasks of the runtime |
| `StationInstall` | services, sessions, registration requests | its `tool` and `probing` steps are `Installer` |
| `InstallPlan` | an install as a flat list of steps | abstract |
| `Installer` | roles, hosts, steps, probe, publish, rollback, verify, abort | implements `InstallPlan` |
| `VaultStore` | vaults as maps from names to secrets, every command atomic | abstract |
| `Vaults` | commands and policies on one file that is read and rewritten without a lock | implements `VaultStore` until a stale copy is written |
| `ProxmoxCluster` | the aggregate: its commands, guards and their effects, no state | used by the next two |
| `ClusterRegistry` | a registry of clusters, every command atomic | abstract |
| `ClusterFile` | the serialized updates of the clusters, a second process, the usages of images | implements `ClusterRegistry` with one process |
| `ProvisioningScreen` | the store behind the UI's provisioning tab, the events and the stream it listens to | the other end of `Executions` and `Provisioning` |
| `Auth` | the master password, sessions, the access token, and who holds the vault's key | what `Vaults` encrypts with |

Each has an `MC` module with the instances TLC checks, and each detailed one a
module `...Proofs` with its theorems. The order in which they were written puts
first what a user cannot repair by hand: a run that cannot be watched or
cancelled, a node or service that is stuck, a tool started twice on one machine;
then what is lost for good: secrets, clusters, keys.

## The modules

### Executions, ExecutionStream

`Executions` is `InMemoryExecutions`, `InMemoryExecution`, `BufferedEmitter` and
`LogTimeBuffer` (`shared/executions/outbound`). One action is the code between
two awaits.

| Code | Model |
|---|---|
| `Entry`: the task's promise, `AbortController` | `task`, `aborted` |
| `InMemoryExecution.buffer`, `closed`, `waiting` | `buffer`, `closed`, and `waiting`, the number of the current promise: promise *n* is resolved once a broadcast has replaced it |
| `LogTimeBuffer.buffered`, the idle timer | `held`, `armed` |
| one `watch()` generator and its `for await` | `pc`, `cursor`, `awaits`, `seen` |
| `start`; `emit` of a log, a step, a terminal; the task settles; `cancel`; the timer | `Start`; `EmitLog`, `EmitStep`, `EmitTerminal`; `Return`, `Throw`; `Cancel`; `Stall` |
| the generator's steps | `Attach`, `Deliver`, `Sleep`, `Wake`, `Detach` |

An item of output is its number in the order of emission, so that order, loss
and duplication are visible and the text is not. The latency window of
`LogTimeBuffer` is a choice at each line: elapsed or not.

`ExecutionStream` says what the interface's comment says: a log per execution
that only grows and ends with its terminal, and watches that each read it from
the beginning. `Executions` implements it under a mapping that forgets promises
and cursors (`Stream`, at the end of the module).

### Provisioning

One cluster: the lifecycle table of `node.ts` (`Startable`, `Started`,
`Succeeded`, `Failed`, `Busy`), the loop of `ProvisioningRun`
(`provisioning-run.ts`), and every request that reaches a node while a run is
under way. `Clusters.update` is serialized, so a transition is one action; the
awaits between transitions are values of `pc`. A dispatch either succeeds or
throws (`DispatchMayFail`), inside the `try` block or outside it, as in the code.

`infra` is what exists on the hypervisor, which the code does not keep: the
tool of a run makes it what the run's snapshot says, or a part of that when it
fails or is killed. A VM is one specification of a VM; replacing one by another
is the update of a VM.

Of a credential only whether it is configured is kept (`keyed`). A run works from
its snapshot of VMs and credentials (`snapshot`, `keys`), and leaves a node out
that has no credential or no VMs in it (`Skipped`): no tool is called for the
node, and the loop completes it as any other.

Two variables are history only. `wedged`: nodes whose run died with the engine,
left in `*_STARTED` on disk, which is what the acknowledgement exists for.
`contended`: runs whose node someone else moved while they drove it
(`UpdateNode` and re-registration reset the state, an acknowledgement fails it,
and a second run may then start). The properties say what holds for the others
and the actions that contend are all in the model, so it is visible what each
exemption costs.

### StationInstall

One station: the lifecycle of a service (`service.ts`), the two handlers that
check a request and claim its services (`Request`, `Begin`),
`runServiceInstall` and `runServiceUninstall` (`run-service.ts`) as the steps of
a session, `ActiveInstalls` as `running`, and the registration handlers as
editors.

Sessions use `Stations.update`, which reloads under a lock: one action each.
Editors use `of` ... `save`: `EditorReads` and `EditorSaves`, with anything in
between. A request, too, reads the station first and decides on that copy
(`snapshot`). `topoSort` is specified by what it computes, the hosts one layer
before what they host (`Layering`, `TopoSorts`), in whatever order ids of one
layer come.

`probing` is the installer's `alreadyHealthy`: before a step, the step's `verify`
is run over a connection with a signal of its own. It is kept apart from `tool`
because cancellation reaches the one and not the other.

History only: `abandoned`, services whose session died with the engine;
`clobbered`, services whose last change the save of an older copy overwrote.

### Installer, InstallPlan

`Installer` is `ProxmoxInstaller` (`station/outbound/installer/proxmox/installer.ts`)
with its runners, `waitForSshReady` and the ssh adapter, for one service at a
time, which is how a session drives it. `at` is the loops' position (role, host,
step); `pc` what is awaited there: `wait` for sshd, `probe` (`alreadyHealthy`),
`apply` (the shell, a task of its own whose output is drained), the values it
publishes being read, `rollback`, `verify` with its retries. `signal` is the
execution's; it kills the ssh that is running and every later one, except the
probe's. The hosts are the world: they boot, restart, are lost, and a step that
was applied is in effect at once, after a while, or not at all (`up`,
`starting`). A blueprint is a list of roles with their hosts and steps; of a step
only what the control depends on is kept: whether it can be verified and rolled
back, what it publishes and what it needs of which role.

`InstallPlan` is the promise: the flat list of steps in the order of the
blueprint, backwards for an uninstall, done one after the other and none left
out; the run stops for good at the first that fails.

Bounds: sshd is tried `MaxAttempts` times (90 in the code), `MaxRuns` runs,
`MaxFaults` losses and restarts of hosts.

### Vaults, VaultStore

`Vaults` is the vault's handlers, its aggregate and its file adapter, with the
two policies that follow a service. A handler loads its vault, works over an
await and saves; `save` reads the whole file again, puts its vault in and writes,
and a write truncates before it fills (`file-system.ts`). Each is a step, so that
another call, a reader or a crash may come in between. An empty file reads as no
vaults, a torn one does not parse. The store policy publishes one secret after
the other; the delete policy removes by prefix. A name is a prefix and a rest:
services have an id and a name, and both may be prefixes, which is all that
matters here.

History: `settled`, what the last finished write wrote; `owner`, who had a secret
minted; `stale` and `raced`, whether a call holds a copy that another write has
made out of date, and whether such a copy was ever written back or a write cut
short. The code promises nothing from then on, and `VaultStore` says so.

The image registry and the sizes follow the same file pattern, with less in it.

### ProxmoxCluster, ClusterRegistry, ClusterFile

`ProxmoxCluster` has no state: it is the aggregate as operators. `Command` are
its methods (register and unregister nodes, machines and images, replace, assign,
connect a service), `Accepts` their guards, `Changed` what they do. Names and
addresses of nodes are left out, ids and addresses of machines are kept.

`ClusterFile` is the adapter: `writeChain` as `chain`, `update` as read, change,
second read with its version check, write; `add` and `remove`; a second process
over the same file with a chain of its own; and the two policies that keep
`image-usage.json`, out of any turn. Which command a call carries is chosen when
its turn comes. A write is one step: the torn file is in `Vaults`. History:
`minted`, ids ever used; `mixed`, whether two projections overlapped or a call
was cut short. `ClusterRegistry` is a registry where every command is atomic.

Bounds: a cluster takes `MaxVersion` updates.

### ProvisioningScreen

`provisioning-store.ts` keeps its state per cluster and not per run: `phase`,
`runId`, `aborting`. Several asynchronous calls write it: `startApply` and its
like (`pc`, one per run), `trackNodeProgress` (`pump`, over the subscription to
node events), `abortRun` with its grace (`abort`). On the other side are the
execution as the engine reports it (`exec`, `reported`), the subscription and the
engine's process, which may die. Messages are timed when the UI reads them, which
covers every delay between the two streams. A failed terminal may be that of an
execution that is alive: a cancel broadcasts one at once, and a watch may be
rejected. A run that the user gave up goes on
beside the next one. Left out: the log, the warnings, the list of completed
tasks and the confirmation dialogs; what a cancel does in the engine is folded
into an execution that may fail at any time.

History: `crowded`, runs that were not alone from their start to their end.

### Auth

The home directory (`.salt`, `.auth`, `mcp/token.json`), an engine's sessions
(`SessionsAdapter`: `store`, and `active`, the id saved last), the gate of its
TUI (`auth-gate.tsx`: what it believes of its session, and a renewal on its way),
and the MCP server. Argon2 takes long and each file is written after an await, so
setting up, logging in and minting a token are several steps. A key is the salt
and the password it was derived from; the right password is the one whose key
`.auth` is sealed under. Time is a tick; `TTL` and `TokenTTL` are lives in ticks.
A request may come with any session its engine ever answered; work without a
session (policies, provisioning) takes the active one. An engine and its TUI
crash together. The answer to a login is one step with the session it opens; the
form it was meant for may be gone. History: `sealed`, the keys secrets were
encrypted under.

`OneSetup` says whether a home is set up by one call at a time, which is what the
form does and the handler does not see to.

## The runs

| Run | Instance | States | Shows |
|---|---|---|---|
| `executions` | 1 execution, 2 watches, 3 items, chunks of 3, idle timer on | 147,726 | whoever wins the race for the terminal, the runtime implements `ExecutionStream`; no watch is left asleep; output is whole when the task's end ends it; a stalled task is detected; every watch is served each next event and returns once the execution has ended |
| `provisioning` | 1 node, 2 VMs, 2 runs, dispatches may throw | 389,068 | no node stuck, no two tools, VMs locked, success only when done or the node was left out |
| `provisioning_queue` | 2 nodes, 1 VM, 1 run over both nodes | 707,750 | a run ends when cancelled, wherever in the queue it is |
| `station` | a host and a service on it, 2 sessions, policies may throw, crashes | 681,373 | no service in two sessions, none stuck, hosts first |
| `station_edits` | the same with 1 session and 1 editor | 470,588 | an aborted session ends, whatever a stale save did to its services, unless it hangs in a probe |
| `station_orphan` | as `station`, policies do not throw | violated | a host is uninstalled while a service is being installed on it |
| `vaults` | 1 vault, 2 secrets, 1 service, 2 calls, crashes | 345,993 | one secret per name whatever overlaps; the file is whole between writes; a store of atomic commands until a stale copy is written |
| `vault_uninstall` | the same, no crash | violated | an uninstall leaves the secrets its install published |
| `installer` | 6 plans over 2 hosts, 3 runs, 1 loss or restart | 95,237 | done means in effect, one machine twice in a role included; every role is rendered with all hosts before it; nothing is done to a host after an abort, and the run ends unless it hangs in a probe; steps in the order of the plan |
| `clusters` | 1 cluster, 2 nodes, 2 ids, 2 addresses, 2 calls of 1 process, crashes | 78,344 | ids, addresses and images stay right in the file although guards look at copies; usages follow; updates are atomic |
| `screen` | 2 nodes, 2 runs, 1 image each | 706,166 | done is earned; the end of the events ends the run; an abort takes the screen out of `running` |
| `auth` | 1 engine, 3 calls to set up or log in, 2 passwords, 1 token at a time, 3 ticks, 1 crash | 1,286,850 | one key for everything; an open screen's engine resolves secrets |

Why these bounds are enough to be interesting. Two watches of one execution see
it at different points, and three items with chunks of three put a held line, a
chunk and a step in one stream. Without the idle timer the wake-ups are the same
and a stalled task stays; `NoLostWakeup`, proved for both, says that its watches
miss nothing. Executions share nothing, so one is enough. Two
runs of one node meet in every pair of steps; a run of two nodes covers what is
carried from one to the next. Slots of runs, sessions and calls are used again, so
any number follow one another. Two services, one on the other, give both orders
and both closures; ids of services, secrets and clusters are never used twice.
Two calls overlap in every pair of steps of a read, a change and a write, and
what a third would see is a file that one of them wrote. The six plans have
the shapes of the bundled blueprints: a server that publishes what agents need,
two servers, a role without hosts, a hosted service; in one, a role names the
same machine twice, which registration allows. Two runs of the screen are one
that is given up and the next. Three logins are one that sets the home up, one
that opens a session and one that fails or replaces it, with time for the first
session to run out. Crashes are not bounded except in `auth`.
`SYMMETRY` is used in runs without liveness properties only, and so is the one
`VIEW`: in `provisioning` it merges states that no action and none of the
properties tells apart (what a plan finds in its snapshot, which of a node's
machines a destroy asks for, the flag of a cancellation: without fairness its
only effect is that a tool fails, which it may do anyway). Deadlock checking is
off where the system may stop for good: an execution that has ended, and runs
whose number is bounded (`installer`, `screen`, `auth`).

`station` has no editor, so that its two sessions can be checked; that a stale
save leaves no other service in flight than those it overwrote is proved
(`NoStuckService`).

Every property is shown to depend on the code by a mutant: a definition changed
as a plausible bug would change it (a broadcast that wakes nobody, a guard on the
configuration that is gone, a release of ids one did not claim) makes TLC report
it. The mutated forms stand before the definitions they replace, marked `Mutant`.

## Fairness

- *Event loop.* A continuation that is ready runs. So the steps of a watch that
  has something to read or a resolved promise (`Deliver`, `Sleep`, `Wake`), the
  steps of a run (`RunStep`) and of a session (`SessionStep`) are weakly fair.
- *Timers.* An armed idle timer fires (`Stall`).
- *Tools.* None is assumed to end by itself: a remote command may hang. Once the
  run or session is cancelled it ends, because every tofu and ssh process is
  started with the execution's signal and is killed by it:
  `WF(cancelled /\ ToolStep)`.
- *Probes.* Nothing is assumed of `Probe`: its connection has a signal nobody
  aborts, and ssh is given no timeout for a command.
- *Installer.* A step of the loops that waits for no host is taken (`GoesOn`). Of
  one that waits for a host (`AwaitsHost`: at sshd, in a probe, a shell, a
  rollback, a verify, or reading what a step has published) nothing is assumed
  while the host lives: ssh is given no timeout, and the command may hang. Two
  things end it. An abort kills every ssh but the probe's, and one that is
  started under an aborted signal does not run; and a connection to a machine
  that is gone is given up by TCP. So an abort that lands in a probe of a live
  host may not end the run, and `AbortEnds` says so.
- *Screen.* The grace of an abort and the drain after a failure are timers; a
  cancel is answered, and the task of a run goes on, while the engine is up.
  Nothing is assumed of terminal outputs: that a run ends without one is what is
  checked.
- *Vaults, clusters, auth.* No liveness is stated, and no fairness assumed.
- *Clients, tasks, operators.* Nothing: they may never start, emit, cancel,
  attach, save or acknowledge anything.

Disjunctions such as "dispatch succeeds or throws" are one fair action: either
outcome will do.

## Disagreements

Two are runs that are violated; `PROJECT.json` quotes the lines.

1. `NoOrphans`: the uninstall handler says a host may not be uninstalled while a
   dependent stays installed. A dependent that is *being* installed is not
   counted, and its session holds no claim on the host.
2. `UninstallDropsPublished`: the delete policy says it removes what the install
   published. Secrets are stored under the name of the service and deleted by the
   prefix of its id.

The others are stated in the modules, marked as not kept, and are not among the
runs; TLC finds each violated when it is added to the configuration named.

| Property | What is said | What the code does | Configuration |
|---|---|---|---|
| `TerminalAfterFlush` | held lines are flushed before the runtime broadcasts the terminal (`buffered-emitter.ts:13-16`) | `cancel` and the idle timer broadcast past the emitter; the lines are lost | `executions` |
| `SuccessMeansDone` | destroy "tears down a re-planned one", "so real infra is never stranded" (`node.ts:20-27`) | a node that lost its credential or its VMs is left out (`provisioning-adapter.ts:365-372`) and completed all the same (`provisioning-run.ts:77-82`): `APPLY_SUCCEEDED` with nothing created, `DESTROY_SUCCEEDED` with its machines running | `provisioning` without `VIEW` and `SYMMETRY` |
| `AppliesCurrentSpec` | VMs are created "from their current spec" (`node.ts:15-17`) | the spec is that of the request; a node later in the queue is applied without what was registered since | `provisioning_queue`, no dispatch throws |
| `LifecycleOnly` | concurrent requests cannot lose each other's persisted state (`server.ts:53-55`) | the registration handlers save a whole station read earlier | `station_edits`, 1 service |
| `FailureIsRecorded` | "the failed one is FAILED" (`install-station-handler.ts:32-33`) | when a policy throws after `INSTALLED` was persisted, the failure transition is illegal and its error hides the policy's | `station`, 1 service |
| `AbortIsHonored` | the installer "honors the aborted signal" (`station/domain/ports/outbound/installer.ts:51`) | a probe does not: a host that never answers keeps the session and its claims | `station_edits`, 1 service |
| `OnlyRemovalsRemove` | as `LifecycleOnly` | two secrets generated at once: one is lost | `vaults`, no crash |
| `GoneIsTornDown` | an unreachable host counts as uninstalled (`installer.ts:445-446`) | only a refused connection counts as not ready: a host that times out is taken for reachable, and the teardown fails | `installer`, blueprint `One`, `MaxFaults` = 2 |
| `NothingLostSilently` | a write of another process is "a loud error instead of a silent lost update" (`adapter.ts:101-103`) | the second read compares one cluster and leaves a window before the write of the whole file | `clusters`, 2 processes, 2 clusters, no crash |
| `UsageIsCurrent` | the catalog knows which nodes use an image (`track-image-usage-when-assigned-to-node.ts:6-9`) | unregistering a node or a cluster announces nothing: its usages stay | `clusters` |
| `AbortedRunAsksNothing` | "`aborting` stays true so a still-pending ensureImages/startApply also short-circuits" (`provisioning-store.ts:572-573`) | the next run clears it, and the aborted one asks for its images and its apply | `screen` |
| `TerminalEndsRun` | a missing terminal can no longer trap the UI (`provisioning-store.ts:391-393`) | after a terminal that came, `stop()` is queued behind a pending `next()` and waits for another event | `screen` with `TerminalSpec` |
| `RevokedIsReadOnly` | after revocation the MCP port falls back to its read-only surface (`revoke-access-token-handler.ts:5-6`) | the token is read at boot; a server that is running keeps its scopes and key | `auth` |
| `KeysAgree` with `OneSetup = FALSE` | the check before a set-up keeps secrets from being stranded (`configure-handler.ts:14-18`) | two set-ups that both passed the check write two salts; the first session's key is stranded | `auth` |

Met while modelling, not stated as properties because the code takes no position:

- an acknowledgement cannot tell a run that died from one that is alive
  (`proxmox-cluster.ts:204`); `UpdateNode` resets the state of a node;
- a station is unregistered whatever its services are doing;
- a step that is healthy is skipped and publishes nothing, so a re-install does
  not store its secrets again (`installer.ts:224`);
- a crash between `.salt` and `.auth` leaves a home that counts as configured and
  that no password opens (`argon2-adapter.ts:29`);
- two registrations at once can give two clusters one name, and nothing keeps a
  host from being in two clusters; a cluster removed while an update holds its
  copy is written back; `UpdateVirtualMachine` drops the services of a machine,
  and the adapter writes them under `stack` (338) and reads `blueprint` (205);
- an image build takes a machine that exists for a template, be it half built by
  a build that failed, was cancelled or is still going on
  (`images/adapter.ts:248` of the executions);
- the boot applier of the self-update has no program at the target between its
  two renames, and drops its marker when the second fails
  (`src/tui/ink/src/self-update/boot-applier.ts:52`).

## Proofs

The proofs hold for any sets of executions, watches, nodes, machines, runs,
services, sessions, hosts, calls, processes, engines and logins, under the
assumptions the modules name (`ExecutionsAssumption` and its like: types of the
constants, null values that are none of the others, finitely many services),
which TLC evaluates on every instance.

| Theorem | States |
|---|---|
| `ExecutionsProofs!TypeCorrect` | `Spec => []TypeOK` |
| `ExecutionsProofs!OneTerminal` | `Spec => []TerminalIsLast` |
| `ExecutionsProofs!Replay` | `Spec => []WatchersReplay` |
| `ExecutionsProofs!Wakeups` | `Spec => []NoLostWakeup` |
| `ExecutionsProofs!Implementation` | `Spec => ImplementsStream` |
| `ExecutionsProofs!OutputStaysInOrder` | `Spec => []OutputInOrder` |
| `ExecutionsProofs!SettledStreamsAreWhole` | `Spec => SettledStreamIsWhole` |
| `ProvisioningProofs!TypeCorrect` | `Spec => []TypeOK` |
| `ProvisioningProofs!NoStuckNode` | `Spec => []StartedHasDriver` |
| `ProvisioningProofs!NoTwoTools` | `Spec => []ToolExclusive` |
| `ProvisioningProofs!VmsStayLocked` | `Spec => VmsLocked` |
| `ProvisioningProofs!SuccessIsTrue` | `Spec => SuccessIsReal` |
| `StationInstallProofs!TypeCorrect` | `Spec => []TypeOK` |
| `StationInstallProofs!ClaimsAreExclusive` | `Spec => []OneDriver` |
| `StationInstallProofs!NoStuckService` | `Spec => []InFlightIsDriven` |
| `StationInstallProofs!CompletedStaysCompleted` | `Spec => []DoneStaysDone` |
| `StationInstallProofs!HostsComeFirst` | `Spec => []HostsFirst` |
| `InstallerProofs!InstallerTypes` | `Spec => []TypeOK` |
| `InstallerProofs!ShellsHavePeers` | `Spec => []RendersFromPeers` |
| `InstallerProofs!NothingAfterAbort` | `Spec => AbortStopsChanges` |
| `InstallerProofs!InstallerImplementsPlan` | `Spec => ImplementsPlan` |
| `InstallerProofs!DoneStaysInEffect` | `Spec => []DoneIsInEffect` |
| `VaultsProofs!VaultTypes` | `Spec => []TypeOK` |
| `VaultsProofs!NamesStayUnique` | `Spec => []OneSecretPerName` |
| `VaultsProofs!FileIsWhole` | `Spec => []WholeBetweenWrites` |
| `VaultsProofs!StoreIsAtomic` | `Spec => ImplementsStore` |
| `ClusterFileProofs!ClusterTypes` | `Spec => []TypeOK` |
| `ClusterFileProofs!HoldersStayDistinct` | `Spec => []HoldersDistinct` |
| `ClusterFileProofs!ImagesStayPresent` | `Spec => []ImagesArePresent` |
| `ClusterFileProofs!RegistryIsAtomic` | `Spec => ImplementsRegistry`, with one process |
| `ClusterFileProofs!UsageFollowsTemplates` | `Spec => []UsageFollows`, with one process |
| `ProvisioningScreenProofs!ScreenTypes` | `Spec => []TypeOK` |
| `ProvisioningScreenProofs!SpinnersHaveRuns` | `Spec => []SpinnerHasRun` |
| `ProvisioningScreenProofs!DonesAreEarned` | `Spec => []DoneIsEarned` |
| `AuthProofs!AuthTypes` | `Spec => []TypeOK` |
| `AuthProofs!OneKey` | `Spec => []KeysAgree`, with `OneSetup` |
| `AuthProofs!GatesResolve` | `Spec => []OpenGateResolves` |

**Executions.** Every action broadcasts a *batch*, events of which only the last
may be a terminal. `IInv` adds two facts to the properties: cursors stay inside
the stream, and a watch that sleeps on the *current* promise has read everything
of a stream that is open (`SleepersAwait`). The second is what makes a wake-up
impossible to lose: a broadcast makes the promise old in the same step as it
extends the stream. The implementation theorem maps each step to a step of
`ExecutionStream` or a stutter: a broadcast to `Publish`, a delivery to `Read`,
falling asleep and waking up to nothing, a client that is gone to `Leave`.

What the stream delivers of the output is numbered by the order in which the
task emitted it. `WellSent` says that the lines of the stream, its batches put
end to end, are 1, 2, ... up to somewhere, and that while the stream is open the
lines still held are the rest of what was emitted; a terminal of the task's own
flushes first, so its stream is whole. Putting batches end to end is a recursive
function (`FlattenSeq` of the community modules), and the facts needed of it are
by induction: with the induction theorems out of reach, the least length of a
counterexample is taken instead, which exists because `<` is well-founded on the
naturals (`LeastNatural`, `FlattenAppend`).

**Provisioning.** `StartedHasDriver` needs only that a run at work has a current
node (`HasCurrent`). For two tools on a node, `IInv` has `Owns`, a run nobody
interfered with finds its node as it left it, and `Paired`, two runs that drive
one node are both marked: a start is legal only in a state that is not
`*_STARTED`, so someone moved the node in between and was seen to. `VmsLocked`
follows from `Owns`, since a node whose state is the run's `*_STARTED` refuses
edits. `Made` carries the effect of the tool from its end to the transition that
records it, which gives `SuccessIsReal`: what is recorded as a success is what
the run asked for (`Asked`), unless its snapshot had it leave the node out.

**StationInstall.** Claims: the union of what live sessions hold is `running` in
every step, and a session enters only with a selection disjoint from it. For
`InFlightIsDriven` two facts are added. `DraftsStartNothing`: an editor's copy has
a service in flight only if it was so when it was read, so a save that changes
nothing behind an editor's back starts nothing. `GoneIsEmpty`: a transition that
is refused because the station is gone leaves no status behind. Then whichever
transition throws, the service it was about is not in flight any more.

`HostsComeFirst` and `CompletedStaysCompleted` are one invariant (`HInv`). A
session works through its list (`ListIsOrdered`): what is on it is claimed, and a
host comes before or after what it hosts as the operation asks, which is shown of
every result of `topoSort` and survives filtering and dropping the head. A
completed service stays as the session left it (`EndsStay`) because no other
session may claim it and an editor changes only what it registers or removes
(`DraftsAreEdits`). The strengthening over `DoneStaysDone` is that a service that
was uninstalled is not merely absent: an editor could register one that is.

**Installer.** `Inv` ties the position to the plan: while a run is under way, `at`
is a step of a host of a role or stands at the end of one of the three loops, and
what was collected of the roles before it has one entry per host, which is
`RendersFromPeers`. `NothingAfterAbort` is by cases over the actions: only `Walk`
starts a shell, and it looks at the signal. For `InstallerImplementsPlan` the
steps before `at` in the order of the plan are `done`; each step of the loops adds
none to them, the next one, or, for a host that is taken for torn down, all of
that host.

`DoneStaysInEffect` needs nothing but `Inv`: each action either adds to what is
done a step whose probe has just passed, or changes on a host only what belongs
to the step it is at. The exception in the property, `Again`, came out of the
proof: registration lets a role name one machine twice, and then the second pass
works on a step the first one has done. A plan of that kind (`Twice`) is in the
run; without the exception TLC finds the counterexample too.

**Vaults.** Every copy in flight, and every list a save is about to write, is made
of whole vaults whose names are unique (`CopiesUnique`), because a copy came out
of the file and went through the aggregate. So it does not matter which is written
last. `WholeBetweenWrites` follows the file through truncating and filling:
unless somebody raced, the file is `settled` or exactly one call is writing.

For `StoreIsAtomic` every copy has to be told apart by what it may contain.
`IdsFresh` and `VaultsFresh`: the id of a secret or vault that a call has just
minted is in no copy but its own. `Current`: unless somebody raced, a copy that
is not stale is the settled vaults with the request of its call applied, so the
write that fills the file is one command of `VaultStore` applied to what was
there, and every other step is a stutter or a failed call. The mapping (`Opened`,
`AtOf`, `ByName`) finds a secret by its name, by choice: it is well defined
because names are unique, and a lemma for each request says what the request does
to it. The proof uses that ids, names and the values for "no secret", "no vault"
and "file cut short" are different values, which `VaultsAssumption` says: in the
code they are `null`, `undefined` or a file that does not parse.

**ClusterFile.** `Sound` says of a set of clusters what the aggregate's guards
keep; it holds of the file and of every copy, with any number of processes,
because a command is only applied to a sound cluster and keeps it so (a lemma per
command). With one process, the call whose turn it is is the only one that may
write (`RegistryIsAtomic`): its copy of the other clusters is the file, so its
write is an atomic command.

`UsageFollowsTemplates`: between the write of clusters.json and the end of the
projection of its event, exactly one slot may differ from the templates, the one
of the event that is on its way (`Following`). That a projection never meets a
node other than the one it was raised for is `AllKnown`: ids of clusters and
of nodes are minted once, and a node that was taken out stays `retired`. The
theorem assumes one process (`OneProcess`): with two, TLC finds one process
overwriting the template the other has just assigned, whose usage stays.

**ProvisioningScreen.** The state is shared by runs, so `Inv` says to whom it
belongs: the phase is `running` only for the run started last, and that one has
not returned. For `DoneIsEarned`, runs that were never beside another see events
of their own only (`Apart`, `SeenIsOwn`): what a run has counted was reported by
its own execution.

**Auth.** `OneKey` assumes that a home is set up by one call at a time. Then
`HomeInv` holds: before `.auth` is written nobody holds a key
(`NobodyBefore`); the one call that writes `.salt` is the one that will
write `.auth`, under the key that belongs to it; and after that both never change.
Everything that is sealed, saved or wrapped comes from a key that opened `.auth`.
`GatesResolve` rests on an invariant of each engine (`EngineInv`): what is saved
last has the latest expiry of all its sessions, since every save is for the same
life from now, and nothing a gate or an answer on its way believes is later than
what the store has for that session, or dropped before its time.

## What is only model-checked

- Liveness (`WatchEnds`, `StallIsDetected`, `ServesStream`, `CancelEnds`,
  `AbortEnds` of both modules, `EventsEndRun`, `AbortEndsSpinner`) is outside what
  TLAPS proves.

Every safety property and every refinement that a passing run checks is a
theorem. What the two runs that expect a violation check is what a comment of the
code says, and is not true of the code.

## What is not modelled

The models stand for about a tenth of the lines of the repository. Most of the
rest has no state of its own to get wrong: the layout and the forms of the
terminal UI, which are the larger part of it; the generated contracts; the wiring
of classes (`dependencies.ts`, endpoints that parse a request and call one
handler, queries that read a file); build, release and install scripts; parsing
and wording of requests, responses and logs. OpenTofu, ssh, Proxmox and their
templates appear through what the engine sees of them: they end well, fail, hang,
or are killed.

Of the parts with behaviour, these are left out: what an image build does on the
hypervisor; the self-update; the framing of the JSON-RPC channel and calls other
than those of the provisioning screen; the resolution of references in blueprints,
which is pure; the registry of images and the sizes, which repeat the pattern of
the vaults.

Inside what is modelled: warnings and outputs parsed from the tool's text; writes
to disk that fail; the registration of a station; the checks of roles, instances
and inputs of a service (a registration is one that passes them); names and
addresses of nodes; the projection of services on machines; credentials other than
whether a node has one.
