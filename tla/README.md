# Synchrotron: TLA+ models and proofs

Synchrotron is a continuous-delivery server: it watches git repositories,
renders applications from them, compares the result with what Kubernetes
clusters hold and applies the difference. This directory models it in TLA+, checks
the models with TLC and proves most of their safety properties with TLAPS.
`PROJECT.json` records, for every definition, the source lines it stands for.

## 1. The system

All paths are below `src/crates/`.

| Component | State | Operations | Talks to |
|---|---|---|---|
| Git client and poller (`synchrotron-git/src/client.rs`, `poller.rs`) | bare clone per repository; pause flag and trigger permit per poller | ensure_cloned, fetch, materialize; poll cycle | upstream; bridge over a broadcast channel |
| Repository orchestrator, triggers, webhooks (`orchestrator.rs`, `triggers.rs`, `webhooks.rs`) | map of registered repositories, map of triggers, fetch semaphore | register, deregister, trigger, status | pollers |
| Event bus (`synchrotron-core/src/events.rs`) | broadcast ring, one cursor per receiver | publish, subscribe, recv (lag drops the oldest) | everything below |
| Render pipeline (`synchrotron-server/src/pipeline.rs`) | repository map, the render in progress | bridge, render loop, render_apps_for_repo | bus, git, plugins, DesiredStore |
| Plugins and render caches (`synchrotron-plugins`) | LRU caches, child processes | render, get/put/invalidate | render loop |
| DesiredStore (`synchrotron-reconcile/src/desired_store.rs`) | app -> manifests and revision | put_with_revision, forget, two kinds of read | render loop writes, reconciler reads |
| Event trigger (`trigger.rs`), debouncer (`debounce.rs`), auto-heal (`auto_heal.rs`) | none / pending entries and timers / ticks | turn events, bursts and time into enqueues | worker pool |
| Worker pool (`worker_pool.rs`) | per-app queues, ready list, in-flight set, counters | enqueue, enqueue_coalesce, dispatch, completion, shutdown | runs the handler of `main.rs` |
| Reconciler (`reconcile.rs`, `plan.rs`, `wave.rs`, `kind_order.rs`) | per pass only | plan, read revision, re-read manifests, execute waves, publish outcome | both stores, applier, health checker, bus |
| Kube side (`synchrotron-kube`) | LiveStore, informers, cluster health, token caches | apply/delete, watch, resync, probe | cluster; LiveStore is read by the reconciler |
| Status writer (`status_writer.rs`) and database (`synchrotron-core/src/db`) | application rows, history | update_application_sync | bus |
| Configuration (`config/`) | active config, pending SIGHUP | load, validate, reload | `main.rs` |
| HTTP API (`synchrotron-server/src/api`), notifier, watch stream | rows; retry state; replay ring | create/update/delete/sync/rollback; deliver; SSE | database, bus |
| Diff, health rules, hooks, pruning | none (pure), mostly not called by the reconcile pass | compare, aggregate, plan | diff API |

What is hard about it:

* **Concurrency.** The pool's state is one mutex plus `Notify` wakeups outside it;
  the debouncer takes entries out under a lock and calls the pool after it; a
  reconcile pass reads the DesiredStore three times while the render loop
  writes it; the render loop and the trigger get the same event at the same time.
* **Loss.** The bus drops events for slow receivers; a head moves once, so
  a lost `RepoChanged` is not repeated; everything but the clone, the
  database and the cluster is memory and is gone after a restart.
* **Coalescing.** Requests are thrown away on purpose when an app is "already
  scheduled". Whether that is right depends on how far the scheduled job is.
* **Partial failure.** A pass may stop in the middle of a wave; a handler may
  panic; one app's render may fail among others.
* **Time.** Debounce windows, wave deadlines, health polls, poll intervals.

What makes each part correct is stated as the properties of section 4; what
could go wrong, at which line, is the list `hazards` in `PROJECT.json`.

## 2. Modules

| Module | Models | Notes |
|---|---|---|
| `SerialScheduler` | abstract: what the pool promises to those who enqueue | implemented by `WorkerPool`, used by `Debouncer` |
| `WorkerPool` | `worker_pool.rs` | one action per critical section and per wakeup |
| `WorkerPoolProofs` | proofs about `WorkerPool` | TLAPS |
| `Debouncer` | `debounce.rs` in front of a `SerialScheduler` | clock in ticks |
| `DebouncerProofs` | proofs about `Debouncer` | TLAPS |
| `Reconcile`, `MCReconcile` | one app's reconcile passes: `reconcile.rs`, `plan.rs`, `wave.rs`, `kind_order.rs`, `applier_adapter.rs`, both stores | the stores change between the reads of the pass |
| `ReconcileProofs` | proofs about `Reconcile` | TLAPS |
| `Delivery` | the composition of `main.rs`: git, bus, render loop, trigger, pool, reconcile, status writer, restart | the pool and the pass reduced to what the other parts see |
| `DeliveryProofs` | proofs about `Delivery` | TLAPS |
| `LiveStore` | `live_source.rs`, `informer/runner.rs`, `informer_setup.rs`, `health/state.rs`, `health/monitor.rs` | informers per kind, their channel, the health monitor they follow |
| `Repositories` | `orchestrator.rs`, `triggers.rs`, `poller.rs`, the clone and fetch of `client.rs`, webhooks | registrations race, pollers fetch |
| `SourcesProofs` | proofs about `LiveStore` and `Repositories` | TLAPS |
| `MCSources` | `LiveStore` beside `Repositories` | fairness for both |
| `ClusterRegistry` | `registry.rs` (kube) | monitors live as long as a handle |
| `Tokens` | `oidc.rs`, `oidc_http.rs`, `exec.rs`, `github_app.rs`, `github_app_http.rs` | three caches of one shape, `flavour` says which |
| `SyncHooks` | `hooks.rs`, `hook_runner.rs` | runs of one hook object |
| `HostKeys` | `known_hosts.rs`, the certificate check of `client.rs` | file and memory |
| `Streams` | `api/watch.rs`, `synchrotron-notifier` | two consumers of the bus |
| `Records` | `core/src/db`, `api/apps.rs`, `api/clusters.rs`, `api/repos.rs`, the statements of `status_writer.rs`, `migrations.rs` | one row of one table and what references it |
| `Rendering` | `app_renderer.rs`, `app_cache.rs`, `cache.rs`, `registry.rs`, `raw.rs`, `local.rs`, `sidecar.rs`, `manifest.rs`, `app_cache_repo.rs` | renderers share a cache |
| `Scalers` | `scaler_discovery.rs`, `auto_ignore.rs` | one consumer per controller kind |
| `Health` | `synchrotron-health` | rules, aggregation, readiness gate |
| `SmartDiff` | `synchrotron-diff` | recursive operators, model-checked only |
| `Pruning` | `prune.rs`, `owned_resources_repo.rs` | the owned set across failed syncs |
| `Configuration` | `config/*.rs`, the head of `main.rs` | parse, validate, start, SIGHUP |
| `AccessProofs` | proofs about `ClusterRegistry`, `Tokens`, `HostKeys`, `Configuration` and `Rendering` | TLAPS |
| `SyncProofs` | proofs about `SyncHooks`, `Health`, `Pruning` and `Records` | TLAPS |
| `FeedProofs` | proofs about `Scalers` and both parts of `Streams` | TLAPS |
| `MCControl` | the models from `ClusterRegistry` on, side by side | they share no state: `part` says which one moves |

### WorkerPool

State follows `struct State`: `queues` and `keys` (the map and its key set,
separate because an entry may be empty), `ready`, `in_flight`, `queue_depth`,
`shutdown`, the counters; `permit` and `disp` are the `Notify` and where the
dispatcher task is; handler tasks are `popped`, `running`, `released`, `panicked`.
A job is its acceptance number. `EnqueueAccepted`/`EnqueueQueueFull` are the
critical section of `enqueue_impl`, `ProducerNotify` the `notify_one` after it;
`DispatchNext`, `DispatchNone`, `CheckShutdown`, `Park` are the stations of
`dispatcher_loop` with the lock released between them; `HandlerFinish` is the
completion section, `TaskNotify` what follows it, `HandlerPanic` a handler that
unwinds past it. `notify_one` stores a permit, `notify_waiters` does not: both
follow tokio's documented behaviour and are marked external.

### Debouncer

`pending` is the map, `timers` the spawned tasks, `handoff` the entries that were
taken out under the lock and whose `enqueue_coalesce` is still to come. A timer
wakes at its deadline or later. `last` and `era` (how often an
app's entry has been taken out) are history for the properties.

### Reconcile

`PlanOnly`, `ReadRevision`, `Refetch` are the three reads of the DesiredStore;
`Put`, `Forget`, `ForgetCluster` and `Inform` may happen between any two of
them. A manifest is a body and a wave. The sorted wave plan is not built: the
next entry is the least one, in the order of `sort_within_wave`, that the
applier has not seen in the lowest wave that is not complete, which is where the
two nested loops of `execute_waves` are. `Healthy` may come at any poll or never;
`Deadline` and `WaveTimeout` are the clock. Every way out publishes one outcome.

### Delivery

One repository, its bare clone, three receivers of the bus, the application rows,
the DesiredStore, the render in progress, each app's place in the pool and in
the pass, the LiveStore and the cluster. A revision is a number; an app is one
resource whose manifest is the revision it was rendered from. All producers call
`enqueue_coalesce`, so an app is idle, queued or running. `Lag` lets a receiver
lose its oldest event because of events that are not in its queue. `Restart`
loses all memory. `executor` says whether the cluster's client connected when the process
started: if not, no informer runs, and a pass reports its plan as a success and applies
nothing (`NoExecutor`). A database that cannot answer costs the resolver its targets
(`ResolverFails`) or the handler its pass (`DispatchFails`). `AutoHeal` says whether an `AutoHealScheduler` runs: the crate
has one, `main.rs` does not start it. The bridge is part of `Fetch`: its own
channel holds 64 poll results and the bridge does nothing but forward them.

### LiveStore

`api` is what the cluster holds (an object and the app its label names), `slots` the
store. A kind has a supervisor (`Supervise`), a session that fetches a client, lists,
watches and ends (`Session`), a bounded ring (`Send`) and a router that subscribes
and handles one event at a time (`HandleEvent`: `ReplaceAll`, `UpsertOne`,
`RemoveOne`). `wiring` is the start of the crate's own monitor or the one of
`main.rs`, whose health channel says Up for ever. `tracker`, `Probe` and `Reconnect`
are `state.rs` and the loop of `monitor.rs`; `cred` numbers credentials so that a client
built from old ones is refused. `wiped`, `moved` and `lost` are history: the objects
a resync of another kind removed, those left under a former label, those whose event
the ring dropped.

### Repositories

`entries` and `triggers` are the two maps, changed under different locks by
`register` (spawn the poller, insert the trigger, insert the entry or roll back) and
`deregister`, one action per critical section. A poller waits, takes the semaphore,
fetches in a blocking call that outlives an abort, and publishes. `fetchedHead` and
the cache's `origin` and `HEAD` are what the clone leaves on disk, with a crash between
them. `raced` holds the ids whose calls overlapped, `stuck` those whose cache has a HEAD
and no origin.

### The components of MCControl

* `ClusterRegistry` — lookup, connect and insert of `register` are three steps.
* `Tokens` — a caller reads the clock, waits for the mutex, exchanges (with retries,
  cancellation and a lost answer) and stores; the issuer rotates refresh tokens.
* `SyncHooks` — delete the former object, create, poll, delete by policy; the object
  has a uid and may linger after its deletion.
* `HostKeys` — a check is one step, the append inside it may fail before, half way or
  not; a reload parses the file again. The file may end without a newline from the start,
  and what is appended then becomes part of its last line.
* `Streams` — fan-in appends to the ring and then sends; a client replays and then
  subscribes; the notifier posts, retries and reads on.
* `Records` — `update_*` loads the row under one lock and writes it under a second; the
  write of an application is a delete and an insert, and the delete cascades.
* `Rendering` — hit or miss, load, plugin or sidecar protocol step by step, parse,
  put with eviction at both bounds, invalidation, clear; entries are saved and warm
  the cache on start.
* `Scalers` — fold an event, copy the sources, write the cache.
* `Health` — controllers report after the fact; a rule per kind, worst verdict wins.
* `SmartDiff` — commits, applies and edits of other managers change desired, live
  and managedFields; the diff is compared with the fields that differ.
* `Pruning` — apply, prune (if the app's policy says so), record, with failures and
  crashes between; a row has an apiVersion, an object of the cluster has none.
* `Configuration` — the file is read before the write lock is taken; signals merge;
  a signal without a handler ends the process.

## 3. Bounds

Every bound is a constant named `Max...` (or the ring and queue capacities).

| Run | Bounds | Why they are enough |
|---|---|---|
| `worker_pool` | 3 apps, 2 slots, queues of 2, one panic | contention for slots, an app waiting behind another, a full queue, a re-queued app overtaking a waiting one, a leaked slot |
| `pool_shutdown` | the shutdown race needs no jobs at all | |
| `debounce` | 2 apps, 2 triggers, window 2, 3 events, 1 flush, 4 ticks | a burst of two, a superseded timer, a flush between, and a second app to tell entries apart |
| `delivery` | 1 app, ring of 2, 1 slot, 1 push, 1 creation, 1 fault | every fault once at every point; apps interact only through the slots (worker_pool) and the bus, whose loss is a fault here |
| `sources` | 2 kinds with 1 name, 2 apps, ring of 1, reconnect after 2 failures, 1 disturbance of each sort; 1 repository, 2 callers, 1 fetch slot, 2 pollers, 1 push, 1 fault | a resync of one kind meets the other's objects, a label moves, the ring overflows, a session breaks up and down; two registrations or a registration and a removal overlap, a fetch outlives its poller |
| `control` | see `Control.cfg`; 1 or 2 of each sort of actor, 2 to 4 events, 1 fault of each sort | each component has two actors that race (callers, renderers, consumers, requests), a bound that is reached (cache, ring, retries, row ids) and a failure |
| `update_references` | 1 app, 2 recorded syncs, 1 request | the cascade needs one recorded row and one update |
| the other runs that must fail | one or two of each sort, no fault that the trace does not need | each is the least instance that has the case |
| `reconcile` | 3 resources (Namespace, ConfigMap, Deployment), waves -1 and 0, 2 writes, 2 passes | two kinds in a wave both ways, a resource that changes wave with its version, a store that moves between any two reads, a second pass on a stale LiveStore |

`control` checks safety only and uses the symmetry of callers, renderers and requests
(`Interchangeable`); the other runs check liveness and use none.

## 4. What the runs show

Passing runs:

* **worker_pool** — the ready list is exactly the apps with work and no job
  (`ReadyExact`), at most one job per app (`OneJobPerApp`), FIFO per app, no lost
  wakeup, counters that add up, shutdown that drains what runs and takes nothing
  new, no overtaking in the ready list, every accepted job starts
  (`AcceptedJobStarts`), and the pool implements `SerialScheduler`.
* **debounce** — no entry without a timer that will match it, only the latest
  timer fires within one life of an entry, no more
  hand-overs than events, and every event ends in a scheduled job.
* **reconcile** — the wave barrier, the order within a wave, one honest outcome
  per pass, a success over stores that stood still leaves the cluster as rendered,
  every pass ends.
* **delivery** — with auto-heal, cluster and status converge after any one fault;
  an app whose stored manifests are behind has a render on its way or a known
  reason not to (`RenderedOrComing`), a stored render that was not planned from has
  a request on its way or a known reason not to (`RequestsKept`).
* **sources** — `StoreTracksCluster`: a settled kind is in the store under its apps
  and nowhere else. `ClusterRecovers`: after the disturbances the monitor has an
  accepted client and every kind is watched again. `TriggerWired`: a registered
  repository has the trigger of its own poller. `PushesFetched`: every push is fetched.
* **control** — `RegistryNeverSwaps`: racing registrations never replace a monitor, and
  a monitor with a handle probes. `RefreshTokenCurrent`: the cached refresh token is the
  one the issuer accepts. `HookOutcomeFresh`: a run reports the outcome of an
  object created after it started. `HostKeysPinned`: after first use only that key, or a recorded one, is accepted,
  across restarts. `WatchGapless`: an SSE stream is in order and complete.
  `NotifiedInOrder`: outcomes are posted in order, at most `max_attempts` times, and
  settled before the next. `EditsKept`: acknowledged edits, statuses and deletions are
  in the table. `CacheAccounts`: the byte count of the cache is exact and its bounds
  hold. `ScalersCurrent`: the differ ignores exactly what scalers in the cluster write.
  `GateHonest`: a Healthy gate means the current generation of every workload found has
  rolled out. `DriftExact`: the diff reports every differing field, nothing else, and
  attributes it to its owner as the server recorded it. `PruneExact`: after its deletes a sync leaves exactly what
  git asks for. `ConfigFollowsFile`: what is active can be run on and, once the signals
  are served, is the file unless that is refused.

Several of these hold up to causes that are really in the code; the properties name
them so that nothing else can hide behind them:

| Property | Excepted |
|---|---|
| `StoreTracksCluster` | `replace_all` of one kind clears the app's other kinds (`live_source.rs:292`, `LiveResync.cfg`); an object keeps its place under a former label (`:258`); events the ring dropped |
| `Converges` | a process whose cluster did not connect at startup is plan-only: `StatusSettles` then speaks of the plan |
| `ClusterRecovers` | a watch opened before a rotation counts as a watch; a session that ends while health stays Up is not restarted (`runner.rs`); with the wiring of `main.rs` health is always Up |
| `TriggerWired` | calls for one id that overlap: the loser's roll-back and a late `deregister` remove the trigger by id (`orchestrator.rs:116`, `:137`, `RegisterRace.cfg`) |
| `PushesFetched` | a crash between HEAD and origin leaves a cache that never fetches (`client.rs`) |
| `RefreshTokenCurrent` | an answer lost after the issuer rotated |
| `HookOutcomeFresh` | hooks without `BeforeHookCreation` report the former object's outcome |
| `HostKeysPinned` | mode `no`; a file with a half-written line, or with a line written onto one without a newline (`HostKeysNewline.cfg`) |
| `WatchGapless` | events outside the replay window, lag, events between replay and subscription (`watch.rs:250`, `WatchGap.cfg`); one event may come twice |
| `NotifiedInOrder` | outcomes the receiver lagged past during retries |
| `EditsKept` | a write of the same row between the two locks of an update; the whole row is gone when a crash or a failed insert follows an update's delete (`apps.rs:385`) |
| `ScalersCurrent` | a ring that overflowed; a copy written after a newer one |
| `DriftExact` | fields with several owners (`managed_fields.rs` takes the first); changes in elements keyed by a number or in sets, whose owner is never found (`DiffNumericKeys.cfg`) |
| `PruneExact` | opt-outs, and what an app without `automated.prune` dropped; objects of a sync that failed before it recorded them; wanted objects that the rows know under another identity: a moved apiVersion, an empty namespace (`PruneVersion.cfg`) |

Runs that must fail, each a disagreement between the code and its documentation:

* **pool_shutdown** — `shutdown()` can hang: `notify_waiters` between the
  dispatcher's flag check and its park is lost.
* **debounce_quiet** — the generation restarts with a new entry, so a timer from
  before a flush can fire the burst after it early.
* **delivery_coalesce** — without auto-heal and without any fault, the request
  that follows a render can be coalesced into a pass that has already read the
  former manifests; the cluster then stays behind.
* **delivery_first_poll** — after a restart the first poll finds an unmoved head
  and renders nothing.
* **reconcile_refetch** — a render between the plan and the second read leaves an
  `Apply` entry without a manifest, which the applier calls an engine bug.
* **update_references** — `update_app` deletes and reinserts the row, and the foreign
  keys cascade: history, revisions and owned resources of the app are gone, although the
  comment says references stay valid.

Further configurations, which TLC refutes too. Each checks, on the smallest instance that has
the case and without an exception, what a comment of the code says, where the property of a
passing run names the case as an exception or leaves it out:

* `ReconcilePrune.cfg` with `MCReconcile`, `PruneFirst` — the header of `wave.rs` (:32-34) says
  "prune first, then apply"; `kind_order.rs` documents, and the code does, the opposite
  within a wave.
* `LiveResync.cfg` with `LiveStore`, `StoreInSync` — every kind's resync clears the whole
  cluster: after two kinds have been listed at startup, as `informer_setup.rs` does with
  nine, the store lacks the first one's objects. `live_source.rs:1-2`: the bridge "keeps the
  store in sync".
* `RegisterRace.cfg` with `Repositories`, `RegisteredWired` — the loser of two
  overlapping registrations removes the winner's trigger: its webhooks reach
  nobody. `orchestrator.rs:7-8`: "push notifications route to the right poller".
* `WatchGap.cfg` with `Streams`, `ReplayThenLive` — an event between the replay and the
  subscription of an SSE client that comes back is in neither,
  though no buffer is full. `watch.rs:20-24` names no loss but a gap larger than the buffer.
* `HookRetry.cfg` with `SyncHooks`, `OutcomeTerminal` — `classify` takes one failed pod
  for a failed Job: a hook that its controller retries is reported (and by policy
  deleted) before it completes. `hook_runner.rs:225-226`: "Returns `None` if the resource is
  still in progress".
* `UpdateCut.cfg` with `Records`, `RegisteredPersists` — the delete and the insert are
  two statements: a crash or a failed insert between them loses a registered application,
  which `docs/upgrades.md:19-20` counts among what the database keeps.
* `DiffNumericKeys.cfg` with `MCControl`, `OthersInformational` — `fields_v1_owns` quotes
  every key value, the API server writes numbers bare: the owner of a port is never
  found, and another manager's change to it counts as our drift.
  `ownership.rs:11-13`: "A change to a field we don't own is, by definition, not drift".
* `PruneVersion.cfg` with `MCControl`, `WantedKept` — `compute_prune_set` compares the
  version too: an object whose manifest moves to another apiVersion is applied and then
  deleted by the same sync. `prune.rs:1`: "Pruning for resources removed from the desired
  set".
* `HostKeysNewline.cfg` with `MCControl`, `TrustForever` — `append` does not end an
  unfinished last line first: the pin of a new host becomes part of that line, and a
  restart forgets it. `known_hosts.rs:241`: "trust on first use, then verify forever after".

Not a run, but met on the way: `main.rs` reads the configuration once
(`handle.current()`), so that a reload on SIGHUP changes nothing the server uses, although
`config/mod.rs` says the rest of the process reads through the handle and
`docs/multi-cluster.md` sends operators to it; a process started without a
file dies of SIGHUP; `rollback_app` publishes a sync request and never applies the
snapshot it looked up; the header of `synchrotron-health/src/lib.rs` says a generation
that was not observed is always Progressing, which Jobs, HPAs, CRDs, the generic rule and
paused Deployments do not do; a gate over objects that are not there is Healthy; event ids
of the watch stream restart with the process; the key of the render cache has no plugin
and `invalidate_app` no caller;
`SyncOutcome.revision` is read after the plan and may name a later revision
than the one planned; a cluster whose client could not connect is plan-only
and its apps are reported Synced; `update_app` publishes no `AppChanged` although
`events.rs` says source changes do.

### Fairness

* Pool: the dispatcher and every spawned task keep running (weak fairness): tokio
  polls ready tasks. Handlers return; nobody is obliged to enqueue.
* Debouncer: timers whose deadline passed are woken, hand-overs run, time
  passes. The pool has no fairness, the property needs none.
* Reconcile: a pass keeps taking steps; deadlines expire; calls return, with
  success or failure. `Healthy` has no fairness.
* Delivery: each loop keeps receiving, polls and heal ticks recur, the informer
  delivers, a render or an apply that may succeed or fail is not obliged to fail
  (faults are bounded). Pushes, operators and faults have none.
* Sources: the probe timer, the supervisors, sessions, routers, pollers and blocking
  git calls keep running (weak); an API server that went away comes back, which the
  bounded disturbances make an assumption about the environment; a poller that waits
  for the fetch semaphore gets it in the end (strong: tokio's semaphore is fair, and the
  permit may be taken in between). Pushes, edits, registrations and faults have none.
* Control checks safety only.

## 5. What is proved

TLAPS proves the following for every value of the constants allowed by the named
assumptions.

`WorkerPoolProofs` assumes `PoolAssumption`: finite names, `max_concurrent` and
`per_app_queue_cap` at least one. The server uses 64 and 16 and the defaults are
16 and 8; with a cap of zero a refused enqueue would leave an empty map entry
behind and the app would look scheduled for ever. The inductive invariant
`PoolInv` joins the properties with facts that carry them from one critical section to
the next: a popped job exists only between `DispatchNext` and `SpawnHandler`
(`PoppedShape`), the stages of a job are disjoint (`StagesDisjoint`), numbers
are handed out once (`JobsNumbered`), the sets counted are finite
(`FiniteStages`), the in-flight set respects the slots (`SlotBound`). None
of the safety properties is inductive alone: that the ready list is exact after
a completion needs that the app was in flight exactly once, which needs
`OneJobPerApp`, which needs `ReadyExact`. From it follow the safety invariants (among
them two that no run checks any more because the refinement says them: the map
holds exactly the apps with work, and at most `max_concurrent` jobs run), two action
properties and the refinement of `SerialScheduler`.

`DebouncerProofs` assumes `DebounceAssumption`: natural bounds, `None` is no
entry, finitely many apps. The inductive invariant `DebounceInv` adds
`GenerationsGrow`: a timer of the current life of an entry carries at most
the entry's generation, and exactly that only if it was armed by the latest event;
a timer of the current life implies that the entry exists. `QuietWithinEra`
does not speak of the older generations and is not inductive without it.
The hand-over bound is proved on cardinalities: taking an entry out costs
one entry of the map, a flush at most as many hand-overs as there are entries.

`ReconcileProofs` assumes `ReconcileAssumption`: finitely many resources, priorities and
ranks are numbers, ranks are distinct (`sort_within_wave` breaks ties by namespace and
name), waves are integers, and `None` is neither a manifest nor a plan action. `PassInv`
says where a pass is by what it has applied: the plan and the re-fetched manifests stand
still while entries are applied, so an entry's wave does too; the applied entries are a
prefix of the sorted plan (`Applied`, `Once`, `PrefixOfWave`, `CompletedApplied`,
`CompletedBelow`, `GateApplied`); an entry that is not applied yet looks to the cluster
as it did when the plan was made (`PlanStillFits`), without which a successful pass
would not imply convergence. `WaveBarrier` and `DependencyOrder` are parts of it,
`OneHonestOutcome`, `SuccessConverges` and the action property `StopsAtFirstFailure`
follow.

`DeliveryProofs` assumes `DeliveryAssumption`: a ring and a pool of at least one place,
and a `None` that is no revision, app or render call. `DeliveryInv` follows two chains
of custody. A sync request goes from the announcement of a render call through the
trigger's queue to a queued job. A moved head goes from the poller through the render
loop's queue to a render call. `RenderedOrComing` alone is not inductive because a call
or an event may carry a former head: the invariant adds that the current head is then
behind it in the queue (`StaleCallFollowed`, `StaleEventFollowed`).

`AccessProofs` holds five independent proofs. The registry's `RegistryInv` is that a
monitor somebody holds a handle to runs; `RegistryNeverSwaps` is an action property.
`TokensInv` is that one caller at a time exchanges, and that the refresh token the issuer
accepts is in the cache or in that caller's hands; `"free"`, the value of the mutex, is
no caller. `HostKeysInv` is that what the verifier looks up is what the file says, as
long as no append failed half way or was glued to a line without a newline; the assumption gives the lines a file is seeded
with their type (`HostLine`). `ConfigInv` is that validation holds of what is active and of what
a reload is about to make active, and that a reload that saw the file last leaves what it
says; files are `Document`s, unreadable or malformed. `RenderInv`, from
`RenderingAssumption` (`max_entries` at least one, which `AppCache::new` enforces), is that
the cache is in `GoodCaches`: `total_bytes` is the sum of the entries (`Counts`), one entry
has a key (`Keyed`), both bounds hold (`Fits`), and that the table and the renders
in flight hold keys and sizes of their type. `CacheAccounts` follows. Between the steps of
`put` only `Counts` holds, `Fits` is what `Trim` restores. The saturating subtractions
never saturate, because an entry's bytes are part of the sum (`BytesRemove`). The loops
of the cache are recursive functions (`sum`, `after`, `kept`); that such a function
exists and follows its recursion is `LoopTrace`, that it keeps what its steps keep
is `CountUp`, both by a least counterexample (`WFMin` over `Nat`), which needs no theorem with
an operator parameter.

`SourcesProofs` holds two. `RepositoriesInv`: as long as no two calls for one repository
overlap, the one in flight knows both maps, and an entry or a call names a poller spawned
for its own repository (`OwnPollers`); `"none"` is no repository. `LiveInv`, from
`LiveAssumption`, speaks of the events in flight to a router: the channel, the list being
read, the watch events behind it (`Pending`). Applied one after the other to what the
store says, they end at what the cluster holds for every object of a listed kind
(`Leads`), and each deletion names the app under which the store will then hold the
object (`Chained`), because `RemoveOne` only looks under the label the deletion carries.
A step handles the first event or loses it to the ring, appends one, or cuts the tail
when a session ends, and `SaysAdvance`, `ChainGrows` and `ChainCut` say what that does.
The invariant was checked by TLC first, on 16.7 million states of `LiveSpec` with a channel
of two places.

`SyncProofs` holds four. `HooksInv`: incarnations of a hook's object are numbered
upwards, so once a run has seen it gone, what is there later is its own. `PruneInv`:
what the owned set records, what the cluster holds and what a sync in progress has still
to apply, delete or record, across failed syncs (`NoNs`, a resource without namespace, is
not the empty string). `RecordsInv`: what each request in flight loaded, and that a row
differs from the last edit only if a write landed inside an update's window or the row
went with an update's delete (`cut`). `HealthInv`:
a status says what its report saw, and of the pods of an older template the
total, the rolling flag or the number of nodes tells; `OnePodPerNode` makes the DaemonSet
rule, which reads no total, sound.

`FeedProofs` holds three. `ScalersInv` joins two arguments: the last event in a ring that
speaks of a scaler tells what the cluster has, and somebody is always about to
write the newest state of the sources to the cache. The markers `Unset` and `Due` are
distinct and no snapshots. `NotifierInv` orders what the sink got, what is being posted
and what the receiver will read next. `WatchInv` follows a connection of the watch stream
from its replay to its place in the channel. A buffer holds the latest ids of its app
in order (`BuffersHoldLatest`); so what a replay lacks had left the window. Before the
subscription every id up to the replay's top is in the backlog or accounted for
(`ReplayedOk`); after it every id before the client's place in the channel is
(`LiveOk`). `WatchGapless` only speaks of live clients and says nothing of the buffers:
it is not inductive without these. That the replay is a suffix of the buffer
rests on the buffer's order (`AscendsSplit`).

The proofs changed the models in three ways. Types that assumptions need became
definitions (`Call`, `HostLine`, `Document`, `ScalerEntry`, `Snapshots`). The rules
of `Health` for jobs, tier 1 and conditions had `CASE`s whose guards overlapped for an
object without a status, which TLC resolves by order and the proof cannot: they now
ask for the status first, as the code does. Other `CASE`s became `IF`s without a change
of meaning. And what needed induction was brought into a form that a
least counterexample reaches: the replay of `Streams` is the suffix of the buffer that a filter
by `Last-Event-ID` keeps, since the buffer ascends; the cache of `Rendering` performs
`put` in the steps of the code (pop, push, trim one by one) where it used to compute the
trim as a minimum. TLC found the filter and
the suffix equal, and as many reachable states of `Rendering` after the rewriting as before.

Model-checked only:

* all liveness (`AcceptedJobStarts`, `EventReachesPool`, `Converges`, `StatusSettles`,
  `PassEnds`, `ClusterRecovers`, `PushesFetched`): fairness and `ENABLED` are out of the
  prover's reach;
* `DriftExact`: values are trees, and the diff, the leaves and the edit of a value recurse
  over them with `RECURSIVE` operators, under which the prover loses its SMT backend. It
  is also a statement about the manifests of `Desireds` and not about every tree: a map
  without fields that only one side has is a change with no differing leaf.

## 6. What is not modelled

`PROJECT.json` lists every part with its status. Left out for good: parsing and
formatting (manifests, known-hosts spelling, YAML, SQL text), cryptography and HTTP,
process and socket I/O, metrics, logs and telemetry, secrets, the command line client,
the benchmarks, the helm, kustomize and labeler plugins (external programs without
state), `dry_run.rs` (one request), `api/diff_engine.rs` (an adapter),
`api/health.rs` (a table of component states), the read handlers of the API, and
`coalesce.rs` and `prune_sync_history`, which nothing calls. Abstracted: what a
render produces (the revision itself in `Delivery`, any of a set of manifests in
`Reconcile`, a size in `Rendering`), server-side apply (the cluster holds what was sent),
health in the reconcile pass (healthy at any time or never; the rules are in `Health`),
CEL (any answer a rule may give), and how long anything sleeps: the backoff of the health
monitor and of the retries only delays steps that fairness already lets wait.

The components of `MCControl` are not composed with `Delivery`: hooks, pruning, the smart
diff, the notifier and scaler discovery have no caller on its path, and what the others
hand over (a render, a token, a client) appears in `Delivery` as a step that succeeds or
fails.

## 7. Plan

Modelling is complete as far as section 6 allows. Every safety invariant and action
property that a passing run checks is a theorem, but for `DriftExact` (section 5); liveness
stays with TLC. What would extend the project:

1. An abstract specification of what the live store promises to a plan, and `LiveStore`
   shown to implement it; `StoreFollowsCluster` has the step that matters.
2. `SmartDiff` over values of bounded depth, as functions on the depth, for a theorem
   about `DriftExact`.
