------------------------------ MODULE Delivery ------------------------------
(***************************************************************************)
(* How a commit becomes cluster state: poller -> bridge -> event bus ->    *)
(* render loop -> DesiredStore -> event trigger -> worker pool -> reconcile*)
(* -> SyncOutcome -> status writer, for the apps of one repository, as     *)
(* server/main.rs and pipeline.rs wire it.  AutoHeal adds the periodic     *)
(* scheduler of auto_heal.rs, which main.rs does not start.                *)
(*                                                                         *)
(* Abstractions.  A commit is its number, and what an app renders to at a  *)
(* commit is that number again; an app is one resource.  The pool is what  *)
(* SerialScheduler allows when every producer calls enqueue_coalesce: per  *)
(* app idle, queued or running.  A crash loses memory and keeps the bare   *)
(* clone, the database and the cluster.                                    *)
(***************************************************************************)
EXTENDS Naturals, Sequences, FiniteSets

CONSTANTS
  Apps,           \* names an operator may create apps under
  None,           \* absent
  BusCapacity,    \* ring of the EventBus
  MaxConcurrent,  \* PoolConfig::max_concurrent
  AutoHeal,       \* whether an AutoHealScheduler runs
  MaxCommits,     \* bound: pushes to the repository
  MaxCreates,     \* bound: apps created
  MaxFaults       \* bound: failures, lag, crashes, drifts, deletions, operator syncs

Revision == 0 .. MaxCommits
\* A render_apps_for_repo call: the revision it renders, the apps still to render,
\* whether its workspace is materialized, and the app whose sync it announces next.
Call == [head : Revision, todo : SUBSET Apps, ready : BOOLEAN, announce : Apps \cup {None}]

ASSUME DeliveryAssumption ==
  /\ BusCapacity \in Nat \ {0}
  /\ MaxConcurrent \in Nat \ {0}
  /\ AutoHeal \in BOOLEAN
  /\ MaxCommits \in Nat /\ MaxCreates \in Nat /\ MaxFaults \in Nat
  /\ None \notin Nat \cup Apps \cup Call

Receivers == {"render", "trigger", "status"}

VARIABLES
  origin,      \* head of the branch upstream
  bare,        \* head of the branch in the bare clone on disk, or None
  bus,         \* receiver -> the events it has still to read
  subscribed,  \* the render loop's task has reached bus.subscribe()
  apps,        \* rows of the applications table
  row,         \* their sync_status and last_synced_revision
  creating,    \* inserted by create_app, AppChanged not yet published
  desired,     \* DesiredStore: app -> revision, or None
  rendering,   \* the render_apps_for_repo call in progress, or None
  run,         \* app -> its place in the pool and in reconcile_and_apply_app
  live,        \* LiveStore: app -> revision, or None
  cluster,     \* what the cluster holds: app -> revision, or None
  executor,    \* the cluster's client connected when the process started
  creates, faults,    \* bounds
  \* History variables: which of "render" and "trigger" missed an event; apps whose latest
  \* render failed; the revision an app's latest plan saw; apps whose sync request no
  \* later plan answers.
  dropped, unrendered, planned, forfeited

gitVars == <<origin, bare>>
busVars == <<bus, subscribed, dropped>>
dbVars == <<apps, row, creating, creates>>
renderVars == <<desired, rendering, unrendered>>
poolVars == <<run, planned, forfeited>>
clusterVars == <<live, cluster, executor>>
vars == <<gitVars, busVars, dbVars, renderVars, poolVars, clusterVars, faults>>

Idle == [pc |-> "idle"]
NewRow == [sync |-> "Unknown", revision |-> None]

Init ==
  /\ origin = 0
  /\ bare \in {None, 0}
  /\ bus = [r \in Receivers |-> <<>>]
  /\ subscribed = FALSE
  /\ apps = {} /\ row = [a \in Apps |-> NewRow] /\ creating = {}
  /\ desired = [a \in Apps |-> None]
  /\ rendering = None
  /\ run = [a \in Apps |-> Idle]
  /\ live = [a \in Apps |-> None] /\ cluster = [a \in Apps |-> None]
  /\ executor \in BOOLEAN
  /\ creates = 0 /\ faults = 0
  /\ dropped = {} /\ unrendered = {}
  /\ planned = [a \in Apps |-> None] /\ forfeited = {}

Fault == faults < MaxFaults /\ faults' = faults + 1

(***************************************************************************)
(* EventBus: a broadcast ring.  A receiver that falls BusCapacity events   *)
(* behind is advanced past the oldest ones; an event published before a    *)
(* receiver subscribes is not for it.  A queue holds the events its        *)
(* receiver acts on; those it ignores fill the ring as well, which is what *)
(* Lag stands for.                                                         *)
(***************************************************************************)
RepoChanged(h) == [type |-> "RepoChanged", head |-> h]
AppChanged(a) == [type |-> "AppChanged", app |-> a]
ManualSyncRequested(a, by) == [type |-> "ManualSyncRequested", app |-> a, by |-> by]
SyncOutcome(a, ok, rev) ==
  [type |-> "SyncOutcome", app |-> a, success |-> ok, revision |-> rev]

\* The match arms of the three loops that are not `_ => {}`.
ActsOn ==
  [render |-> {"RepoChanged", "AppChanged"},
   trigger |-> {"RepoChanged", "ManualSyncRequested"},
   status |-> {"SyncOutcome"}]

Listens(r) == r = "render" => subscribed
\* mutant: the ring grows without bound
NeverFull(r) == FALSE
Full(r) == Len(bus[r]) = BusCapacity

Publish(e) ==
  LET for == {r \in Receivers : e.type \in ActsOn[r]} IN
  /\ bus' = [r \in Receivers |->
       IF r \notin for \/ ~Listens(r) THEN bus[r]
       ELSE Append(IF Full(r) THEN Tail(bus[r]) ELSE bus[r], e)]
  /\ dropped' = dropped \cup {r \in for \ {"status"} : ~Listens(r) \/ Full(r)}
  /\ UNCHANGED subscribed

Receive(r) ==
  /\ bus[r] # <<>>
  /\ bus' = [bus EXCEPT ![r] = Tail(@)]
  /\ UNCHANGED <<subscribed, dropped>>

NextEvent(r) == Head(bus[r])

\* Events it ignores push a receiver's oldest event out of the ring.
Lag(r) ==
  /\ Fault
  /\ bus[r] # <<>>
  /\ bus' = [bus EXCEPT ![r] = Tail(@)]
  /\ dropped' = dropped \cup ({r} \ {"status"})
  /\ UNCHANGED <<subscribed, gitVars, dbVars, renderVars, poolVars, clusterVars>>

\* The render loop subscribes inside its task, after pipeline::spawn returned.
Subscribe ==
  /\ ~subscribed
  /\ subscribed' = TRUE
  /\ UNCHANGED <<bus, dropped, gitVars, dbVars, renderVars, poolVars,
                 clusterVars, faults>>

(***************************************************************************)
(* Git: pushes, the poller and the bridge.                                 *)
(***************************************************************************)
Push ==
  /\ origin < MaxCommits
  /\ origin' = origin + 1
  /\ UNCHANGED <<bare, busVars, dbVars, renderVars, poolVars,
                 clusterVars, faults>>

\* The first half of GitClient::fetch (ensure_cloned), also run by build_repo_map.
Clone ==
  /\ bare = None
  /\ bare' = origin
  /\ UNCHANGED <<origin, busVars, dbVars, renderVars, poolVars,
                 clusterVars, faults>>

\* mutant: only a repository without a previous head counts as moved
MovedIfUnknown(previous, current) == previous = None
Moved(previous, current) == previous # current

\* A poll cycle whose fetch succeeds, and the bridge: publish a moved head
\* only.  A fetch that fails changes nothing.
Fetch ==
  /\ bare # None
  /\ bare' = origin
  /\ IF Moved(bare, origin) THEN Publish(RepoChanged(origin)) ELSE UNCHANGED busVars
  /\ UNCHANGED <<origin, dbVars, renderVars, poolVars, clusterVars, faults>>

(***************************************************************************)
(* The apps API.                                                           *)
(***************************************************************************)
CreateApp(a) ==
  /\ a \notin apps
  /\ creates < MaxCreates
  /\ creates' = creates + 1
  /\ apps' = apps \cup {a}
  /\ row' = [row EXCEPT ![a] = NewRow]
  /\ creating' = creating \cup {a}
  /\ UNCHANGED <<gitVars, busVars, renderVars, poolVars, clusterVars, faults>>

\* mutant: create_app does not seed the render pipeline
CreateAppSilent(a) ==
  /\ a \in creating
  /\ creating' = creating \ {a}
  /\ UNCHANGED <<busVars, gitVars, apps, row, creates, renderVars, poolVars,
                 clusterVars, faults>>

CreateAppPublish(a) ==
  /\ a \in creating
  /\ creating' = creating \ {a}
  /\ Publish(AppChanged(a))
  /\ UNCHANGED <<gitVars, apps, row, creates, renderVars, poolVars, clusterVars,
                 faults>>

DeleteApp(a) ==
  /\ Fault
  /\ a \in apps
  /\ apps' = apps \ {a}
  /\ row' = [row EXCEPT ![a] = NewRow]
  /\ UNCHANGED <<creating, creates, gitVars, busVars, renderVars, poolVars,
                 clusterVars>>

SyncApp(a) ==
  /\ Fault
  /\ a \in apps
  /\ Publish(ManualSyncRequested(a, "operator"))
  /\ UNCHANGED <<gitVars, dbVars, renderVars, poolVars, clusterVars>>

\* rollback_app looks the revision up and asks for a sync like any other: the
\* manifests it loaded go no further.
RollbackApp(a) == SyncApp(a)

(***************************************************************************)
(* The render loop.                                                        *)
(***************************************************************************)
\* The revision an event asks for, None when the loop skips it: RepoChanged
\* carries one, AppChanged means the head of the bare clone.
RenderHead(e) ==
  IF e.type = "RepoChanged" THEN e.head ELSE IF e.type = "AppChanged" THEN bare ELSE None

RenderReceive ==
  LET head == RenderHead(NextEvent("render")) IN
  /\ rendering = None
  /\ Receive("render")
  /\ rendering' = IF head = None \/ apps = {} THEN None
                  ELSE [head |-> head, todo |-> apps, ready |-> FALSE, announce |-> None]
  /\ UNCHANGED <<desired, unrendered, gitVars, dbVars, poolVars, clusterVars, faults>>

Materialize ==
  /\ rendering # None /\ ~rendering.ready
  /\ rendering' = [rendering EXCEPT !.ready = TRUE]
  /\ UNCHANGED <<desired, unrendered, gitVars, busVars, dbVars, poolVars,
                 clusterVars, faults>>

\* list_applications or materialize failed: the whole call is given up.
MaterializeFails ==
  /\ Fault
  /\ rendering # None /\ ~rendering.ready
  /\ unrendered' = unrendered \cup rendering.todo
  /\ rendering' = None
  /\ UNCHANGED <<desired, gitVars, busVars, dbVars, poolVars, clusterVars>>

RenderBusy(a) ==
  rendering # None /\ rendering.ready /\ rendering.announce = None /\ a \in rendering.todo

\* The call returns when its last app is done.
Step(r) == IF r.todo = {} /\ r.announce = None THEN None ELSE r

\* mutant: the sync is requested but the store keeps the former manifests
StoreUnchanged(a, head) == desired
StorePut(a, head) == [desired EXCEPT ![a] = head]

\* renderer.render returned Ok: put_with_revision, then the announcement.
RenderOk(a) ==
  /\ RenderBusy(a)
  /\ desired' = StorePut(a, rendering.head)
  /\ unrendered' = unrendered \ {a}
  /\ rendering' = [rendering EXCEPT !.todo = @ \ {a}, !.announce = a]
  /\ UNCHANGED <<gitVars, busVars, dbVars, poolVars, clusterVars, faults>>

RenderAnnounce ==
  /\ rendering # None /\ rendering.announce # None
  /\ Publish(ManualSyncRequested(rendering.announce, "render"))
  /\ rendering' = Step([rendering EXCEPT !.announce = None])
  /\ UNCHANGED <<desired, unrendered, gitVars, dbVars, poolVars, clusterVars, faults>>

\* renderer.render returned Err: the entry stays, a failed SyncOutcome goes out.
RenderFails(a) ==
  /\ Fault
  /\ RenderBusy(a)
  /\ unrendered' = unrendered \cup {a}
  /\ rendering' = Step([rendering EXCEPT !.todo = @ \ {a}])
  /\ Publish(SyncOutcome(a, FALSE, rendering.head))
  /\ UNCHANGED <<desired, gitVars, dbVars, poolVars, clusterVars>>

(***************************************************************************)
(* Triggers into the pool.                                                 *)
(***************************************************************************)
EnqueueCoalesce(S) ==
  [a \in Apps |-> IF a \in S /\ run[a].pc = "idle" THEN [pc |-> "queued"] ELSE run[a]]

\* mutant: sync requests are ignored like the other app events
RepoTargets(e) == IF e.type = "RepoChanged" THEN apps ELSE {}
\* EventTrigger: the apps an event asks to reconcile.
Targets(e) ==
  IF e.type = "RepoChanged" THEN apps
  ELSE IF e.type = "ManualSyncRequested" THEN {e.app} ELSE {}

\* Apps whose job has read the desired state already.
Planned == {a \in Apps : run[a].pc \notin {"idle", "queued", "plan"}}

TriggerReceive ==
  LET targets == Targets(NextEvent("trigger")) IN
  /\ Receive("trigger")
  /\ run' = EnqueueCoalesce(targets)
  /\ forfeited' = forfeited \cup (targets \cap Planned)
  /\ UNCHANGED <<planned, gitVars, dbVars, renderVars, clusterVars, faults>>

\* The resolver cannot list the applications and reports none.
ResolverFails ==
  /\ Fault
  /\ Receive("trigger")
  /\ NextEvent("trigger").type = "RepoChanged"
  /\ UNCHANGED <<poolVars, gitVars, dbVars, renderVars, clusterVars>>

\* AutoHealScheduler: a tick enqueues the listed apps one after the other, and
\* ticks never end.
Heal(a) ==
  /\ AutoHeal
  /\ a \in apps
  /\ run' = EnqueueCoalesce({a})
  /\ UNCHANGED <<planned, forfeited, gitVars, busVars, dbVars, renderVars,
                 clusterVars, faults>>

(***************************************************************************)
(* A pool job: main.rs's handler, then reconcile_and_apply_app.            *)
(***************************************************************************)
Running == {a \in Apps : run[a].pc \notin {"idle", "queued"}}

\* The pool starts the handler, which looks the app up and returns if it is gone.
Dispatch(a) ==
  /\ run[a].pc = "queued"
  /\ Cardinality(Running) < MaxConcurrent
  /\ run' = [run EXCEPT ![a] = IF a \in apps THEN [pc |-> "plan"] ELSE [pc |-> "done"]]
  /\ forfeited' = IF a \in apps THEN forfeited ELSE forfeited \cup {a}
  /\ UNCHANGED <<planned, gitVars, busVars, dbVars, renderVars, clusterVars, faults>>

\* The lookup fails, and the handler returns without a pass.
DispatchFails(a) ==
  /\ Fault
  /\ run[a].pc = "queued"
  /\ Cardinality(Running) < MaxConcurrent
  /\ run' = [run EXCEPT ![a] = [pc |-> "done"]]
  /\ forfeited' = forfeited \cup {a}
  /\ UNCHANGED <<planned, gitVars, busVars, dbVars, renderVars, clusterVars>>

\* plan_only, or emit_failure for an app that was never rendered.
PlanOnly(a) ==
  /\ run[a].pc = "plan"
  /\ IF desired[a] = None
     THEN /\ run' = [run EXCEPT ![a] = [pc |-> "done"]]
          /\ Publish(SyncOutcome(a, FALSE, None))
     ELSE /\ run' = [run EXCEPT ![a] = [pc |-> "revision", change |-> desired[a] # live[a]]]
          /\ UNCHANGED busVars
  /\ planned' = [planned EXCEPT ![a] = desired[a]]
  /\ forfeited' = forfeited \ {a}
  /\ UNCHANGED <<gitVars, dbVars, renderVars, clusterVars, faults>>

\* desired_revision, a second read of the store.
ReadRevision(a) ==
  /\ run[a].pc = "revision"
  /\ run' = [run EXCEPT ![a] =
       [pc |-> "refetch", change |-> @.change, revision |-> desired[a]]]
  /\ UNCHANGED <<planned, forfeited, gitVars, busVars, dbVars, renderVars, clusterVars, faults>>

\* Without an executor for the cluster the plan is reported as a success and nothing applied.
NoExecutor(a) ==
  /\ run[a].pc = "refetch" /\ ~executor
  /\ Publish(SyncOutcome(a, TRUE, run[a].revision))
  /\ run' = [run EXCEPT ![a] = [pc |-> "done"]]
  /\ UNCHANGED <<planned, forfeited, gitVars, dbVars, renderVars, clusterVars, faults>>

\* The manifests for wave grouping, a third read.
Refetch(a) ==
  /\ run[a].pc = "refetch" /\ executor
  /\ run' = [run EXCEPT ![a] =
       [pc |-> "apply", change |-> @.change, revision |-> @.revision,
        manifests |-> desired[a]]]
  /\ UNCHANGED <<planned, forfeited, gitVars, busVars, dbVars, renderVars, clusterVars, faults>>

\* mutant: the plan's manifests are never written
ApplyNothing(a) == cluster
Applied(a) == IF run[a].change THEN [cluster EXCEPT ![a] = run[a].manifests] ELSE cluster

\* execute_waves and publish_apply_result.
ExecuteWaves(a) ==
  /\ run[a].pc = "apply"
  /\ cluster' = Applied(a)
  /\ Publish(SyncOutcome(a, TRUE, run[a].revision))
  /\ run' = [run EXCEPT ![a] = [pc |-> "done"]]
  /\ UNCHANGED <<live, executor, planned, forfeited, gitVars, dbVars, renderVars, faults>>

ExecuteFails(a) ==
  /\ Fault
  /\ run[a].pc = "apply" /\ run[a].change
  /\ Publish(SyncOutcome(a, FALSE, run[a].revision))
  /\ run' = [run EXCEPT ![a] = [pc |-> "done"]]
  /\ UNCHANGED <<planned, forfeited, gitVars, dbVars, renderVars, clusterVars>>

\* The handler has returned and the pool drops the app.
Complete(a) ==
  /\ run[a].pc = "done"
  /\ run' = [run EXCEPT ![a] = Idle]
  /\ UNCHANGED <<planned, forfeited, gitVars, busVars, dbVars, renderVars, clusterVars, faults>>

(***************************************************************************)
(* Status writer, informers, and what happens to the process and cluster.  *)
(***************************************************************************)
\* mutant: the arguments of COALESCE swapped
KeepOld(new, old) == IF old = None THEN new ELSE old
\* COALESCE(?3, last_synced_revision)
Coalesce(new, old) == IF new = None THEN old ELSE new

StatusReceive ==
  LET e == NextEvent("status") IN
  /\ Receive("status")
  /\ row' = IF e.type = "SyncOutcome" /\ e.app \in apps
            THEN [row EXCEPT ![e.app] =
                   [sync |-> IF e.success THEN "Synced" ELSE "SyncFailed",
                    revision |-> Coalesce(e.revision, @.revision)]]
            ELSE row
  /\ UNCHANGED <<apps, creating, creates, gitVars, renderVars, poolVars,
                 clusterVars, faults>>

\* The LiveStore catches up with the cluster, if informers were spawned for it.
Inform(a) ==
  /\ executor
  /\ live[a] # cluster[a]
  /\ live' = [live EXCEPT ![a] = cluster[a]]
  /\ UNCHANGED <<cluster, executor, gitVars, busVars, dbVars, renderVars, poolVars, faults>>

\* Somebody deletes the app's resource out of band.
Drift(a) ==
  /\ Fault
  /\ cluster[a] # None
  /\ cluster' = [cluster EXCEPT ![a] = None]
  /\ UNCHANGED <<live, executor, gitVars, busVars, dbVars, renderVars, poolVars>>

\* The process dies and is started again.
Restart ==
  /\ Fault
  /\ bus' = [r \in Receivers |-> <<>>]
  /\ subscribed' = FALSE /\ dropped' = {}
  /\ creating' = {}
  /\ desired' = [a \in Apps |-> None] /\ rendering' = None /\ unrendered' = {}
  /\ run' = [a \in Apps |-> Idle]
  /\ planned' = [a \in Apps |-> None] /\ forfeited' = {}
  /\ live' = [a \in Apps |-> None]
  /\ executor' \in BOOLEAN
  /\ UNCHANGED <<origin, bare, apps, row, creates, cluster>>

Git == Clone \/ Fetch
Render == RenderReceive \/ Materialize \/ RenderAnnounce \/ \E a \in Apps : RenderOk(a)
Handler(a) ==
  Dispatch(a) \/ PlanOnly(a) \/ ReadRevision(a) \/ NoExecutor(a) \/ Refetch(a)
    \/ ExecuteWaves(a) \/ Complete(a)

Next ==
  \/ Push \/ Clone \/ Fetch
  \/ Subscribe
  \/ \E r \in Receivers : Lag(r)
  \/ RenderReceive \/ Materialize \/ MaterializeFails \/ RenderAnnounce
  \/ TriggerReceive \/ ResolverFails \/ StatusReceive
  \/ \E a \in Apps :
       \/ CreateApp(a) \/ CreateAppPublish(a) \/ DeleteApp(a) \/ SyncApp(a)
       \/ RollbackApp(a)
       \/ RenderOk(a) \/ RenderFails(a)
       \/ Heal(a)
       \/ Dispatch(a) \/ DispatchFails(a) \/ PlanOnly(a) \/ ReadRevision(a)
       \/ NoExecutor(a) \/ Refetch(a)
       \/ ExecuteWaves(a) \/ ExecuteFails(a) \/ Complete(a)
       \/ Inform(a) \/ Drift(a)
  \/ Restart

Spec == Init /\ [][Next]_vars

(***************************************************************************)
(* Fairness: every task of the runtime keeps running, the poller's and the *)
(* scheduler's timers expire, watches deliver, and a call that can succeed *)
(* eventually does.  Operators, pushes and faults are free to stop.        *)
(***************************************************************************)
Fairness ==
  /\ WF_vars(Subscribe) /\ WF_vars(Git)
  /\ WF_vars(Render) /\ WF_vars(TriggerReceive) /\ WF_vars(StatusReceive)
  /\ \A a \in Apps :
       /\ WF_vars(CreateAppPublish(a)) /\ WF_vars(Heal(a))
       /\ WF_vars(Handler(a)) /\ WF_vars(Inform(a))

FairSpec == Spec /\ Fairness

-----------------------------------------------------------------------------
\* Every variable has the type of the state it stands for.
TypeOK ==
  /\ origin \in Revision /\ bare \in Revision \cup {None}
  /\ \A r \in Receivers : Len(bus[r]) <= BusCapacity
  /\ subscribed \in BOOLEAN
  /\ apps \subseteq Apps /\ creating \subseteq Apps
  /\ row \in [Apps -> [sync : {"Unknown", "Synced", "SyncFailed"},
                       revision : Revision \cup {None}]]
  /\ desired \in [Apps -> Revision \cup {None}]
  /\ rendering \in Call \cup {None}
  /\ live \in [Apps -> Revision \cup {None}]
  /\ cluster \in [Apps -> Revision \cup {None}]
  /\ executor \in BOOLEAN
  /\ planned \in [Apps -> Revision \cup {None}]
  /\ unrendered \subseteq Apps /\ forfeited \subseteq Apps
  /\ dropped \subseteq Receivers

InSeq(e, s) == \E i \in DOMAIN s : s[i] = e

\* An app that has been rendered is at the fetched head, or its render is still on
\* its way through the bus and the render loop, or it failed, or an event
\* for the render loop was lost.  A head moves once: nothing asks for it again.
RenderedOrComing ==
  \A a \in apps : (desired[a] # None /\ desired[a] # bare) =>
    \/ InSeq(RepoChanged(bare), bus["render"])
    \/ \E b \in Apps : b \in creating \/ InSeq(AppChanged(b), bus["render"])
    \/ rendering # None /\ rendering.head = bare /\ a \in rendering.todo
    \/ a \in unrendered
    \/ "render" \in dropped

\* "publish AFTER the store write so the reconcile pass sees the entry": a sync
\* the render loop asked for never meets an app without manifests.
RequestedAfterStored ==
  \A a \in Apps :
    InSeq(ManualSyncRequested(a, "render"), bus["trigger"]) => desired[a] # None

\* Coalescing loses nothing while the job is queued: the store differs from what
\* the latest plan saw only if a request or an unplanned job is on its way, or the
\* request was forfeited to a job past its plan, to a deleted app, to a lookup that failed or
\* to lag.
RequestsKept ==
  \A a \in Apps : (desired[a] # None /\ desired[a] # planned[a]) =>
    \/ rendering # None /\ rendering.announce = a
    \/ InSeq(ManualSyncRequested(a, "render"), bus["trigger"])
    \/ run[a].pc \in {"queued", "plan"}
    \/ a \in forfeited
    \/ "trigger" \in dropped

\* A created app is rendered, unless the clone was not there yet, the render
\* failed, the event was lost, or the app is deleted again.
CreatedAppRendered ==
  \A a \in Apps : (a \in creating /\ bare # None)
    ~> (desired[a] # None \/ a \notin apps \/ a \in unrendered \/ "render" \in dropped
          \/ ~subscribed)

\* "every pending reconcile will, when it runs, observe the latest desired state
\* anyway" (trigger.rs): what was rendered last ends up in the cluster, unless its client did
\* not connect when the process started.
Converges ==
  <>[](executor => \A a \in apps : desired[a] # None => cluster[a] = desired[a])

\* The row ends up saying that what was rendered last is synced, lost outcomes
\* notwithstanding.  Converges says when that is true of the cluster; in a process without
\* an executor it is said of the plan.
StatusSettles ==
  <>[](\A a \in apps : desired[a] # None =>
         row[a] = [sync |-> "Synced", revision |-> desired[a]])

\* "Apps that exist before the first poll see an empty DesiredStore until their
\* repo polls. The first poll cycle fills the cache" (pipeline.rs).
FirstPollFills ==
  \A a \in Apps : (a \in apps /\ bare # None) ~> (desired[a] # None \/ a \notin apps)
=============================================================================
