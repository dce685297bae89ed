----------------------------- MODULE Reconcile -----------------------------
(***************************************************************************)
(* Reconciler::reconcile_and_apply_app (reconcile.rs) for one app on one   *)
(* cluster, with the planner (plan.rs), wave grouping and execution        *)
(* (wave.rs), the order within a wave (kind_order.rs) and the kube applier *)
(* (applier_adapter.rs).  The render loop and the informers write the      *)
(* stores the pass reads, between any two of its reads.                    *)
(*                                                                         *)
(* A manifest is its body and its sync-wave; sets of manifests are         *)
(* functions from resource identities to manifests or None.  The sorted    *)
(* wave plan is not built: each step takes its least entry not yet done.   *)
(***************************************************************************)
EXTENDS Integers, Sequences, FiniteSets

CONSTANTS
  Refs,        \* ResourceRef: resource identities
  Priority,    \* apply_priority of a resource's kind
  Rank,        \* position in the order (kind, namespace, name)
  Bodies, Waves,
  None,        \* absent
  Renders,     \* what the render loop may put, and the cluster may hold
  MaxWrites,   \* bound: writes of the stores by others
  MaxPasses    \* bound: reconcile passes

Manifest == [body : Bodies, wave : Waves]
Manifests == [Refs -> Manifest \cup {None}]
DEFAULT_WAVE == 0

ASSUME ReconcileAssumption ==
  /\ Priority \in [Refs -> Nat]
  /\ Rank \in [Refs -> Nat]
  /\ \A r, s \in Refs : Rank[r] = Rank[s] => r = s
  /\ Waves \subseteq Int
  /\ None \notin Manifest \cup {"Apply", "Delete", "NoOp"}
  /\ Renders \subseteq Manifests
  /\ IsFiniteSet(Refs)
  /\ MaxWrites \in Nat /\ MaxPasses \in Nat

VARIABLES
  store,      \* DesiredEntry of the app: manifests and revision, or None
  live,       \* LiveStore of the app and cluster, None if not registered
  cluster,    \* what the cluster holds
  executor,   \* an executor is wired for the cluster
  pc,         \* where the pass is
  plan,       \* the Plan: Refs -> action, None for a resource without entry
  revision,   \* desired_revision read after planning
  desired, liveBodies,   \* the re-fetched manifests
  done,       \* changed entries handed to the applier so far, in order
  completed,  \* WaveExecReport::completed_waves
  expired,    \* the wave's deadline has passed
  outcomes,   \* SyncOutcomes this pass has published
  passes, writes,   \* bounds: passes started, writes of the stores by others
  planned     \* history: the manifests and the live state the plan was made from

storeVars == <<store, live, cluster, executor, writes>>
passVars == <<plan, revision, desired, liveBodies, done, completed, expired, planned>>
vars == <<storeVars, pc, passVars, outcomes, passes>>

Empty == [r \in Refs |-> None]
NoPlan == [r \in Refs |-> None]

Init ==
  /\ store = None
  /\ live \in Renders \cup {None}
  /\ cluster = IF live = None THEN Empty ELSE live
  /\ executor \in BOOLEAN
  /\ pc = "idle"
  /\ plan = NoPlan /\ revision = 0
  /\ desired = Empty /\ liveBodies = Empty
  /\ done = <<>> /\ completed = {} /\ expired = FALSE
  /\ outcomes = <<>> /\ passes = 0 /\ writes = 0
  /\ planned = [manifests |-> Empty, fresh |-> FALSE]

(***************************************************************************)
(* The writers of the two stores.                                          *)
(***************************************************************************)
Write == writes < MaxWrites /\ writes' = writes + 1

\* put_with_revision, by the render loop.
Put(m) ==
  /\ Write
  /\ store' = [manifests |-> m, revision |-> writes']
  /\ UNCHANGED <<live, cluster, executor, pc, passVars, outcomes, passes>>

\* DesiredStore::forget.
Forget ==
  /\ Write
  /\ store # None
  /\ store' = None
  /\ UNCHANGED <<live, cluster, executor, pc, passVars, outcomes, passes>>

\* LiveStore::forget_cluster.
ForgetCluster ==
  /\ Write
  /\ live # None
  /\ live' = None
  /\ UNCHANGED <<store, cluster, executor, pc, passVars, outcomes, passes>>

\* The informer of the resource's kind catches up with the cluster: upsert_one,
\* remove_one.
Inform(r) ==
  /\ live # None /\ live[r] # cluster[r]
  /\ live' = [live EXCEPT ![r] = cluster[r]]
  /\ UNCHANGED <<store, cluster, executor, writes, pc, passVars, outcomes, passes>>

(***************************************************************************)
(* The planner.                                                            *)
(***************************************************************************)
\* mutant: a body that differs is taken to be in sync
PlanByPresence(d, l) ==
  [r \in Refs |-> IF d[r] # None THEN IF l[r] # None THEN "NoOp" ELSE "Apply"
                  ELSE IF l[r] # None THEN "Delete" ELSE None]
\* plan: desired against live, by identity and body.
PlanOf(d, l) ==
  [r \in Refs |-> IF d[r] # None THEN IF d[r] = l[r] THEN "NoOp" ELSE "Apply"
                  ELSE IF l[r] # None THEN "Delete" ELSE None]

Entries == {r \in Refs : plan[r] # None}
Changed == {r \in Refs : plan[r] \in {"Apply", "Delete"}}

Outcome(success, rev) == [success |-> success, revision |-> rev]

(***************************************************************************)
(* One pass: plan_only, desired_revision, re-fetch, execute_waves, publish.*)
(***************************************************************************)
Start ==
  /\ pc \in {"idle", "end"} /\ passes < MaxPasses
  /\ pc' = "plan"
  /\ passes' = passes + 1
  /\ outcomes' = <<>>
  /\ plan' = NoPlan /\ revision' = 0 /\ desired' = Empty /\ liveBodies' = Empty
  /\ done' = <<>> /\ completed' = {} /\ expired' = FALSE
  /\ planned' = [manifests |-> Empty, fresh |-> FALSE]
  /\ UNCHANGED storeVars

\* emit_failure: the app was never rendered or the cluster is not registered.
PlanFails ==
  /\ pc = "plan"
  /\ store = None \/ live = None
  /\ outcomes' = Append(outcomes, Outcome(FALSE, None))
  /\ pc' = "end"
  /\ UNCHANGED <<storeVars, passVars, passes>>

\* mutant: success is announced with the plan, the result of the apply besides it
PlanOnlyPublishes ==
  /\ pc = "plan"
  /\ store # None /\ live # None
  /\ plan' = PlanOf(store.manifests, live)
  /\ planned' = [manifests |-> store.manifests, fresh |-> live = cluster]
  /\ outcomes' = Append(outcomes, Outcome(TRUE, store.revision))
  /\ pc' = "revision"
  /\ UNCHANGED <<storeVars, revision, desired, liveBodies, done, completed, expired, passes>>

PlanOnly ==
  /\ pc = "plan"
  /\ store # None /\ live # None
  /\ plan' = PlanOf(store.manifests, live)
  /\ planned' = [manifests |-> store.manifests, fresh |-> live = cluster]
  /\ pc' = "revision"
  /\ UNCHANGED <<storeVars, revision, desired, liveBodies, done, completed, expired,
                 outcomes, passes>>

StoreRevision == IF store = None THEN None ELSE store.revision

\* desired_revision; without an executor the plan alone is a success.
ReadRevision ==
  /\ pc = "revision"
  /\ revision' = StoreRevision
  /\ IF executor
     THEN pc' = "refetch" /\ outcomes' = outcomes
     ELSE pc' = "end" /\ outcomes' = Append(outcomes, Outcome(TRUE, StoreRevision))
  /\ UNCHANGED <<storeVars, plan, desired, liveBodies, done, completed, expired,
                 planned, passes>>

\* A store forgot the app or the cluster since the plan was made.
RefetchFails ==
  /\ pc = "refetch"
  /\ store = None \/ live = None
  /\ outcomes' = Append(outcomes, Outcome(FALSE, revision))
  /\ pc' = "end"
  /\ UNCHANGED <<storeVars, passVars, passes>>

Refetch ==
  /\ pc = "refetch"
  /\ store # None /\ live # None
  /\ desired' = store.manifests
  /\ liveBodies' = live
  /\ pc' = "waves"
  /\ UNCHANGED <<storeVars, plan, revision, done, completed, expired, planned,
                 outcomes, passes>>

\* group_into_waves: the wave of an entry, desired before live.
WaveOf(r) ==
  IF desired[r] # None THEN desired[r].wave
  ELSE IF liveBodies[r] # None THEN liveBodies[r].wave ELSE DEFAULT_WAVE

Done == {done[i] : i \in DOMAIN done}
OpenWaves == {WaveOf(r) : r \in Entries} \ completed

\* mutant: waves are taken in descending order
LastOpenWave(w) == w \in OpenWaves /\ \A v \in OpenWaves : w >= v
CurrentWave(w) == w \in OpenWaves /\ \A v \in OpenWaves : w <= v

\* sort_within_wave: applies by ascending priority, then deletes by descending.
ActionClass(r) == IF plan[r] = "Delete" THEN 1 ELSE 0
\* mutant: deletes are sorted like applies
BeforeAscending(r, s) ==
  \/ ActionClass(r) < ActionClass(s)
  \/ /\ ActionClass(r) = ActionClass(s)
     /\ \/ Priority[r] < Priority[s]
        \/ Priority[r] = Priority[s] /\ Rank[r] < Rank[s]
Before(r, s) ==
  \/ ActionClass(r) < ActionClass(s)
  \/ /\ ActionClass(r) = ActionClass(s)
     /\ \/ IF plan[r] = "Delete" THEN Priority[r] > Priority[s] ELSE Priority[r] < Priority[s]
        \/ Priority[r] = Priority[s] /\ Rank[r] < Rank[s]

ChangedIn(w) == {r \in Changed : WaveOf(r) = w}
\* mutant: the loop over the wave starts again at its first entry
LeftAll(w) == ChangedIn(w)
\* The changed entries of a wave that the applier has not seen.
Left(w) == ChangedIn(w) \ Done

\* The entry the loop over the sorted wave reaches next.
NextEntry(r, w) ==
  CurrentWave(w) /\ r \in Left(w) /\ \A s \in Left(w) \ {r} : Before(r, s)

\* manifest_for and KubeApplierAdapter::apply: what the cluster holds afterwards.
Written(r) == IF plan[r] = "Apply" THEN desired[r] ELSE None

\* An Apply entry whose resource is missing from the re-fetched manifests.
Bodiless(r) == plan[r] = "Apply" /\ desired[r] = None

Apply(r, w) ==
  /\ pc = "waves"
  /\ NextEntry(r, w)
  /\ ~Bodiless(r)
  /\ cluster' = [cluster EXCEPT ![r] = Written(r)]
  /\ done' = Append(done, r)
  /\ UNCHANGED <<store, live, executor, writes, pc, plan, revision, desired, liveBodies,
                 completed, expired, planned, outcomes, passes>>

\* mutant: a failed entry is logged and the loop goes on
ApplySkips(r, w) ==
  /\ pc = "waves"
  /\ NextEntry(r, w)
  /\ done' = Append(done, r)
  /\ UNCHANGED <<storeVars, pc, plan, revision, desired, liveBodies, completed,
                 expired, planned, outcomes, passes>>

\* The first failure ends the pass: a server or transport error, or no manifest.
ApplyFails(r, w) ==
  /\ pc = "waves"
  /\ NextEntry(r, w)
  /\ outcomes' = Append(outcomes, Outcome(FALSE, revision))
  /\ pc' = "end"
  /\ UNCHANGED <<storeVars, passVars, passes>>

\* A wave without changes: no health check.
AutoAdvance(w) ==
  /\ pc = "waves"
  /\ CurrentWave(w) /\ ChangedIn(w) = {}
  /\ completed' = completed \cup {w}
  /\ UNCHANGED <<storeVars, pc, plan, revision, desired, liveBodies, done, expired,
                 planned, outcomes, passes>>

\* Every changed entry of the wave is applied: the deadline starts.
Gate(w) ==
  /\ pc = "waves"
  /\ CurrentWave(w) /\ ChangedIn(w) # {} /\ Left(w) = {}
  /\ pc' = "gate"
  /\ expired' = FALSE
  /\ UNCHANGED <<storeVars, plan, revision, desired, liveBodies, done, completed,
                 planned, outcomes, passes>>

\* mutant: the deadline is computed anew on every poll
DeadlineMoves ==
  /\ pc = "gate" /\ ~expired
  /\ UNCHANGED vars
Deadline ==
  /\ pc = "gate" /\ ~expired
  /\ expired' = TRUE
  /\ UNCHANGED <<storeVars, pc, plan, revision, desired, liveBodies, done, completed,
                 planned, outcomes, passes>>

\* A poll that reports Healthy, in time or not: health is read before the clock.
Healthy(w) ==
  /\ pc = "gate"
  /\ CurrentWave(w)
  /\ completed' = completed \cup {w}
  /\ pc' = "waves"
  /\ expired' = FALSE
  /\ UNCHANGED <<storeVars, plan, revision, desired, liveBodies, done, planned,
                 outcomes, passes>>

\* A poll that reports anything else after the deadline.
WaveTimeout ==
  /\ pc = "gate" /\ expired
  /\ outcomes' = Append(outcomes, Outcome(FALSE, revision))
  /\ pc' = "end"
  /\ UNCHANGED <<storeVars, passVars, passes>>

PublishSuccess ==
  /\ pc = "waves" /\ OpenWaves = {}
  /\ outcomes' = Append(outcomes, Outcome(TRUE, revision))
  /\ pc' = "end"
  /\ UNCHANGED <<storeVars, passVars, passes>>

WaveNumbers == Waves \cup {DEFAULT_WAVE}

\* What the pass does by itself; that health is ever reported is up to the cluster.
Pass ==
  \/ PlanFails \/ PlanOnly \/ ReadRevision \/ RefetchFails \/ Refetch
  \/ \E r \in Refs, w \in WaveNumbers : Apply(r, w) \/ ApplyFails(r, w)
  \/ \E w \in WaveNumbers : AutoAdvance(w) \/ Gate(w)
  \/ Deadline \/ WaveTimeout \/ PublishSuccess

Next ==
  \/ \E m \in Renders : Put(m)
  \/ Forget \/ ForgetCluster
  \/ \E r \in Refs : Inform(r)
  \/ Start
  \/ Pass
  \/ \E w \in WaveNumbers : Healthy(w)

Spec == Init /\ [][Next]_vars

(***************************************************************************)
(* Fairness: a started pass keeps running; its deadlines expire and its    *)
(* calls return.  Healthy has no fairness.                                 *)
(***************************************************************************)
FairSpec == Spec /\ WF_vars(Pass)

-----------------------------------------------------------------------------
\* Every variable has the type of the state it stands for.
TypeOK ==
  /\ store = None \/ (store.manifests \in Manifests /\ store.revision \in Nat)
  /\ live \in Manifests \cup {None}
  /\ cluster \in Manifests
  /\ executor \in BOOLEAN
  /\ pc \in {"idle", "plan", "revision", "refetch", "waves", "gate", "end"}
  /\ plan \in [Refs -> {"Apply", "Delete", "NoOp", None}]
  /\ revision \in Nat \cup {None}
  /\ desired \in Manifests /\ liveBodies \in Manifests
  /\ done \in Seq(Refs) /\ Len(done) <= Cardinality(Changed)
  /\ completed \subseteq WaveNumbers
  /\ expired \in BOOLEAN
  /\ passes \in Nat /\ writes \in Nat
  /\ planned.manifests \in Manifests /\ planned.fresh \in BOOLEAN

\* The readiness gate: when an entry has been applied, every wave before its own
\* has been applied in full and reported healthy (or had nothing to change).
WaveBarrier ==
  \A r \in Done : \A s \in Entries :
    WaveOf(s) < WaveOf(r) => WaveOf(s) \in completed /\ (s \in Changed => s \in Done)

\* "bring dependencies up before dependents, tear dependents down before
\* dependencies" (kind_order.rs): within a wave no lower-priority apply follows a
\* higher one and no higher-priority delete follows a lower one.
DependencyOrder ==
  \A i, k \in DOMAIN done :
    (i < k /\ WaveOf(done[i]) = WaveOf(done[k]) /\ plan[done[i]] = plan[done[k]]) =>
      IF plan[done[i]] = "Delete" THEN Priority[done[i]] >= Priority[done[k]]
      ELSE Priority[done[i]] <= Priority[done[k]]

\* "we want a single SyncOutcome at the end that reflects both planning AND apply":
\* one outcome per pass, and success only when every change was applied once and
\* every wave completed (or no executor is wired).
OneHonestOutcome ==
  /\ pc = "end" => Len(outcomes) = 1
  /\ pc # "end" => outcomes = <<>>
  /\ \A i, k \in DOMAIN done : done[i] = done[k] => i = k
  /\ (pc = "end" /\ executor /\ outcomes[1].success) =>
       Changed = Done /\ {WaveOf(r) : r \in Entries} = completed

\* A successful pass over stores that did not move under it leaves the cluster as
\* the manifests say, whatever the plan, the waves and the order were.
SuccessConverges ==
  (/\ pc = "end" /\ executor /\ outcomes[1].success
   /\ planned.fresh /\ planned.manifests = desired)
    => cluster = desired

\* A pass ends, healthy or not.
PassEnds == (pc = "plan") ~> (pc = "end")

\* A failed entry or a timed-out wave stops the pass: the cluster changes only by
\* the next entry of a pass that is still applying, and everything that was handed
\* to the applier before is in the cluster by then.
StopsAtFirstFailure ==
  [][cluster' # cluster =>
       /\ pc = "waves" /\ outcomes = <<>>
       /\ \A s \in Done : cluster[s] = Written(s)
       /\ \E r \in Changed \ Done : \A s \in Refs \ {r} : cluster'[s] = cluster[s]]_vars

\* "Returns an error if the engine forgot to populate the manifest for an Apply
\* entry -- that's a bug in the caller" (applier_adapter.rs): every Apply entry
\* the applier reaches has a body.
EveryApplyHasBody ==
  \A r \in Refs : \A w \in WaveNumbers :
    (pc = "waves" /\ NextEntry(r, w)) => ~Bodiless(r)

\* "the right default ordering: prune first, then apply" (wave.rs): within a wave
\* no delete comes after an apply.
PruneFirst ==
  \A i, k \in DOMAIN done :
    (i < k /\ WaveOf(done[i]) = WaveOf(done[k]) /\ plan[done[i]] = "Apply")
      => plan[done[k]] = "Apply"
=============================================================================
