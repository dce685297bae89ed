-------------------------- MODULE ReconcileProofs --------------------------
(***************************************************************************)
(* Proofs about Reconcile for every set of resources, kinds, waves and     *)
(* renders, and for every interleaving of the pass with the writers of the *)
(* stores.                                                                 *)
(*                                                                         *)
(* The argument: the plan and the re-fetched manifests stand still while   *)
(* entries are applied, so the wave of an entry does too; the applied      *)
(* entries form a prefix of the sorted plan, which is said by Applied,     *)
(* PrefixOfWave, CompletedApplied and CompletedBelow together; and an entry*)
(* that is not applied yet still looks to the cluster as it did when the   *)
(* plan was made (PlanStillFits).                                          *)
(***************************************************************************)
EXTENDS Reconcile, FiniteSetTheorems, TLAPS

PlanAction == {"Apply", "Delete", "NoOp", None}
Positions == {"idle", "plan", "revision", "refetch", "waves", "gate", "end"}

Types ==
  /\ store = None \/ (store.manifests \in Manifests /\ store.revision \in Nat)
  /\ live \in Manifests \cup {None}
  /\ cluster \in Manifests
  /\ executor \in BOOLEAN
  /\ pc \in Positions
  /\ plan \in [Refs -> PlanAction]
  /\ revision \in Nat \cup {None}
  /\ desired \in Manifests /\ liveBodies \in Manifests
  /\ done \in Seq(Refs)
  /\ completed \subseteq WaveNumbers
  /\ expired \in BOOLEAN
  /\ passes \in Nat /\ writes \in Nat
  /\ planned \in [manifests : Manifests, fresh : BOOLEAN]

\* Nothing is applied before the manifests are fetched a second time.
NothingYet == pc \in {"idle", "plan", "revision", "refetch"} => done = <<>> /\ completed = {}

\* What was handed to the applier was a change of the plan, once, and is in the cluster.
Applied == \A i \in DOMAIN done : done[i] \in Changed /\ cluster[done[i]] = Written(done[i])
Once == \A i, k \in DOMAIN done : done[i] = done[k] => i = k

\* Within a wave, what was applied comes before what is left.
PrefixOfWave ==
  \A i \in DOMAIN done : \A s \in Changed \ Done :
    WaveOf(s) = WaveOf(done[i]) => Before(done[i], s)

CompletedApplied ==
  /\ \A w \in completed : \E r \in Entries : WaveOf(r) = w
  /\ \A s \in Changed : WaveOf(s) \in completed => s \in Done
CompletedBelow ==
  \A w \in completed : \A s \in Entries : WaveOf(s) < w => WaveOf(s) \in completed

\* The gate is reached when the wave is applied.
GateApplied ==
  pc = "gate" =>
    \A s \in Changed \ Done : \E t \in Entries :
      WaveOf(t) \notin completed /\ WaveOf(t) < WaveOf(s)

\* The plan still says what the manifests it was made from ask of the cluster.
PlanStillFits ==
  planned.fresh =>
    \A r \in Refs : /\ plan[r] = "Delete" => planned.manifests[r] = None
                    /\ r \notin Done => plan[r] = PlanOf(planned.manifests, cluster)[r]

Outcomes ==
  /\ pc # "end" => outcomes = <<>>
  /\ pc = "end" => Len(outcomes) = 1
  /\ (pc = "end" /\ executor /\ outcomes[1].success) =>
       /\ \A s \in Changed : s \in Done
       /\ \A r \in Entries : WaveOf(r) \in completed

PassInv ==
  /\ Types /\ NothingYet /\ Applied /\ Once /\ PrefixOfWave /\ WaveBarrier
  /\ CompletedApplied /\ CompletedBelow /\ GateApplied /\ PlanStillFits /\ Outcomes
  /\ DependencyOrder

-----------------------------------------------------------------------------
(* Facts about single resources.                                           *)
LEMMA PlanOfCases ==
  ASSUME NEW d, NEW l, NEW r \in Refs
  PROVE  /\ d[r] # None /\ d[r] = l[r] => PlanOf(d, l)[r] = "NoOp"
         /\ d[r] # None /\ d[r] # l[r] => PlanOf(d, l)[r] = "Apply"
         /\ d[r] = None /\ l[r] # None => PlanOf(d, l)[r] = "Delete"
         /\ d[r] = None /\ l[r] = None => PlanOf(d, l)[r] = None
  BY DEF PlanOf

LEMMA WaveOfInt ==
  ASSUME Types, NEW r \in Refs
  PROVE  WaveOf(r) \in WaveNumbers /\ WaveOf(r) \in Int
  <1>1. desired[r] \in Manifest \cup {None} /\ liveBodies[r] \in Manifest \cup {None}
    BY DEF Types, Manifests
  <1>2. WaveOf(r) \in WaveNumbers
    BY <1>1 DEF Manifest, WaveNumbers, WaveOf
  <1>3. Waves \subseteq Int
    BY ReconcileAssumption
  <1>4. WaveNumbers \subseteq Int
    BY <1>3 DEF WaveNumbers, DEFAULT_WAVE
  <1> QED
    BY <1>2, <1>4

LEMMA EntriesRefs ==
  ASSUME Types
  PROVE  /\ Entries \subseteq Refs /\ Changed \subseteq Entries
         /\ \A r \in Changed : plan[r] = "Apply" \/ plan[r] = "Delete"
         /\ Done \subseteq Refs
  BY ReconcileAssumption DEF Types, Entries, Changed, Done

LEMMA PlanOfType ==
  ASSUME NEW d, NEW l
  PROVE  PlanOf(d, l) \in [Refs -> PlanAction]
  BY DEF PlanOf, PlanAction

(* Before relates two changes of a wave the way kind_order.rs wants it.    *)
LEMMA BeforeOrders ==
  ASSUME Types, NEW r \in Changed, NEW s \in Changed, Before(r, s)
  PROVE  plan[r] = plan[s] =>
           IF plan[r] = "Delete" THEN Priority[r] >= Priority[s] ELSE Priority[r] <= Priority[s]
  <1>1. r \in Refs /\ s \in Refs
    BY EntriesRefs
  <1>2. Priority[r] \in Nat /\ Priority[s] \in Nat
    BY <1>1, ReconcileAssumption
  <1>3. plan[r] \in {"Apply", "Delete"} /\ plan[s] \in {"Apply", "Delete"}
    BY EntriesRefs
  <1> QED
    BY <1>2, <1>3 DEF Before, ActionClass

-----------------------------------------------------------------------------
LEMMA InitPassInv == Init => PassInv
  <1> SUFFICES ASSUME Init PROVE PassInv
    OBVIOUS
  <1>1. Types
    <2>1. Empty \in Manifests /\ NoPlan \in [Refs -> PlanAction]
      BY DEF Empty, Manifests, NoPlan, PlanAction
    <2>2. live \in Manifests \cup {None} /\ cluster \in Manifests
      BY <2>1, ReconcileAssumption DEF Init
    <2>3. done \in Seq(Refs)
      BY DEF Init
    <2> QED
      BY <2>1, <2>2, <2>3 DEF Init, Types, Positions
  <1>2. DOMAIN done = {} /\ Done = {} /\ completed = {}
    BY DEF Init, Done
  <1>3. Applied /\ Once /\ PrefixOfWave /\ WaveBarrier /\ CompletedBelow /\ DependencyOrder
    BY <1>2 DEF Applied, Once, PrefixOfWave, WaveBarrier, CompletedBelow, DependencyOrder
  <1>4. CompletedApplied
    BY <1>2 DEF CompletedApplied
  <1>5. NothingYet /\ GateApplied /\ PlanStillFits /\ Outcomes
    BY DEF Init, NothingYet, GateApplied, PlanStillFits, Outcomes
  <1> QED
    BY <1>1, <1>3, <1>4, <1>5 DEF PassInv

(* The facts about the applied prefix survive a step that leaves the plan, *)
(* the fetched manifests, the applied entries and the cluster alone.       *)
PrefixVars == <<cluster, plan, desired, liveBodies, done, completed, planned>>
PrefixInv ==
  /\ Applied /\ Once /\ PrefixOfWave /\ WaveBarrier /\ CompletedApplied /\ CompletedBelow
  /\ PlanStillFits /\ DependencyOrder

LEMMA Unmoved ==
  ASSUME PrefixInv, UNCHANGED PrefixVars
  PROVE  PrefixInv'
  <1>1. /\ Done' = Done /\ Changed' = Changed /\ Entries' = Entries
        /\ \A r : WaveOf(r)' = WaveOf(r) /\ Written(r)' = Written(r)
        /\ \A r, s : Before(r, s)' = Before(r, s)
    BY DEF PrefixVars, Done, Changed, Entries, WaveOf, Written, Before, ActionClass
  <1>2. Applied' /\ Once'
    BY <1>1 DEF PrefixInv, PrefixVars, Applied, Once
  <1>3. PrefixOfWave'
    BY <1>1 DEF PrefixInv, PrefixVars, PrefixOfWave
  <1>4. WaveBarrier'
    BY <1>1 DEF PrefixInv, PrefixVars, WaveBarrier
  <1>5. CompletedApplied' /\ CompletedBelow'
    BY <1>1 DEF PrefixInv, PrefixVars, CompletedApplied, CompletedBelow
  <1>6. PlanStillFits'
    BY <1>1 DEF PrefixInv, PrefixVars, PlanStillFits, PlanOf
  <1>7. DependencyOrder'
    BY <1>1 DEF PrefixInv, PrefixVars, DependencyOrder
  <1> QED
    BY <1>2, <1>3, <1>4, <1>5, <1>6, <1>7 DEF PrefixInv

(* While nothing has been applied, the facts about the prefix say only that*)
(* the plan fits.                                                          *)
LEMMA NothingApplied ==
  ASSUME done' = <<>>, completed' = {}, PlanStillFits'
  PROVE  PrefixInv'
  <1>1. DOMAIN done' = {} /\ Done' = {}
    BY DEF Done
  <1> QED
    BY <1>1 DEF PrefixInv, Applied, Once, PrefixOfWave, WaveBarrier, CompletedApplied,
                CompletedBelow, DependencyOrder

LEMMA PassInvParts ==
  PassInv <=> Types /\ NothingYet /\ PrefixInv /\ GateApplied /\ Outcomes
  BY DEF PassInv, PrefixInv

(* The gate stands where it stood.                                         *)
LEMMA GateUnmoved ==
  ASSUME GateApplied, UNCHANGED PrefixVars, pc' = pc \/ pc' # "gate"
  PROVE  GateApplied'
  <1>1. /\ Done' = Done /\ Changed' = Changed /\ Entries' = Entries
        /\ \A r : WaveOf(r)' = WaveOf(r)
    BY DEF PrefixVars, Done, Changed, Entries, WaveOf
  <1> QED
    BY <1>1 DEF GateApplied, PrefixVars

LEMMA OutcomesUnmoved ==
  ASSUME Outcomes, UNCHANGED PrefixVars, UNCHANGED <<pc, outcomes, executor>>
  PROVE  Outcomes'
  <1>1. /\ Done' = Done /\ Changed' = Changed /\ Entries' = Entries
        /\ \A r : WaveOf(r)' = WaveOf(r)
    BY DEF PrefixVars, Done, Changed, Entries, WaveOf
  <1> QED
    BY <1>1 DEF Outcomes, PrefixVars

-----------------------------------------------------------------------------
(* The writers of the stores: they move nothing the pass keeps.            *)
LEMMA WritersPreserve ==
  ASSUME PassInv,
         \/ \E m \in Renders : Put(m)
         \/ Forget
         \/ ForgetCluster
         \/ \E r \in Refs : Inform(r)
         \/ UNCHANGED vars
  PROVE  PassInv'
  <1>1. Types /\ NothingYet /\ PrefixInv /\ GateApplied /\ Outcomes
    BY PassInvParts
  <1>2. UNCHANGED <<cluster, executor, pc, passVars, outcomes, passes>>
    BY DEF Put, Forget, ForgetCluster, Inform, vars, storeVars
  <1>3. Types'
    <2>1. CASE \E m \in Renders : Put(m)
      <3>1. PICK m \in Renders : Put(m)
        BY <2>1
      <3>2. m \in Manifests /\ writes' \in Nat
        BY <1>1, <3>1, ReconcileAssumption DEF Put, Write, Types
      <3>3. store'.manifests \in Manifests /\ store'.revision \in Nat
        BY <3>1, <3>2 DEF Put
      <3> QED
        BY <1>1, <1>2, <3>1, <3>2, <3>3 DEF Types, passVars, Put
    <2>2. CASE Forget \/ ForgetCluster
      BY <1>1, <1>2, <2>2 DEF Types, passVars, Forget, ForgetCluster, Write
    <2>3. CASE \E r \in Refs : Inform(r)
      <3>1. PICK r \in Refs : Inform(r)
        BY <2>3
      <3>2. live' \in Manifests
        BY <1>1, <3>1 DEF Inform, Types, Manifests
      <3> QED
        BY <1>1, <1>2, <3>1, <3>2 DEF Types, passVars, Inform
    <2>4. CASE UNCHANGED vars
      BY <1>1, <2>4 DEF Types, vars, storeVars, passVars
    <2> QED
      BY <2>1, <2>2, <2>3, <2>4
  <1>4. UNCHANGED PrefixVars
    BY <1>2 DEF PrefixVars, passVars
  <1>5. PrefixInv' /\ GateApplied' /\ Outcomes'
    BY <1>1, <1>2, <1>4, Unmoved, GateUnmoved, OutcomesUnmoved
  <1>6. NothingYet'
    BY <1>1, <1>2 DEF NothingYet, passVars
  <1> QED
    BY <1>3, <1>5, <1>6, PassInvParts DEF PassInv, PrefixInv
-----------------------------------------------------------------------------
(* The steps of a pass before anything is applied.                         *)
LEMMA StartPreserves ==
  ASSUME PassInv, Start
  PROVE  PassInv'
  <1>1. Types
    BY PassInvParts
  <1>2. Types'
    <2>1. Empty \in Manifests /\ NoPlan \in [Refs -> PlanAction]
      BY DEF Empty, Manifests, NoPlan, PlanAction
    <2>2. done' \in Seq(Refs) /\ passes' \in Nat
      BY <1>1 DEF Start, Types
    <2>3. UNCHANGED <<store, live, cluster, executor, writes>>
      BY DEF Start, storeVars
    <2> QED
      BY <1>1, <2>1, <2>2, <2>3 DEF Start, Types, Positions
  <1>3. PlanStillFits'
    BY DEF Start, PlanStillFits
  <1>4. PrefixInv'
    BY <1>3, NothingApplied DEF Start
  <1>5. NothingYet' /\ GateApplied' /\ Outcomes'
    BY DEF Start, NothingYet, GateApplied, Outcomes
  <1> QED
    BY <1>2, <1>4, <1>5 DEF PassInv, PrefixInv

LEMMA PlanOnlyPreserves ==
  ASSUME PassInv, PlanOnly
  PROVE  PassInv'
  <1>1. Types /\ NothingYet /\ PrefixInv /\ Outcomes
    BY PassInvParts
  <1>2. done = <<>> /\ completed = {} /\ done' = <<>> /\ completed' = {}
    BY <1>1 DEF NothingYet, PlanOnly
  <1>3. store.manifests \in Manifests /\ live \in Manifests
    BY <1>1 DEF PlanOnly, Types
  <1>4. Types'
    <2>1. plan' \in [Refs -> PlanAction]
      BY PlanOfType DEF PlanOnly
    <2>2. planned' \in [manifests : Manifests, fresh : BOOLEAN]
      BY <1>3 DEF PlanOnly
    <2>3. UNCHANGED <<store, live, cluster, executor, writes>>
      BY DEF PlanOnly, storeVars
    <2> QED
      BY <1>1, <2>1, <2>2, <2>3 DEF PlanOnly, Types, Positions
  <1>5. PlanStillFits'
    <2> SUFFICES ASSUME planned'.fresh, NEW r \in Refs
                 PROVE  /\ plan'[r] = "Delete" => planned'.manifests[r] = None
                        /\ plan'[r] = PlanOf(planned'.manifests, cluster')[r]
      BY DEF PlanStillFits, PlanOf
    <2>1. live = cluster /\ cluster' = cluster /\ planned'.manifests = store.manifests
      BY DEF PlanOnly, storeVars
    <2> QED
      BY <2>1 DEF PlanOnly, PlanOf
  <1>6. PrefixInv'
    BY <1>2, <1>5, NothingApplied
  <1>7. NothingYet' /\ GateApplied' /\ Outcomes'
    BY <1>1, <1>2 DEF PlanOnly, NothingYet, GateApplied, Outcomes
  <1> QED
    BY <1>4, <1>6, <1>7 DEF PassInv, PrefixInv

(* Reading the revision and fetching the manifests again leave the plan.   *)
LEMMA ReadsPreserve ==
  ASSUME PassInv, ReadRevision \/ Refetch
  PROVE  PassInv'
  <1>1. Types /\ NothingYet /\ PrefixInv /\ Outcomes
    BY PassInvParts
  <1>2. done = <<>> /\ completed = {} /\ done' = <<>> /\ completed' = {}
    BY <1>1 DEF NothingYet, ReadRevision, Refetch
  <1>3. UNCHANGED <<store, live, cluster, executor, writes, plan, planned, passes, expired>>
    BY DEF ReadRevision, Refetch, storeVars
  <1>4. Types'
    <2>1. CASE ReadRevision
      <3>1. revision' \in Nat \cup {None}
        BY <1>1, <2>1 DEF ReadRevision, StoreRevision, Types
      <3> QED
        BY <1>1, <1>3, <2>1, <3>1 DEF ReadRevision, Types, Positions
    <2>2. CASE Refetch
      <3>1. desired' \in Manifests /\ liveBodies' \in Manifests
        BY <1>1, <2>2 DEF Refetch, Types
      <3> QED
        BY <1>1, <1>3, <2>2, <3>1 DEF Refetch, Types, Positions
    <2> QED
      BY <2>1, <2>2
  <1>5. PlanStillFits'
    BY <1>1, <1>2, <1>3 DEF PrefixInv, PlanStillFits, PlanOf, Done
  <1>6. PrefixInv'
    BY <1>2, <1>5, NothingApplied
  <1>7. NothingYet' /\ GateApplied'
    BY <1>2 DEF ReadRevision, Refetch, NothingYet, GateApplied
  <1>8. Outcomes'
    <2>1. CASE Refetch
      BY <1>1, <2>1 DEF Refetch, Outcomes
    <2>2. CASE ReadRevision /\ executor
      BY <1>1, <2>2 DEF ReadRevision, Outcomes
    <2>3. CASE ReadRevision /\ ~executor
      BY <1>1, <1>3, <2>3 DEF ReadRevision, Outcomes
    <2> QED
      BY <1>1, <2>1, <2>2, <2>3 DEF Types
  <1> QED
    BY <1>4, <1>6, <1>7, <1>8 DEF PassInv, PrefixInv

(* Every way a pass ends with a failure publishes it once and stops.       *)
LEMMA FailuresPreserve ==
  ASSUME PassInv,
         \/ PlanFails
         \/ RefetchFails
         \/ \E r \in Refs, w \in WaveNumbers : ApplyFails(r, w)
         \/ WaveTimeout
  PROVE  PassInv'
  <1>1. Types /\ NothingYet /\ PrefixInv /\ GateApplied /\ Outcomes
    BY PassInvParts
  <1>2. /\ UNCHANGED <<storeVars, passVars, passes>>
        /\ pc # "end" /\ pc' = "end"
        /\ \E rev : outcomes' = Append(outcomes, Outcome(FALSE, rev))
    BY DEF PlanFails, RefetchFails, ApplyFails, WaveTimeout
  <1>3. Types'
    BY <1>1, <1>2 DEF Types, Positions, storeVars, passVars
  <1>4. PrefixInv' /\ GateApplied'
    BY <1>1, <1>2, Unmoved, GateUnmoved DEF PrefixVars, storeVars, passVars
  <1>5. NothingYet'
    BY <1>2 DEF NothingYet
  <1>6. Outcomes'
    BY <1>1, <1>2 DEF Outcomes, Outcome
  <1> QED
    BY <1>3, <1>4, <1>5, <1>6 DEF PassInv, PrefixInv
-----------------------------------------------------------------------------
(* Applying the least entry that is left of the current wave: everything   *)
(* applied before it in the wave sorts before it, everything left after.   *)
LEMMA ApplyPreserves ==
  ASSUME PassInv, NEW r \in Refs, NEW w \in WaveNumbers, Apply(r, w)
  PROVE  PassInv'
  <1>1. Types /\ NothingYet /\ PrefixInv /\ Outcomes
    BY PassInvParts
  <1>2. /\ UNCHANGED <<store, live, executor, writes, pc, plan, revision, desired,
                       liveBodies, completed, expired, planned, outcomes, passes>>
        /\ pc = "waves"
        /\ cluster' = [cluster EXCEPT ![r] = Written(r)]
        /\ done' = Append(done, r)
    BY DEF Apply
  <1>3. /\ Changed' = Changed /\ Entries' = Entries
        /\ \A s : WaveOf(s)' = WaveOf(s) /\ Written(s)' = Written(s)
        /\ \A s, t : Before(s, t)' = Before(s, t)
    BY <1>2 DEF Changed, Entries, WaveOf, Written, Before, ActionClass
  <1>4. /\ done \in Seq(Refs) /\ DOMAIN done = 1 .. Len(done)
        /\ DOMAIN done' = 1 .. Len(done) + 1 /\ done'[Len(done) + 1] = r
        /\ \A i \in DOMAIN done : done'[i] = done[i]
        /\ \A i \in DOMAIN done' : i \in DOMAIN done \/ i = Len(done) + 1
    BY <1>1, <1>2 DEF Types
  <1>5. Done' = Done \cup {r}
    BY <1>4 DEF Done
  <1>6. /\ r \in Changed /\ r \notin Done /\ WaveOf(r) = w
        /\ \A s \in Changed \ Done : s # r /\ WaveOf(s) = w => Before(r, s)
    BY DEF Apply, NextEntry, Left, ChangedIn
  <1>7. \A s \in Entries : WaveOf(s) \notin completed => w <= WaveOf(s)
    BY DEF Apply, NextEntry, CurrentWave, OpenWaves
  <1>8. w \notin completed
    BY DEF Apply, NextEntry, CurrentWave, OpenWaves
  <1>9. Types'
    <2>1. Written(r) \in Manifest \cup {None}
      BY <1>1 DEF Written, Types, Manifests
    <2>2. cluster' \in Manifests
      BY <1>1, <1>2, <2>1 DEF Types, Manifests
    <2>3. done' \in Seq(Refs)
      BY <1>2, <1>4
    <2> QED
      BY <1>1, <1>2, <2>2, <2>3 DEF Types
  <1>10. Applied'
    <2>1. cluster'[r] = Written(r) /\ \A s \in Refs \ {r} : cluster'[s] = cluster[s]
      BY <1>1, <1>2 DEF Types, Manifests
    <2>2. \A i \in DOMAIN done : done[i] \in Refs /\ done[i] # r
      BY <1>4, <1>6 DEF Done
    <2>3. \A i \in DOMAIN done : done[i] \in Changed /\ cluster[done[i]] = Written(done[i])
      BY <1>1 DEF PrefixInv, Applied
    <2> QED
      BY <1>3, <1>4, <1>6, <2>1, <2>2, <2>3 DEF Applied
  <1>11. Once'
    <2>1. \A i \in DOMAIN done : done[i] # r
      BY <1>6 DEF Done
    <2> QED
      BY <1>1, <1>4, <2>1 DEF PrefixInv, Once
  <1>12. PrefixOfWave'
    <2> SUFFICES ASSUME NEW i \in DOMAIN done', NEW s \in Changed \ Done', 
                        WaveOf(s) = WaveOf(done'[i])
                 PROVE  Before(done'[i], s)
      BY <1>3 DEF PrefixOfWave
    <2>1. s \in Changed \ Done /\ s # r
      BY <1>5
    <2>2. CASE i \in DOMAIN done
      BY <1>1, <1>4, <2>1, <2>2 DEF PrefixInv, PrefixOfWave
    <2>3. CASE i = Len(done) + 1
      BY <1>4, <1>6, <2>1, <2>3
    <2> QED
      BY <1>4, <2>2, <2>3
  <1>13. WaveBarrier'
    <2> SUFFICES ASSUME NEW q \in Done', NEW s \in Entries, WaveOf(s) < WaveOf(q)
                 PROVE  WaveOf(s) \in completed /\ (s \in Changed => s \in Done)
      BY <1>2, <1>3, <1>5 DEF WaveBarrier
    <2>1. CASE q \in Done
      BY <1>1, <2>1 DEF PrefixInv, WaveBarrier
    <2>2. CASE q = r
      <3>1. s \in Refs
        BY <1>1, EntriesRefs
      <3>2. WaveOf(s) \in Int /\ WaveOf(r) \in Int
        BY <1>1, <3>1, WaveOfInt
      <3>3. WaveOf(s) \in completed
        BY <1>6, <1>7, <2>2, <3>2
      <3> QED
        BY <1>1, <3>3 DEF PrefixInv, CompletedApplied
    <2> QED
      BY <1>5, <2>1, <2>2
  <1>14. CompletedApplied' /\ CompletedBelow'
    BY <1>1, <1>2, <1>3, <1>5 DEF PrefixInv, CompletedApplied, CompletedBelow
  <1>15. PlanStillFits'
    <2> SUFFICES ASSUME planned.fresh, NEW s \in Refs
                 PROVE  /\ plan[s] = "Delete" => planned.manifests[s] = None
                        /\ s \notin Done' => plan[s] = PlanOf(planned.manifests, cluster')[s]
      BY <1>2 DEF PlanStillFits, PlanOf
    <2>1. /\ plan[s] = "Delete" => planned.manifests[s] = None
          /\ s \notin Done => plan[s] = PlanOf(planned.manifests, cluster)[s]
      BY <1>1 DEF PrefixInv, PlanStillFits
    <2>2. s # r => cluster'[s] = cluster[s]
      BY <1>1, <1>2 DEF Types, Manifests
    <2> QED
      BY <1>5, <2>1, <2>2 DEF PlanOf
  <1>16. DependencyOrder'
    <2> SUFFICES ASSUME NEW i \in DOMAIN done', NEW k \in DOMAIN done', i < k,
                        WaveOf(done'[i]) = WaveOf(done'[k]), plan[done'[i]] = plan[done'[k]]
                 PROVE  IF plan[done'[i]] = "Delete"
                        THEN Priority[done'[i]] >= Priority[done'[k]]
                        ELSE Priority[done'[i]] <= Priority[done'[k]]
      BY <1>2, <1>3 DEF DependencyOrder
    <2>1. i \in DOMAIN done
      BY <1>4
    <2>2. CASE k \in DOMAIN done
      BY <1>1, <1>4, <2>1, <2>2 DEF PrefixInv, DependencyOrder
    <2>3. CASE k = Len(done) + 1
      <3>1. done'[i] = done[i] /\ done'[k] = r
        BY <1>4, <2>1, <2>3
      <3>2. Before(done[i], r)
        BY <1>1, <1>6, <2>1, <3>1 DEF PrefixInv, PrefixOfWave
      <3>3. done[i] \in Changed
        BY <1>1, <2>1 DEF PrefixInv, Applied
      <3> QED
        BY <1>1, <1>6, <3>1, <3>2, <3>3, BeforeOrders
    <2> QED
      BY <1>4, <2>2, <2>3
  <1>17. NothingYet' /\ GateApplied' /\ Outcomes'
    BY <1>1, <1>2 DEF NothingYet, GateApplied, Outcomes
  <1> QED
    BY <1>9, <1>10, <1>11, <1>12, <1>13, <1>14, <1>15, <1>16, <1>17 DEF PassInv
-----------------------------------------------------------------------------
(* Completing the least open wave, when all its changes are applied.       *)
LEMMA CompletePreserves ==
  ASSUME PassInv, NEW w \in WaveNumbers, CurrentWave(w), Left(w) = {},
         completed' = completed \cup {w},
         UNCHANGED <<storeVars, plan, revision, desired, liveBodies, done, planned,
                     outcomes, passes>>,
         pc \in {"waves", "gate"}, pc' = "waves", expired' \in BOOLEAN
  PROVE  PassInv'
  <1>1. Types /\ NothingYet /\ PrefixInv /\ Outcomes
    BY PassInvParts
  <1>2. /\ Done' = Done /\ Changed' = Changed /\ Entries' = Entries
        /\ \A s : WaveOf(s)' = WaveOf(s) /\ Written(s)' = Written(s)
        /\ \A s, t : Before(s, t)' = Before(s, t)
    BY DEF Done, Changed, Entries, WaveOf, Written, Before, ActionClass
  <1>3. cluster' = cluster /\ executor' = executor
    BY DEF storeVars
  <1>4. /\ \E r \in Entries : WaveOf(r) = w
        /\ \A s \in Entries : WaveOf(s) \notin completed => w <= WaveOf(s)
        /\ \A s \in Changed : WaveOf(s) = w => s \in Done
    BY DEF CurrentWave, OpenWaves, Left, ChangedIn
  <1>5. Types'
    BY <1>1 DEF Types, Positions, storeVars
  <1>6. Applied' /\ Once' /\ PrefixOfWave'
    BY <1>1, <1>2, <1>3 DEF PrefixInv, Applied, Once, PrefixOfWave
  <1>7. WaveBarrier'
    BY <1>1, <1>2 DEF PrefixInv, WaveBarrier
  <1>8. CompletedApplied'
    BY <1>1, <1>2, <1>4 DEF PrefixInv, CompletedApplied
  <1>9. CompletedBelow'
    <2> SUFFICES ASSUME NEW v \in completed', NEW s \in Entries, WaveOf(s) < v
                 PROVE  WaveOf(s) \in completed'
      BY <1>2 DEF CompletedBelow
    <2>1. CASE v \in completed
      BY <1>1, <2>1 DEF PrefixInv, CompletedBelow
    <2>2. CASE v = w
      <3>1. PICK r \in Entries : WaveOf(r) = w
        BY <1>4
      <3>2. WaveOf(s) \in Int /\ w \in Int
        BY <1>1, <3>1, EntriesRefs, WaveOfInt
      <3> QED
        BY <1>4, <2>2, <3>2
    <2> QED
      BY <2>1, <2>2
  <1>10. PlanStillFits'
    BY <1>1, <1>2, <1>3 DEF PrefixInv, PlanStillFits, PlanOf
  <1>11. DependencyOrder'
    BY <1>1, <1>2 DEF PrefixInv, DependencyOrder
  <1>12. NothingYet' /\ GateApplied' /\ Outcomes'
    BY <1>1 DEF NothingYet, GateApplied, Outcomes
  <1> QED
    BY <1>5, <1>6, <1>7, <1>8, <1>9, <1>10, <1>11, <1>12 DEF PassInv

LEMMA AutoAdvancePreserves ==
  ASSUME PassInv, NEW w \in WaveNumbers, AutoAdvance(w)
  PROVE  PassInv'
  <1>1. Left(w) = {} /\ CurrentWave(w) /\ pc = "waves" /\ pc' = "waves"
    BY DEF AutoAdvance, Left
  <1>2. expired' \in BOOLEAN
    BY DEF AutoAdvance, PassInv, Types
  <1> QED
    BY <1>1, <1>2, CompletePreserves DEF AutoAdvance

(* No wave has opened and no change was made since the gate was reached, so*)
(* the current wave is the one whose changes are applied.                  *)
LEMMA HealthyPreserves ==
  ASSUME PassInv, NEW w \in WaveNumbers, Healthy(w)
  PROVE  PassInv'
  <1>1. Types /\ GateApplied /\ pc = "gate" /\ CurrentWave(w)
    BY PassInvParts DEF Healthy
  <1>2. Left(w) = {}
    <2> SUFFICES ASSUME NEW s \in Left(w) PROVE FALSE
      OBVIOUS
    <2>1. s \in Changed \ Done /\ WaveOf(s) = w
      BY DEF Left, ChangedIn
    <2>2. PICK t \in Entries : WaveOf(t) \notin completed /\ WaveOf(t) < WaveOf(s)
      BY <1>1, <2>1 DEF GateApplied
    <2>3. w <= WaveOf(t)
      BY <1>1, <2>2 DEF CurrentWave, OpenWaves
    <2>4. WaveOf(t) \in Int /\ WaveOf(s) \in Int
      BY <1>1, <2>1, <2>2, EntriesRefs, WaveOfInt
    <2> QED
      BY <2>1, <2>2, <2>3, <2>4
  <1> QED
    BY <1>1, <1>2, CompletePreserves DEF Healthy

LEMMA GatePreserves ==
  ASSUME PassInv, NEW w \in WaveNumbers, Gate(w)
  PROVE  PassInv'
  <1>1. Types /\ NothingYet /\ PrefixInv /\ Outcomes
    BY PassInvParts
  <1>2. UNCHANGED PrefixVars /\ UNCHANGED <<storeVars, revision, outcomes, passes>>
    BY DEF Gate, PrefixVars, storeVars
  <1>3. Types'
    BY <1>1, <1>2 DEF Types, Gate, Positions, storeVars, PrefixVars
  <1>4. PrefixInv'
    BY <1>1, <1>2, Unmoved
  <1>5. GateApplied'
    <2>1. /\ Done' = Done /\ Changed' = Changed /\ Entries' = Entries
          /\ \A r : WaveOf(r)' = WaveOf(r)
      BY <1>2 DEF PrefixVars, Done, Changed, Entries, WaveOf
    <2> SUFFICES ASSUME NEW s \in Changed \ Done
                 PROVE  \E t \in Entries : WaveOf(t) \notin completed /\ WaveOf(t) < WaveOf(s)
      BY <1>2, <2>1 DEF GateApplied, PrefixVars
    <2>2. PICK t \in Entries : WaveOf(t) = w /\ w \notin completed
      BY DEF Gate, CurrentWave, OpenWaves
    <2>3. s \in Entries /\ WaveOf(s) # w
      BY <1>1, EntriesRefs DEF Gate, Left, ChangedIn
    <2>4. WaveOf(s) \notin completed
      BY <1>1 DEF PrefixInv, CompletedApplied
    <2>5. w <= WaveOf(s)
      BY <2>3, <2>4 DEF Gate, CurrentWave, OpenWaves
    <2>6. WaveOf(t) \in Int /\ WaveOf(s) \in Int
      BY <1>1, <2>2, <2>3, EntriesRefs, WaveOfInt
    <2> QED
      BY <2>2, <2>3, <2>5, <2>6
  <1>6. NothingYet' /\ Outcomes'
    BY <1>1, <1>2 DEF Gate, NothingYet, Outcomes
  <1> QED
    BY <1>3, <1>4, <1>5, <1>6 DEF PassInv, PrefixInv

LEMMA DeadlinePreserves ==
  ASSUME PassInv, Deadline
  PROVE  PassInv'
  <1>1. Types /\ NothingYet /\ PrefixInv /\ GateApplied /\ Outcomes
    BY PassInvParts
  <1>2. UNCHANGED PrefixVars /\ UNCHANGED <<storeVars, pc, revision, outcomes, passes>>
    BY DEF Deadline, PrefixVars, storeVars
  <1>3. Types'
    BY <1>1, <1>2 DEF Types, Deadline, storeVars, PrefixVars
  <1>4. PrefixInv' /\ GateApplied' /\ Outcomes'
    BY <1>1, <1>2, Unmoved, GateUnmoved, OutcomesUnmoved DEF storeVars
  <1>5. NothingYet'
    BY <1>2 DEF Deadline, NothingYet
  <1> QED
    BY <1>3, <1>4, <1>5 DEF PassInv, PrefixInv

(* No wave is open: every entry's wave is completed, hence applied.        *)
LEMMA PublishSuccessPreserves ==
  ASSUME PassInv, PublishSuccess
  PROVE  PassInv'
  <1>1. Types /\ NothingYet /\ PrefixInv /\ GateApplied /\ Outcomes
    BY PassInvParts
  <1>2. UNCHANGED PrefixVars /\ UNCHANGED <<storeVars, passVars, passes>>
    BY DEF PublishSuccess, PrefixVars, storeVars, passVars
  <1>3. Types'
    BY <1>1, <1>2 DEF Types, PublishSuccess, Positions, storeVars, passVars
  <1>4. PrefixInv' /\ GateApplied'
    BY <1>1, <1>2, Unmoved, GateUnmoved DEF PublishSuccess
  <1>5. \A r \in Entries : WaveOf(r) \in completed
    BY DEF PublishSuccess, OpenWaves
  <1>6. \A s \in Changed : s \in Done
    BY <1>1, <1>5, EntriesRefs DEF PrefixInv, CompletedApplied
  <1>7. Outcomes'
    <2>1. /\ Done' = Done /\ Changed' = Changed /\ Entries' = Entries
          /\ \A r : WaveOf(r)' = WaveOf(r)
      BY <1>2 DEF PrefixVars, Done, Changed, Entries, WaveOf
    <2>2. pc' = "end" /\ Len(outcomes') = 1
      BY <1>1 DEF Outcomes, PublishSuccess
    <2> QED
      BY <1>2, <1>5, <1>6, <2>1, <2>2 DEF Outcomes, PrefixVars
  <1>8. NothingYet'
    BY DEF PublishSuccess, NothingYet
  <1> QED
    BY <1>3, <1>4, <1>7, <1>8 DEF PassInv, PrefixInv
-----------------------------------------------------------------------------
LEMMA NextPassInv ==
  ASSUME PassInv, [Next]_vars
  PROVE  PassInv'
  <1>1. CASE \/ \E m \in Renders : Put(m)
             \/ Forget
             \/ ForgetCluster
             \/ \E r \in Refs : Inform(r)
             \/ UNCHANGED vars
    BY <1>1, WritersPreserve
  <1>2. CASE Start
    BY <1>2, StartPreserves
  <1>3. CASE PlanOnly
    BY <1>3, PlanOnlyPreserves
  <1>4. CASE ReadRevision \/ Refetch
    BY <1>4, ReadsPreserve
  <1>5. CASE \/ PlanFails
             \/ RefetchFails
             \/ \E r \in Refs, w \in WaveNumbers : ApplyFails(r, w)
             \/ WaveTimeout
    BY <1>5, FailuresPreserve
  <1>6. CASE \E r \in Refs, w \in WaveNumbers : Apply(r, w)
    BY <1>6, ApplyPreserves
  <1>7. CASE \E w \in WaveNumbers : AutoAdvance(w) \/ Gate(w) \/ Healthy(w)
    BY <1>7, AutoAdvancePreserves, GatePreserves, HealthyPreserves
  <1>8. CASE Deadline
    BY <1>8, DeadlinePreserves
  <1>9. CASE PublishSuccess
    BY <1>9, PublishSuccessPreserves
  <1> QED
    BY <1>1, <1>2, <1>3, <1>4, <1>5, <1>6, <1>7, <1>8, <1>9 DEF Next, Pass

(* The inductive invariant holds of every run of the reconciler.           *)
THEOREM PassInvariant == Spec => []PassInv
  <1>1. PassInv /\ [Next]_vars => PassInv'
    BY NextPassInv
  <1> QED
    BY InitPassInv, <1>1, PTL DEF Spec

(* The applied entries are distinct changes of the plan, so they are no    *)
(* more than the plan has.                                                 *)
LEMMA DoneBounded ==
  ASSUME PassInv
  PROVE  Len(done) <= Cardinality(Changed)
  <1>1. done \in Seq(Refs) /\ Applied /\ Once
    BY DEF PassInv, Types
  <1>2. Len(done) \in Nat /\ DOMAIN done = 1 .. Len(done)
    BY <1>1
  <1>3. done \in Injection(1 .. Len(done), Changed)
    <2>1. done \in [1 .. Len(done) -> Changed]
      BY <1>1, <1>2 DEF Applied
    <2> QED
      BY <1>1, <1>2, <2>1 DEF Once, Injection, IsInjective
  <1>4. IsFiniteSet(Changed)
    <2>1. Changed \subseteq Refs
      BY DEF Changed
    <2> QED
      BY <2>1, FS_Subset, ReconcileAssumption
  <1>5. Cardinality(1 .. Len(done)) <= Cardinality(Changed)
    BY <1>3, <1>4, FS_Injection DEF ExistsInjection
  <1>6. Cardinality(1 .. Len(done)) = Len(done)
    <2> DEFINE n == Len(done)
    <2>1. n \in Int /\ 1 \in Int
      BY <1>2
    <2> HIDE DEF n
    <2>2. Cardinality(1 .. n) = IF 1 > n THEN 0 ELSE n - 1 + 1
      BY <2>1, FS_Interval, Zenon
    <2>3. n \in Nat
      BY <1>2 DEF n
    <2>4. Cardinality(1 .. n) = n
      BY <2>2, <2>3
    <2> QED
      BY <2>4 DEF n
  <1> QED
    BY <1>5, <1>6

(* Every variable keeps its type, and the applier is never handed more     *)
(* entries than the plan changes.                                          *)
THEOREM ReconcileTypes == Spec => []TypeOK
  <1>1. PassInv => TypeOK
    BY DoneBounded DEF PassInv, Types, TypeOK, PlanAction, Positions
  <1> QED
    BY <1>1, PassInvariant, PTL

(* The readiness gate of execute_waves: whatever the renders and the       *)
(* informers do under the pass, no entry is applied before every earlier   *)
(* wave is applied in full and healthy.                                    *)
THEOREM WavesGated == Spec => []WaveBarrier
  <1>1. PassInv => WaveBarrier
    BY DEF PassInv
  <1> QED
    BY <1>1, PassInvariant, PTL

(* sort_within_wave: dependencies come up before dependents and go down    *)
(* after them, for every assignment of priorities to kinds.                *)
THEOREM DependenciesOrdered == Spec => []DependencyOrder
  <1>1. PassInv => DependencyOrder
    BY DEF PassInv
  <1> QED
    BY <1>1, PassInvariant, PTL

(* A pass publishes one SyncOutcome, and success means that every change   *)
(* of the plan was applied and every wave completed.                       *)
THEOREM OutcomeHonest == Spec => []OneHonestOutcome
  <1>1. PassInv => OneHonestOutcome
    <2> SUFFICES ASSUME PassInv PROVE OneHonestOutcome
      OBVIOUS
    <2>1. Types /\ Applied /\ Once /\ CompletedApplied /\ Outcomes
      BY DEF PassInv
    <2>2. Done \subseteq Changed
      BY <2>1 DEF Applied, Done
    <2>3. (pc = "end" /\ executor /\ outcomes[1].success) =>
            Changed = Done /\ {WaveOf(r) : r \in Entries} = completed
      BY <2>1, <2>2 DEF CompletedApplied, Outcomes
    <2> QED
      BY <2>1, <2>3 DEF Once, Outcomes, OneHonestOutcome
  <1> QED
    BY <1>1, PassInvariant, PTL

(* A successful pass that planned from a faithful live store and applied   *)
(* the manifests it planned leaves the cluster as they say.                *)
THEOREM SuccessMeansConverged == Spec => []SuccessConverges
  <1>1. PassInv => SuccessConverges
    <2> SUFFICES ASSUME PassInv, pc = "end", executor, outcomes[1].success,
                        planned.fresh, planned.manifests = desired
                 PROVE  cluster = desired
      BY DEF SuccessConverges
    <2>1. Types /\ Applied /\ PlanStillFits /\ Outcomes
      BY DEF PassInv
    <2>2. \A s \in Changed : s \in Done
      BY <2>1 DEF Outcomes
    <2>3. \A r \in Refs : cluster[r] = desired[r]
      <3> SUFFICES ASSUME NEW r \in Refs PROVE cluster[r] = desired[r]
        OBVIOUS
      <3>1. CASE r \in Done
        <4>1. plan[r] \in {"Apply", "Delete"} /\ cluster[r] = Written(r)
          BY <2>1, <3>1 DEF Applied, Done, Changed
        <4>2. plan[r] = "Delete" => desired[r] = None
          BY <2>1 DEF PlanStillFits
        <4> QED
          BY <4>1, <4>2 DEF Written
      <3>2. CASE r \notin Done
        <4>1. plan[r] \notin {"Apply", "Delete"}
          BY <2>2, <3>2 DEF Changed
        <4>2. plan[r] = PlanOf(desired, cluster)[r]
          BY <2>1, <3>2 DEF PlanStillFits
        <4> QED
          BY <4>1, <4>2, PlanOfCases
      <3> QED
        BY <3>1, <3>2
    <2> QED
      BY <2>1, <2>3 DEF Types, Manifests
  <1> QED
    BY <1>1, PassInvariant, PTL

(* The executor stops at the first failure: the cluster changes only by    *)
(* the next entry of a pass that has published nothing, and all it was     *)
(* handed before is in the cluster.                                        *)
THEOREM StopsAtFailure == Spec => StopsAtFirstFailure
  <1> DEFINE Step == cluster' # cluster =>
               /\ pc = "waves" /\ outcomes = <<>>
               /\ \A s \in Done : cluster[s] = Written(s)
               /\ \E r \in Changed \ Done : \A s \in Refs \ {r} : cluster'[s] = cluster[s]
  <1>1. PassInv /\ [Next]_vars => [Step]_vars
    <2> SUFFICES ASSUME PassInv, [Next]_vars, cluster' # cluster PROVE Step
      BY DEF vars, storeVars
    <2>1. PICK r \in Refs, w \in WaveNumbers : Apply(r, w)
      BY DEF Next, Pass, vars, storeVars, Put, Forget, ForgetCluster, Inform, Start, PlanFails,
             PlanOnly, ReadRevision, RefetchFails, Refetch, ApplyFails, AutoAdvance, Gate,
             Deadline, Healthy, WaveTimeout, PublishSuccess
    <2>2. pc = "waves" /\ cluster' = [cluster EXCEPT ![r] = Written(r)] /\ r \in Changed \ Done
      BY <2>1 DEF Apply, NextEntry, Left, ChangedIn
    <2>3. outcomes = <<>> /\ \A s \in Done : cluster[s] = Written(s)
      BY <2>2 DEF PassInv, Outcomes, Applied, Done
    <2>4. \A s \in Refs \ {r} : cluster'[s] = cluster[s]
      BY <2>2 DEF PassInv, Types, Manifests
    <2> QED
      BY <2>2, <2>3, <2>4
  <1> QED
    BY <1>1, PassInvariant, PTL DEF Spec, StopsAtFirstFailure
=============================================================================
