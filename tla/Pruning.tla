------------------------------- MODULE Pruning -------------------------------
(***************************************************************************)
(* Pruning (synchrotron-kube prune.rs) and the owned set it reads          *)
(* (owned_resources_repo.rs): a sync applies what git asks for, deletes    *)
(* what the last recorded owned set holds beyond that, and records the new *)
(* owned set.  The order of the three is the one the documentation of      *)
(* these modules asks of their caller; a sync may fail or the process may  *)
(* crash at any step.                                                      *)
(*                                                                         *)
(* A name stands for the kind and the name of an object, its version for   *)
(* the group and version of its apiVersion: the same object of the cluster *)
(* can be asked for in several versions.                                   *)
(***************************************************************************)
EXTENDS Integers, FiniteSets

CONSTANTS PruneManifests,  \* manifests: [name, version, ns, wave, native, options]
          NoNs,            \* no namespace; like an empty one, only manifests of
                           \* cluster-scoped kinds have it
          NoValue,         \* an annotation that is not there
          IdleSync,        \* no sync under way
          MaxSyncs

ASSUME PruningAssumption == NoNs # "" /\ MaxSyncs \in Nat

VARIABLES objects,     \* the app's objects in the cluster
          ownedRows,   \* table app_owned_resources
          sync,        \* the sync under way
          syncs,
          unrecorded,  \* objects applied by a sync that did not get to record them
          spared       \* objects left alone because of their annotation or the app's policy

pruneVars == <<objects, ownedRows, sync, syncs, unrecorded, spared>>

(* is_prune_disabled: a folded "false", or Prune=false among Argo's options. *)
IsPruneDisabled(m) == m.native = "false" \/ (m.options # NoValue /\ "Prune=false" \in m.options)

(* (gvk, namespace, name) *)
Identity(m) == [name |-> m.name, version |-> m.version, ns |-> m.ns]

(* The object of the cluster an identity stands for: it has no version of its own, and *)
(* "" names no namespace.                                                              *)
ObjectOf(id) == [name |-> id.name, ns |-> IF id.ns = "" THEN NoNs ELSE id.ns]

(* replace_owned_resources: no namespace is stored as "" ... *)
RowOf(m) == [name |-> m.name, version |-> m.version, ns |-> IF m.ns = NoNs THEN "" ELSE m.ns,
             wave |-> m.wave, disabled |-> IsPruneDisabled(m)]

(* ... and load_owned_resources reads "" as none. *)
OwnedOf(row) == [row EXCEPT !.ns = IF @ = "" THEN NoNs ELSE @]

(* Mutant: identity by namespace alone, as if every object had one name. *)
PruneByNamespace(owned, manifests) ==
    {r \in owned : ~r.disabled /\ \A m \in manifests : m.ns # r.ns}

(* compute_prune_set: owned, not wanted any more and not opted out. *)
ComputePruneSet(owned, manifests) ==
    {r \in owned : ~r.disabled /\ Identity(r) \notin {Identity(m) : m \in manifests}}

-----------------------------------------------------------------------------
(* A sync of whatever commit git is at; automated is the app's automated.prune. *)
SyncBegins(commit, automated) ==
    /\ sync = IdleSync
    /\ syncs < MaxSyncs
    /\ syncs' = syncs + 1
    /\ sync' = [manifests |-> commit, automated |-> automated, toApply |-> commit,
                toPrune |-> {}, phase |-> "apply"]
    /\ UNCHANGED <<objects, ownedRows, unrecorded, spared>>

ApplyOne(m) ==
    /\ sync # IdleSync
    /\ m \in sync.toApply
    /\ objects' = objects \cup {ObjectOf(Identity(m))}
    /\ unrecorded' = unrecorded \cup {ObjectOf(Identity(m))}
    /\ sync' = [sync EXCEPT !.toApply = @ \ {m}]
    /\ UNCHANGED <<ownedRows, syncs, spared>>

(* Everything applied: load the owned set and compute what to delete, if the app prunes. *)
PlanPrune ==
    /\ sync # IdleSync
    /\ sync.phase = "apply"
    /\ sync.toApply = {}
    /\ LET owned == {OwnedOf(row) : row \in ownedRows}
           unwanted == ComputePruneSet(owned, sync.manifests)
       IN /\ sync' = [sync EXCEPT !.phase = "prune",
                                  !.toPrune = IF sync.automated THEN unwanted ELSE {}]
          /\ spared' = spared \cup
                        {ObjectOf(Identity(r)) :
                           r \in {x \in owned : x.disabled \/ (~sync.automated /\ x \in unwanted)}}
    /\ UNCHANGED <<objects, ownedRows, syncs, unrecorded>>

(* Deletes go from the highest wave down; an object already gone is a success. *)
DeleteOne(r) ==
    /\ sync # IdleSync
    /\ r \in sync.toPrune
    /\ \A q \in sync.toPrune : q.wave <= r.wave
    /\ objects' = objects \ {ObjectOf(Identity(r))}
    /\ sync' = [sync EXCEPT !.toPrune = @ \ {r}]
    /\ UNCHANGED <<ownedRows, syncs, unrecorded, spared>>

(* One transaction replaces the rows, if their primary keys differ. *)
RecordOwned ==
    /\ sync # IdleSync
    /\ sync.phase = "prune"
    /\ sync.toPrune = {}
    /\ \A m, n \in sync.manifests : Identity(RowOf(m)) = Identity(RowOf(n)) => m = n
    /\ ownedRows' = {RowOf(m) : m \in sync.manifests}
    /\ unrecorded' = unrecorded \ {ObjectOf(Identity(m)) : m \in sync.manifests}
    /\ spared' = spared \ {ObjectOf(Identity(m)) : m \in sync.manifests}
    /\ sync' = IdleSync
    /\ UNCHANGED <<objects, syncs>>

(* An apply, a delete or the transaction fails, or the process crashes. *)
SyncFails ==
    /\ sync # IdleSync
    /\ sync' = IdleSync
    /\ UNCHANGED <<objects, ownedRows, syncs, unrecorded, spared>>

PruningInit ==
    /\ objects = {}
    /\ ownedRows = {}
    /\ sync = IdleSync
    /\ syncs = 0
    /\ unrecorded = {}
    /\ spared = {}

PruningNext ==
    \/ \E commit \in SUBSET PruneManifests, automated \in BOOLEAN : SyncBegins(commit, automated)
    \/ \E m \in PruneManifests : ApplyOne(m)
    \/ PlanPrune
    \/ sync # IdleSync /\ \E r \in sync.toPrune : DeleteOne(r)
    \/ RecordOwned
    \/ SyncFails

PruningSpec == PruningInit /\ [][PruningNext]_pruneVars

-----------------------------------------------------------------------------
(* The object of a wanted manifest is recorded under an identity that no manifest of the *)
(* commit has: its version moved, or its namespace is "", which reads back as none.      *)
KnownOtherwise(m) ==
    \E r \in {OwnedOf(row) : row \in ownedRows} :
        /\ ObjectOf(Identity(r)) = ObjectOf(Identity(m))
        /\ ~r.disabled
        /\ Identity(r) \notin {Identity(k) : k \in sync.manifests}

(* A sync that has finished its deletes leaves the app with every object   *)
(* git asks for, and with no other: what was dropped from git in this or   *)
(* in any earlier commit is gone, whatever syncs failed in between.        *)
(* Exceptions, all real: an object that opted out, or that an app without  *)
(* automated.prune dropped; an object applied by a sync that failed before *)
(* it could record it, which no later sync knows; and a wanted object the  *)
(* rows know under another identity, which a pruning sync deletes right    *)
(* after it applied it (WantedKept).                                       *)
PruneExact ==
    sync # IdleSync =>
        (sync.phase = "prune" /\ sync.toPrune = {} =>
            LET asked == {ObjectOf(Identity(m)) : m \in sync.manifests}
            IN /\ \A m \in sync.manifests :
                     ObjectOf(Identity(m)) \in objects \/ (sync.automated /\ KnownOtherwise(m))
               /\ objects \subseteq asked \cup spared \cup unrecorded)

(* "Pruning for resources removed from the desired set" (prune.rs): a sync *)
(* does not delete an object the commit it applies asks for.               *)
WantedKept ==
    sync # IdleSync =>
        (sync.phase = "prune" =>
            \A m \in sync.manifests : ObjectOf(Identity(m)) \in objects)
=============================================================================
