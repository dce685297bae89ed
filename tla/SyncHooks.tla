----------------------------- MODULE SyncHooks -----------------------------
(***************************************************************************)
(* One sync hook and the runs of it: the annotations that make a manifest a*)
(* hook (synchrotron-reconcile/src/hooks.rs), run_hook (synchrotron-kube/  *)
(* src/hook_runner.rs) and the server-side apply and deletion it goes      *)
(* through (apply.rs, prune.rs).                                           *)
(*                                                                         *)
(* The hook's object is external: it has an incarnation number (its uid),  *)
(* the status a Job controller or a kubelet writes, and after a background *)
(* deletion it may stay for a while (finalizers).  Its status holds the    *)
(* counters of pods that succeeded and failed and a terminal condition.    *)
(***************************************************************************)
EXTENDS Naturals

CONSTANTS
  HookRunners,     \* passes that run the hook
  NoAnnotation,    \* the annotation is absent
  PhaseTokens,     \* values the phase annotation may have: sets of tokens
  PolicyTokens,    \* the same for the delete-policy annotation
  MaxIncarnations, \* bound: objects created
  MaxPods          \* bound: pods of a job that succeed, and that fail

ASSUME HooksAssumption == MaxIncarnations \in Nat /\ MaxPods \in Nat

VARIABLES
  manifest,    \* the hook: kind and the values of the four annotations
  hookObj,     \* external: the object in the cluster
  created,     \* incarnations created so far
  discovered,  \* the applier's discovery cache has the hook's kind
  hookRun      \* runner -> where its run_hook is

hookVars == <<manifest, hookObj, created, discovered, hookRun>>

(***************************************************************************)
(* hooks.rs.  The native annotation hides the Argo one even when none of   *)
(* its tokens is known.                                                    *)
(***************************************************************************)
Annotation(native, argo) ==
  IF native # NoAnnotation THEN native ELSE IF argo # NoAnnotation THEN argo ELSE {}

HookPhases == Annotation(manifest.hook, manifest.argoHook) \cap {"PreSync", "PostSync", "SyncFail"}
HookPolicies == Annotation(manifest.policy, manifest.argoPolicy)
                \cap {"HookSucceeded", "HookFailed", "BeforeHookCreation"}

\* split_hooks and hooks_for_phase: a manifest with no phase goes to the waves.
IsHook == HookPhases # {}

NoObject == [uid |-> 0, deleting |-> FALSE, succeeded |-> 0, failed |-> 0, cond |-> "none"]
NoRun == [pc |-> "idle", seen |-> 0, outcome |-> "none", of |-> 0]

HooksInit ==
  /\ manifest \in [kind : {"Job", "Pod", "Service"}, hasNamespace : BOOLEAN,
                   hook : PhaseTokens, argoHook : PhaseTokens,
                   policy : PolicyTokens, argoPolicy : PolicyTokens]
  /\ hookObj = NoObject /\ created = 0
  /\ discovered = FALSE
  /\ hookRun = [r \in HookRunners |-> NoRun]

At(r, pc) == hookRun[r].pc = pc
Goto(r, pc) == hookRun' = [hookRun EXCEPT ![r].pc = pc]
Fail(r) == hookRun' = [hookRun EXCEPT ![r] = [NoRun EXCEPT !.pc = "error"]]

(***************************************************************************)
(* External: the object's controller, finalizers, other users.  A condition*)
(* may be set before the counters that led to it ("some controllers set    *)
(* `Complete` / `Failed` before incrementing the counters", classify).     *)
(***************************************************************************)
PodEnds ==
  /\ hookObj.uid # 0
  /\ \/ /\ hookObj.succeeded < MaxPods
        /\ hookObj' = [hookObj EXCEPT !.succeeded = @ + 1]
     \/ /\ hookObj.failed < MaxPods
        /\ hookObj' = [hookObj EXCEPT !.failed = @ + 1]
  /\ UNCHANGED <<manifest, created, discovered, hookRun>>

HookEnds ==
  /\ hookObj.uid # 0 /\ hookObj.cond = "none"
  /\ \E cond \in {"Complete", "Failed"} : hookObj' = [hookObj EXCEPT !.cond = cond]
  /\ UNCHANGED <<manifest, created, discovered, hookRun>>

Finalized ==
  /\ hookObj.deleting
  /\ hookObj' = NoObject
  /\ UNCHANGED <<manifest, created, discovered, hookRun>>

(***************************************************************************)
(* run_hook.                                                               *)
(***************************************************************************)
HookStart(r) ==
  /\ At(r, "idle") /\ IsHook
  /\ IF manifest.kind \in {"Job", "Pod"}
     THEN hookRun' = [hookRun EXCEPT ![r] = [NoRun EXCEPT !.pc = "resolve", !.seen = created]]
     ELSE Fail(r)
  /\ UNCHANGED <<manifest, hookObj, created, discovered>>

\* api_for_manifest: discovery, unless cached, and the namespace of a namespaced kind.
HookResolve(r) ==
  /\ At(r, "resolve")
  /\ discovered' = TRUE
  /\ IF manifest.hasNamespace
     THEN Goto(r, IF "BeforeHookCreation" \in HookPolicies THEN "predelete" ELSE "apply")
     ELSE Fail(r)
  /\ UNCHANGED <<manifest, hookObj, created>>

HookResolveFails(r) ==
  /\ At(r, "resolve") /\ ~discovered
  /\ Fail(r)
  /\ UNCHANGED <<manifest, hookObj, created, discovered>>

\* delete_if_exists and KubeSsaApplier::delete: 404 is success; the deletion is background.
DeletedInBackground(o) == IF o.uid = 0 THEN o ELSE [o EXCEPT !.deleting = TRUE]

HookPreDelete(r) ==
  /\ At(r, "predelete")
  /\ hookObj' = DeletedInBackground(hookObj)
  /\ Goto(r, "absent")
  /\ UNCHANGED <<manifest, created, discovered>>

\* mutant: apply right after the deletion was recorded
GoneAlready == TRUE
\* wait_for_absent: get_opt returned None.
Gone == hookObj.uid = 0

HookAbsent(r) ==
  /\ At(r, "absent") /\ Gone
  /\ Goto(r, "apply")
  /\ UNCHANGED <<manifest, hookObj, created, discovered>>

\* KubeSsaApplier::apply: creates the object, or patches the one that is there.
Patched == IF hookObj.uid # 0 THEN hookObj ELSE [NoObject EXCEPT !.uid = created + 1]

HookApply(r) ==
  /\ At(r, "apply") /\ (hookObj.uid # 0 \/ created < MaxIncarnations)
  /\ hookObj' = Patched
  /\ created' = IF hookObj.uid # 0 THEN created ELSE created + 1
  /\ Goto(r, "poll") \/ Fail(r)     \* the answer may be lost
  /\ UNCHANGED <<manifest, discovered>>

\* A conflict, an immutable field, a server or a transport error (map_kube_err), a time-out
\* of either loop, a missing object while polling, any request that fails.
HookFails(r) ==
  /\ \E pc \in {"predelete", "absent", "apply", "poll"} : At(r, pc)
  /\ Fail(r)
  /\ UNCHANGED <<manifest, hookObj, created, discovered>>

\* classify: a Job's condition first, then its counters; a Pod's phase.
Classify(o) ==
  IF o.cond = "Complete" THEN "Succeeded"
  ELSE IF o.cond = "Failed" THEN "Failed"
  ELSE IF manifest.kind = "Job" /\ o.succeeded >= 1 THEN "Succeeded"
  ELSE IF manifest.kind = "Job" /\ o.failed >= 1 THEN "Failed"
  ELSE "none"

HookPoll(r) ==
  /\ At(r, "poll") /\ hookObj.uid # 0 /\ Classify(hookObj) # "none"
  /\ hookRun' = [hookRun EXCEPT ![r].pc = "cleanup", ![r].outcome = Classify(hookObj),
                                ![r].of = hookObj.uid]
  /\ UNCHANGED <<manifest, hookObj, created, discovered>>

CleanupPolicy(outcome) == IF outcome = "Succeeded" THEN "HookSucceeded" ELSE "HookFailed"

\* Best effort: a failing deletion leaves the outcome as it is.
HookCleanup(r) ==
  /\ At(r, "cleanup")
  /\ \/ hookObj' = IF CleanupPolicy(hookRun[r].outcome) \in HookPolicies
                   THEN DeletedInBackground(hookObj) ELSE hookObj
     \/ UNCHANGED hookObj
  /\ Goto(r, "done")
  /\ UNCHANGED <<manifest, created, discovered>>

HookReturn(r) ==
  /\ At(r, "done") \/ At(r, "error")
  /\ hookRun' = [hookRun EXCEPT ![r] = NoRun]
  /\ UNCHANGED <<manifest, hookObj, created, discovered>>

HooksNext ==
  \/ PodEnds \/ HookEnds \/ Finalized
  \/ \E r \in HookRunners :
       \/ HookStart(r) \/ HookResolve(r) \/ HookResolveFails(r) \/ HookPreDelete(r)
       \/ HookAbsent(r) \/ HookApply(r) \/ HookFails(r) \/ HookPoll(r)
       \/ HookCleanup(r) \/ HookReturn(r)

HooksSpec == HooksInit /\ [][HooksNext]_hookVars

-----------------------------------------------------------------------------
\* "deletes any prior copy before apply so a re-run lands cleanly": with BeforeHookCreation a
\* run never reports the outcome of an object that was there before it started, whatever an
\* earlier, concurrent or timed-out run left behind.  (Without the policy a run does report
\* the former one's outcome.)
HookOutcomeFresh ==
  \A r \in HookRunners : hookRun[r].outcome # "none" /\ "BeforeHookCreation" \in HookPolicies =>
    hookRun[r].of > hookRun[r].seen

\* "Read a terminal outcome ... Returns `None` if the resource is still in progress"
\* (classify): a hook whose run reported Failed does not go on to complete.
OutcomeTerminal ==
  \A r \in HookRunners :
    (hookRun[r].outcome = "Failed" /\ hookObj.uid = hookRun[r].of)
      => ~(hookObj.succeeded > 0 /\ hookObj.cond = "Complete")
=============================================================================
