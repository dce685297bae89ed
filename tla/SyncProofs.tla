------------------------------ MODULE SyncProofs ------------------------------
(***************************************************************************)
(* Proofs about what a sync leaves behind: the outcome of a hook           *)
(* (SyncHooks), the readiness gate between waves (Health), the objects     *)
(* after pruning (Pruning) and the rows of the database (Records).  The    *)
(* four are independent.                                                   *)
(***************************************************************************)
EXTENDS SyncHooks, Health, Pruning, Records, TLAPS

-----------------------------------------------------------------------------
(* Sync hooks.  Incarnations are numbered upwards, so once a run has seen  *)
(* the object gone, whatever is there later was created after it started.  *)

HookPcs == {"idle", "resolve", "predelete", "absent", "apply", "poll", "cleanup", "done", "error"}
HookRunState == [pc : HookPcs, seen : Nat, outcome : {"none", "Succeeded", "Failed"}, of : Nat]

HookTypes ==
  /\ created \in Nat
  /\ hookRun \in [HookRunners -> HookRunState]
  /\ hookObj.uid \in Nat /\ hookObj.succeeded \in Nat /\ hookObj.failed \in Nat
  /\ hookObj = [uid |-> hookObj.uid, deleting |-> hookObj.deleting,
                succeeded |-> hookObj.succeeded, failed |-> hookObj.failed, cond |-> hookObj.cond]

\* Incarnations get their numbers from the count of those created.
ObjectNumbered == hookObj.uid <= created

RunFresh(r) ==
  /\ hookRun[r].seen <= created
  /\ hookRun[r].of <= created
  /\ hookRun[r].outcome # "none" => hookRun[r].pc \in {"cleanup", "done"}
  /\ "BeforeHookCreation" \in HookPolicies =>
       /\ hookRun[r].pc \in {"apply", "poll"} => hookObj.uid = 0 \/ hookObj.uid > hookRun[r].seen
       /\ hookRun[r].outcome # "none" => hookRun[r].of > hookRun[r].seen

HooksInv == HookTypes /\ ObjectNumbered /\ \A r \in HookRunners : RunFresh(r)

LEMMA HooksStart == HooksInit => HooksInv
  BY DEF HooksInit, HooksInv, HookTypes, ObjectNumbered, RunFresh, NoObject, NoRun, HookRunState,
     HookPcs

\* A step of the object alone: the same incarnation, or none.
LEMMA ObjectStep ==
  ASSUME HooksInv, HookTypes', ObjectNumbered', UNCHANGED <<manifest, created, hookRun>>,
         hookObj'.uid = 0 \/ hookObj'.uid = hookObj.uid
  PROVE  HooksInv'
  <1>1. HookPolicies' = HookPolicies
    BY DEF HookPolicies, Annotation
  <1>2. ASSUME NEW r \in HookRunners PROVE RunFresh(r)'
    <2>1. RunFresh(r) /\ hookRun[r] \in HookRunState
      BY DEF HooksInv, HookTypes
    <2> QED BY <1>1, <2>1 DEF RunFresh, HooksInv, HookTypes, HookRunState
  <1> QED BY <1>2 DEF HooksInv

LEMMA PodEndsStep == HooksInv /\ PodEnds => HooksInv'
  <1> SUFFICES ASSUME HooksInv, PodEnds PROVE HooksInv'
    OBVIOUS
  <1>1. /\ HookTypes' /\ ObjectNumbered' /\ hookObj'.uid = hookObj.uid
    BY DEF PodEnds, HooksInv, HookTypes, ObjectNumbered
  <1> QED BY <1>1, ObjectStep DEF PodEnds

LEMMA HookEndsStep == HooksInv /\ HookEnds => HooksInv'
  <1> SUFFICES ASSUME HooksInv, HookEnds PROVE HooksInv'
    OBVIOUS
  <1>1. /\ HookTypes' /\ ObjectNumbered' /\ hookObj'.uid = hookObj.uid
    BY DEF HookEnds, HooksInv, HookTypes, ObjectNumbered
  <1> QED BY <1>1, ObjectStep DEF HookEnds

LEMMA FinalizedStep == HooksInv /\ Finalized => HooksInv'
  <1> SUFFICES ASSUME HooksInv, Finalized PROVE HooksInv'
    OBVIOUS
  <1>1. HookTypes' /\ ObjectNumbered' /\ hookObj'.uid = 0
    BY DEF Finalized, HooksInv, HookTypes, ObjectNumbered, NoObject
  <1> QED BY <1>1, ObjectStep DEF Finalized

\* A step of run r: the object stays the incarnation it was, or one is created.
LEMMA RunStep ==
  ASSUME HooksInv, NEW r \in HookRunners, NEW t \in HookRunState,
         hookRun' = [hookRun EXCEPT ![r] = t], UNCHANGED manifest,
         HookTypes', ObjectNumbered', created' >= created,
         hookObj'.uid = hookObj.uid \/ hookObj'.uid > created,
         RunFresh(r)'
  PROVE  HooksInv'
  <1>1. HookPolicies' = HookPolicies
    BY DEF HookPolicies, Annotation
  <1>2. ASSUME NEW q \in HookRunners, q # r PROVE RunFresh(q)'
    <2>1. RunFresh(q) /\ hookRun[q] \in HookRunState /\ hookRun'[q] = hookRun[q]
      BY <1>2 DEF HooksInv, HookTypes
    <2> QED BY <1>1, <2>1 DEF RunFresh, HooksInv, HookTypes, HookRunState
  <1> QED BY <1>2 DEF HooksInv

\* A step that moves a run's place only, to one that needs no fresh object or keeps it.
LEMMA PlaceStep ==
  ASSUME HooksInv, NEW r \in HookRunners, NEW pc \in HookPcs,
         hookRun' = [hookRun EXCEPT ![r].pc = pc], UNCHANGED <<manifest, created>>,
         HookTypes', ObjectNumbered', hookObj'.uid = hookObj.uid,
         hookRun[r].outcome # "none" => pc \in {"cleanup", "done"},
         "BeforeHookCreation" \in HookPolicies /\ pc \in {"apply", "poll"} =>
            hookObj.uid = 0 \/ hookObj.uid > hookRun[r].seen
  PROVE  HooksInv'
  <1> DEFINE t == [hookRun[r] EXCEPT !.pc = pc]
  <1>1. hookRun[r] \in HookRunState /\ RunFresh(r) /\ hookRun \in [HookRunners -> HookRunState]
    BY DEF HooksInv, HookTypes
  <1>2. /\ t \in HookRunState /\ t.pc = pc /\ t.seen = hookRun[r].seen
        /\ t.outcome = hookRun[r].outcome /\ t.of = hookRun[r].of
    BY <1>1 DEF HookRunState
  <1>3. hookRun' = [hookRun EXCEPT ![r] = t] /\ hookRun'[r] = t
    BY <1>1
  <1>4. HookPolicies' = HookPolicies
    BY DEF HookPolicies, Annotation
  <1> HIDE DEF t
  <1>5. RunFresh(r)'
    BY <1>1, <1>2, <1>3, <1>4 DEF RunFresh
  <1>6. created' >= created
    BY DEF HooksInv, HookTypes
  <1> QED BY <1>2, <1>3, <1>5, <1>6, RunStep

\* Fail(r), and the return to idle.
LEMMA EndRunStep ==
  ASSUME HooksInv, NEW r \in HookRunners, NEW pc \in {"idle", "error"},
         hookRun' = [hookRun EXCEPT ![r] = [NoRun EXCEPT !.pc = pc]], UNCHANGED manifest,
         HookTypes', ObjectNumbered', created' >= created,
         hookObj'.uid = hookObj.uid \/ hookObj'.uid > created
  PROVE  HooksInv'
  <1> DEFINE t == [NoRun EXCEPT !.pc = pc]
  <1>1. t \in HookRunState /\ t.seen = 0 /\ t.of = 0 /\ t.outcome = "none" /\ t.pc = pc
    BY DEF NoRun, HookRunState, HookPcs
  <1>2. hookRun' = [hookRun EXCEPT ![r] = t] /\ hookRun'[r] = t
    BY DEF HooksInv, HookTypes
  <1> HIDE DEF t
  <1>3. RunFresh(r)'
    <2>1. 0 <= created'
      BY DEF HookTypes
    <2>2. /\ hookRun'[r].seen = 0 /\ hookRun'[r].of = 0
          /\ hookRun'[r].outcome = "none" /\ hookRun'[r].pc \notin {"apply", "poll"}
      BY <1>1, <1>2
    <2> QED BY <2>1, <2>2 DEF RunFresh
  <1> QED BY <1>1, <1>2, <1>3, RunStep

\* The object part of the invariant where the object is as it was.
LEMMA SameObject ==
  ASSUME HooksInv, UNCHANGED <<hookObj, created>>, hookRun' \in [HookRunners -> HookRunState]
  PROVE  /\ HookTypes' /\ ObjectNumbered' /\ created' >= created
         /\ hookObj'.uid = hookObj.uid
  BY DEF HooksInv, HookTypes, ObjectNumbered

LEMMA RunTyped ==
  ASSUME HooksInv, NEW r \in HookRunners
  PROVE  /\ \A pc \in HookPcs : [hookRun EXCEPT ![r].pc = pc] \in [HookRunners -> HookRunState]
         /\ \A pc \in HookPcs :
              [hookRun EXCEPT ![r] = [NoRun EXCEPT !.pc = pc]] \in [HookRunners -> HookRunState]
  <1>1. hookRun[r] \in HookRunState /\ hookRun \in [HookRunners -> HookRunState]
    BY DEF HooksInv, HookTypes
  <1>2. ASSUME NEW pc \in HookPcs
        PROVE  [hookRun[r] EXCEPT !.pc = pc] \in HookRunState /\ [NoRun EXCEPT !.pc = pc] \in HookRunState
    BY <1>1 DEF HookRunState, NoRun
  <1> QED BY <1>1, <1>2

\* The three shapes most steps of a run have, with the object as it was.
LEMMA FailedStep ==
  ASSUME HooksInv, NEW r \in HookRunners, NEW pc \in {"idle", "error"},
         hookRun' = [hookRun EXCEPT ![r] = [NoRun EXCEPT !.pc = pc]],
         UNCHANGED <<manifest, hookObj, created>>
  PROVE  HooksInv'
  <1>1. hookRun' \in [HookRunners -> HookRunState]
    BY RunTyped DEF HookPcs
  <1> QED BY <1>1, SameObject, EndRunStep

LEMMA MovedStep ==
  ASSUME HooksInv, NEW r \in HookRunners, NEW pc \in HookPcs,
         hookRun' = [hookRun EXCEPT ![r].pc = pc], UNCHANGED <<manifest, hookObj, created>>,
         hookRun[r].outcome = "none",
         "BeforeHookCreation" \in HookPolicies /\ pc \in {"apply", "poll"} =>
            hookObj.uid = 0 \/ hookObj.uid > hookRun[r].seen
  PROVE  HooksInv'
  <1>1. hookRun' \in [HookRunners -> HookRunState]
    BY RunTyped
  <1> QED BY <1>1, SameObject, PlaceStep

LEMMA NoOutcomeYet ==
  ASSUME HooksInv, NEW r \in HookRunners, hookRun[r].pc \notin {"cleanup", "done"}
  PROVE  hookRun[r].outcome = "none"
  BY DEF HooksInv, RunFresh

LEMMA HookStartStep == ASSUME HooksInv, NEW r \in HookRunners, HookStart(r) PROVE HooksInv'
  <1>1. CASE manifest.kind \in {"Job", "Pod"}
    <2> DEFINE t == [NoRun EXCEPT !.pc = "resolve", !.seen = created]
    <2>1. created \in Nat /\ hookRun \in [HookRunners -> HookRunState]
      BY DEF HooksInv, HookTypes
    <2>2. t \in HookRunState /\ t.seen = created /\ t.of = 0 /\ t.outcome = "none" /\ t.pc = "resolve"
      BY <2>1 DEF NoRun, HookRunState, HookPcs
    <2>3. hookRun' = [hookRun EXCEPT ![r] = t] /\ UNCHANGED <<manifest, hookObj, created>>
      BY <1>1 DEF HookStart
    <2> HIDE DEF t
    <2>4. hookRun' \in [HookRunners -> HookRunState] /\ hookRun'[r] = t
      BY <2>1, <2>2, <2>3
    <2>5. RunFresh(r)'
      <3>1. /\ hookRun'[r].seen = created' /\ hookRun'[r].of = 0
            /\ hookRun'[r].outcome = "none" /\ hookRun'[r].pc \notin {"apply", "poll"}
        BY <2>2, <2>3, <2>4
      <3>2. created' \in Nat
        BY <2>1, <2>3
      <3> QED BY <3>1, <3>2 DEF RunFresh
    <2> QED BY <2>2, <2>3, <2>4, <2>5, SameObject, RunStep
  <1>2. CASE manifest.kind \notin {"Job", "Pod"}
    <2>1. /\ hookRun' = [hookRun EXCEPT ![r] = [NoRun EXCEPT !.pc = "error"]]
          /\ UNCHANGED <<manifest, hookObj, created>>
      BY <1>2 DEF HookStart, Fail
    <2> QED BY <2>1, FailedStep
  <1> QED BY <1>1, <1>2

LEMMA HookResolveStep == ASSUME HooksInv, NEW r \in HookRunners, HookResolve(r) PROVE HooksInv'
  <1>1. CASE manifest.hasNamespace
    <2>1. PICK pc \in {"predelete", "apply"} :
            /\ hookRun' = [hookRun EXCEPT ![r].pc = pc] /\ UNCHANGED <<manifest, hookObj, created>>
            /\ "BeforeHookCreation" \in HookPolicies => pc = "predelete"
      BY <1>1 DEF HookResolve, Goto
    <2>2. hookRun[r].outcome = "none"
      BY NoOutcomeYet DEF HookResolve, At
    <2> QED BY <2>1, <2>2, MovedStep DEF HookPcs
  <1>2. CASE ~manifest.hasNamespace
    <2>1. /\ hookRun' = [hookRun EXCEPT ![r] = [NoRun EXCEPT !.pc = "error"]]
          /\ UNCHANGED <<manifest, hookObj, created>>
      BY <1>2 DEF HookResolve, Fail
    <2> QED BY <2>1, FailedStep
  <1> QED BY <1>1, <1>2

LEMMA HookDeletedStep ==
  ASSUME HooksInv, NEW r \in HookRunners, HookPreDelete(r) \/ HookCleanup(r)
  PROVE  HooksInv'
  <1>1. PICK pc \in {"absent", "done"} :
          /\ hookRun' = [hookRun EXCEPT ![r].pc = pc] /\ UNCHANGED <<manifest, created>>
          /\ hookObj' = DeletedInBackground(hookObj) \/ hookObj' = hookObj
          /\ \/ hookRun[r].pc = "predelete" /\ pc = "absent"
             \/ pc = "done"
    BY DEF HookPreDelete, HookCleanup, Goto, At
  <1>2. /\ hookObj'.uid = hookObj.uid /\ hookObj'.succeeded = hookObj.succeeded
        /\ hookObj'.failed = hookObj.failed /\ hookObj'.cond = hookObj.cond
        /\ hookObj' = [uid |-> hookObj'.uid, deleting |-> hookObj'.deleting,
                succeeded |-> hookObj'.succeeded, failed |-> hookObj'.failed, cond |-> hookObj'.cond]
    <2>1. hookObj = [uid |-> hookObj.uid, deleting |-> hookObj.deleting,
                succeeded |-> hookObj.succeeded, failed |-> hookObj.failed, cond |-> hookObj.cond]
      BY DEF HooksInv, HookTypes
    <2> QED BY <1>1, <2>1 DEF DeletedInBackground
  <1>3. pc \in HookPcs /\ hookRun' \in [HookRunners -> HookRunState]
    <2>1. pc \in HookPcs
      BY <1>1 DEF HookPcs
    <2> QED BY <1>1, <2>1, RunTyped
  <1>4. HookTypes' /\ ObjectNumbered'
    BY <1>1, <1>2, <1>3 DEF HooksInv, HookTypes, ObjectNumbered
  <1>5. hookRun[r].outcome # "none" => pc \in {"cleanup", "done"}
    BY <1>1, NoOutcomeYet
  <1>6. pc \notin {"apply", "poll"}
    BY <1>1
  <1> QED BY <1>1, <1>2, <1>3, <1>4, <1>5, <1>6, PlaceStep

LEMMA HookAbsentStep == ASSUME HooksInv, NEW r \in HookRunners, HookAbsent(r) PROVE HooksInv'
  <1>1. /\ hookRun' = [hookRun EXCEPT ![r].pc = "apply"] /\ UNCHANGED <<manifest, hookObj, created>>
        /\ hookObj.uid = 0 /\ hookRun[r].pc = "absent"
    BY DEF HookAbsent, Goto, Gone, At
  <1>2. hookRun[r].outcome = "none" /\ "apply" \in HookPcs
    BY <1>1, NoOutcomeYet DEF HookPcs
  <1> QED BY <1>1, <1>2, MovedStep

\* Where there is no object one with the next number is created; the others are older.
LEMMA HookApplyStep == ASSUME HooksInv, NEW r \in HookRunners, HookApply(r) PROVE HooksInv'
  <1>1. /\ created \in Nat /\ hookObj.uid \in Nat /\ hookRun \in [HookRunners -> HookRunState]
        /\ hookRun[r] \in HookRunState /\ RunFresh(r)
    BY DEF HooksInv, HookTypes
  <1>2. /\ hookRun[r].pc = "apply" /\ UNCHANGED manifest
        /\ \/ hookRun' = [hookRun EXCEPT ![r].pc = "poll"]
           \/ hookRun' = [hookRun EXCEPT ![r] = [NoRun EXCEPT !.pc = "error"]]
    BY DEF HookApply, At, Goto, Fail
  <1>3. hookRun' \in [HookRunners -> HookRunState]
    <2>1. "poll" \in HookPcs /\ "error" \in HookPcs
      BY DEF HookPcs
    <2>2. /\ [hookRun EXCEPT ![r].pc = "poll"] \in [HookRunners -> HookRunState]
          /\ [hookRun EXCEPT ![r] = [NoRun EXCEPT !.pc = "error"]] \in [HookRunners -> HookRunState]
      BY ONLY HooksInv, r \in HookRunners, <2>1, RunTyped
    <2> QED BY <1>2, <2>2
  <1>4. CASE hookObj.uid # 0
    <2>1. UNCHANGED <<hookObj, created>>
      BY <1>4 DEF HookApply, Patched
    <2>2. CASE hookRun' = [hookRun EXCEPT ![r] = [NoRun EXCEPT !.pc = "error"]]
      BY <1>2, <2>1, <2>2, FailedStep
    <2>3. CASE hookRun' = [hookRun EXCEPT ![r].pc = "poll"]
      <3>1. hookRun[r].outcome = "none"
        BY <1>2, NoOutcomeYet
      <3>2. "BeforeHookCreation" \in HookPolicies => hookObj.uid = 0 \/ hookObj.uid > hookRun[r].seen
        BY <1>1, <1>2 DEF RunFresh
      <3>3. "poll" \in HookPcs
        BY DEF HookPcs
      <3> QED BY <1>2, <2>1, <2>3, <3>1, <3>2, <3>3, MovedStep
    <2> QED BY <1>2, <2>2, <2>3
  <1>5. CASE hookObj.uid = 0
    <2>1. hookObj' = [NoObject EXCEPT !.uid = created + 1] /\ created' = created + 1
      BY <1>5 DEF HookApply, Patched
    <2>2. /\ HookTypes' /\ ObjectNumbered' /\ created' >= created
          /\ hookObj'.uid > created
      <3>1. hookObj' = [uid |-> created + 1, deleting |-> FALSE, succeeded |-> 0, failed |-> 0,
                        cond |-> "none"]
        BY <2>1 DEF NoObject
      <3>2. /\ hookObj'.uid = created + 1 /\ hookObj'.succeeded = 0 /\ hookObj'.failed = 0
            /\ hookObj'.cond = "none" /\ hookObj'.deleting = FALSE
        BY <3>1
      <3>3. hookObj' = [uid |-> hookObj'.uid, deleting |-> hookObj'.deleting,
                succeeded |-> hookObj'.succeeded, failed |-> hookObj'.failed, cond |-> hookObj'.cond]
        BY <3>1, <3>2
      <3>4. created' \in Nat /\ created' >= created /\ hookObj'.uid > created
            /\ hookObj'.uid \in Nat /\ hookObj'.uid <= created'
        BY <1>1, <2>1, <3>2
      <3>5. HookTypes'
        BY <1>3, <3>2, <3>3, <3>4 DEF HookTypes
      <3>6. ObjectNumbered'
        BY <3>2, <3>4 DEF ObjectNumbered
      <3> QED BY <3>4, <3>5, <3>6
    <2>3. CASE hookRun' = [hookRun EXCEPT ![r] = [NoRun EXCEPT !.pc = "error"]]
      BY <1>2, <2>2, <2>3, EndRunStep
    <2>4. CASE hookRun' = [hookRun EXCEPT ![r].pc = "poll"]
      <3>1. PICK t : t = [hookRun[r] EXCEPT !.pc = "poll"]
        OBVIOUS
      <3>2. /\ t \in HookRunState /\ t.pc = "poll" /\ t.seen = hookRun[r].seen
            /\ t.outcome = hookRun[r].outcome /\ t.of = hookRun[r].of
        BY <1>1, <3>1 DEF HookRunState, HookPcs
      <3>3. hookRun' = [hookRun EXCEPT ![r] = t] /\ hookRun'[r] = t
        BY <1>1, <2>4, <3>1
      <3>4. hookRun[r].outcome = "none" /\ hookRun[r].seen <= created /\ hookRun[r].of <= created
            /\ hookRun[r].seen \in Nat /\ hookRun[r].of \in Nat
        BY <1>1, <1>2, NoOutcomeYet DEF RunFresh, HookRunState
      <3>5. /\ hookRun'[r].seen <= created' /\ hookRun'[r].of <= created'
            /\ hookRun'[r].outcome = "none" /\ hookObj'.uid > hookRun'[r].seen
        BY <1>1, <2>1, <3>2, <3>3, <3>4 DEF NoObject
      <3>6. RunFresh(r)'
        BY <3>5 DEF RunFresh
      <3> QED BY <1>2, <2>2, <3>2, <3>3, <3>6, RunStep
    <2> QED BY <1>2, <2>3, <2>4
  <1> QED BY <1>4, <1>5

LEMMA HookPollStep == ASSUME HooksInv, NEW r \in HookRunners, HookPoll(r) PROVE HooksInv'
  <1>1. /\ created \in Nat /\ hookObj.uid \in Nat /\ hookRun \in [HookRunners -> HookRunState]
        /\ hookRun[r] \in HookRunState /\ RunFresh(r) /\ HookTypes /\ ObjectNumbered
    BY DEF HooksInv, HookTypes
  <1>2. PICK c : c = Classify(hookObj)
    OBVIOUS
  <1>3. c \in {"Succeeded", "Failed"}
    BY <1>2 DEF HookPoll, Classify
  <1>4. PICK t : t = [hookRun[r] EXCEPT !.pc = "cleanup", !.outcome = c, !.of = hookObj.uid]
    OBVIOUS
  <1>5. /\ t \in HookRunState /\ t.pc = "cleanup" /\ t.seen = hookRun[r].seen
        /\ t.outcome = c /\ t.of = hookObj.uid
    BY <1>1, <1>3, <1>4 DEF HookRunState, HookPcs
  <1>6. /\ hookRun' = [hookRun EXCEPT ![r] = t] /\ UNCHANGED <<manifest, hookObj, created>>
        /\ hookRun[r].pc = "poll" /\ hookObj.uid # 0
    BY <1>1, <1>2, <1>4 DEF HookPoll, At
  <1>7. hookRun' \in [HookRunners -> HookRunState] /\ hookRun'[r] = t
    BY <1>1, <1>5, <1>6
  <1>8. RunFresh(r)'
    <2>1. HookPolicies' = HookPolicies
      BY <1>6 DEF HookPolicies, Annotation
    <2>2. hookRun[r].seen <= created /\ hookObj.uid <= created
      BY <1>1 DEF RunFresh, ObjectNumbered
    <2>3. "BeforeHookCreation" \in HookPolicies => hookObj.uid > hookRun[r].seen
      BY <1>1, <1>6 DEF RunFresh
    <2> HIDE DEF HookPolicies
    <2> QED BY <1>3, <1>5, <1>6, <1>7, <2>1, <2>2, <2>3 DEF RunFresh
  <1> QED BY <1>5, <1>6, <1>7, <1>8, SameObject, RunStep

LEMMA HookEndedStep ==
  ASSUME HooksInv, NEW r \in HookRunners, HookResolveFails(r) \/ HookFails(r) \/ HookReturn(r)
  PROVE  HooksInv'
  <1>1. NoRun = [NoRun EXCEPT !.pc = "idle"]
    BY DEF NoRun
  <1>2. PICK pc \in {"idle", "error"} :
          /\ hookRun' = [hookRun EXCEPT ![r] = [NoRun EXCEPT !.pc = pc]]
          /\ UNCHANGED <<manifest, hookObj, created>>
    BY <1>1 DEF HookResolveFails, HookFails, HookReturn, Fail
  <1> QED BY <1>2, FailedStep

LEMMA HooksStep == HooksInv /\ [HooksNext]_hookVars => HooksInv'
  <1> SUFFICES ASSUME HooksInv, [HooksNext]_hookVars PROVE HooksInv'
    OBVIOUS
  <1>1. CASE PodEnds \/ HookEnds \/ Finalized
    BY <1>1, PodEndsStep, HookEndsStep, FinalizedStep
  <1>2. ASSUME NEW r \in HookRunners, HookStart(r) \/ HookResolve(r) \/ HookApply(r) \/ HookPoll(r)
        PROVE  HooksInv'
    BY <1>2, HookStartStep, HookResolveStep, HookApplyStep, HookPollStep
  <1>3. ASSUME NEW r \in HookRunners, HookPreDelete(r) \/ HookCleanup(r) \/ HookAbsent(r)
        PROVE  HooksInv'
    BY <1>3, HookDeletedStep, HookAbsentStep
  <1>4. ASSUME NEW r \in HookRunners, HookResolveFails(r) \/ HookFails(r) \/ HookReturn(r)
        PROVE  HooksInv'
    BY <1>4, HookEndedStep
  <1>5. CASE UNCHANGED hookVars
    BY <1>5 DEF hookVars, HooksInv, HookTypes, ObjectNumbered, RunFresh, HookPolicies, Annotation
  <1> QED BY <1>1, <1>2, <1>3, <1>4, <1>5 DEF HooksNext

\* run_hook: the object in the cluster and every run of the hook satisfy the inductive
\* invariant, for any number of runs and incarnations.
THEOREM HooksInvariant == HooksSpec => []HooksInv
  BY HooksStart, HooksStep, PTL DEF HooksSpec

\* run_hook with BeforeHookCreation never reports the outcome of an object that was there
\* before it started, in whatever order its controller writes conditions and counters.
THEOREM HooksReportTheirOwn == HooksSpec => []HookOutcomeFresh
  <1>1. HooksInv => HookOutcomeFresh
    BY DEF HooksInv, RunFresh, HookOutcomeFresh
  <1> QED BY <1>1, HooksInvariant, PTL

-----------------------------------------------------------------------------
(* Pruning.  Between syncs the cluster holds only what the rows name, what *)
(* opted out and what no sync recorded.  That, and not the property alone, *)
(* is what a failed or crashed sync hands to the next one.                 *)

Owned == {OwnedOf(r) : r \in ownedRows}
ObjectsOf(S) == {ObjectOf(Identity(m)) : m \in S}

ObjectsAccounted == objects \subseteq ObjectsOf(Owned) \cup spared \cup unrecorded

SyncShape ==
  /\ sync = [manifests |-> sync.manifests, automated |-> sync.automated,
             toApply |-> sync.toApply, toPrune |-> sync.toPrune, phase |-> sync.phase]
  /\ sync.toApply \subseteq sync.manifests
  /\ sync.phase \in {"apply", "prune"}

Applying ==
  /\ sync.toPrune = {}
  /\ \A m \in sync.manifests \ sync.toApply : ObjectOf(Identity(m)) \in objects

\* What a row stands for that the commit does not ask for under the row's identity.
Unwanted(r) == r \in Owned /\ ~r.disabled /\ Identity(r) \notin {Identity(m) : m \in sync.manifests}

Deleting ==
  /\ sync.toApply = {}
  /\ \A m \in sync.manifests :
       ObjectOf(Identity(m)) \in objects \/ (sync.automated /\ KnownOtherwise(m))
  /\ \A r \in sync.toPrune : sync.automated /\ Unwanted(r)
  /\ objects \subseteq ObjectsOf(sync.manifests) \cup spared \cup unrecorded
                         \cup ObjectsOf(sync.toPrune)

PruneInv ==
  /\ ObjectsAccounted
  /\ sync # IdleSync =>
       /\ SyncShape
       /\ sync.phase = "apply" => Applying
       /\ sync.phase = "prune" => Deleting

LEMMA ObjectShape ==
  ASSUME NEW m
  PROVE  ObjectOf(Identity(m)) = [name |-> m.name, ns |-> IF m.ns = "" THEN NoNs ELSE m.ns]
  <1>1. PICK id : id = [name |-> m.name, version |-> m.version, ns |-> m.ns]
    OBVIOUS
  <1>2. id.name = m.name /\ id.ns = m.ns
    BY <1>1
  <1>3. ObjectOf(id) = [name |-> m.name, ns |-> IF m.ns = "" THEN NoNs ELSE m.ns]
    BY <1>2 DEF ObjectOf
  <1> QED BY <1>1, <1>3 DEF Identity

\* OwnedOf reads the empty namespace as none.
LEMMA OwnedShape ==
  ASSUME NEW m, NEW r, r = OwnedOf(RowOf(m))
  PROVE  r.name = m.name /\ r.ns # "" /\ r.ns = (IF m.ns = "" THEN NoNs ELSE m.ns)
  <1>1. PICK d : d = IsPruneDisabled(m)
    OBVIOUS
  <1>2. PICK n : n = IF m.ns = NoNs THEN "" ELSE m.ns
    OBVIOUS
  <1>3. PICK w : w = [name |-> m.name, version |-> m.version, ns |-> n, wave |-> m.wave,
                      disabled |-> d]
    OBVIOUS
  <1>4. w = RowOf(m)
    BY <1>1, <1>2, <1>3 DEF RowOf
  <1>5. PICK k : k = IF n = "" THEN NoNs ELSE n
    OBVIOUS
  <1>6. /\ w.ns = n
        /\ [w EXCEPT !.ns = k] = [name |-> m.name, version |-> m.version, ns |-> k,
                                  wave |-> m.wave, disabled |-> d]
    BY <1>3
  <1>7. r = [name |-> m.name, version |-> m.version, ns |-> k, wave |-> m.wave, disabled |-> d]
    BY <1>4, <1>5, <1>6 DEF OwnedOf
  <1>8. k = (IF m.ns = "" THEN NoNs ELSE m.ns) /\ k # ""
    BY <1>2, <1>5, PruningAssumption
  <1>9. r.name = m.name /\ r.ns = k
    BY <1>7
  <1> QED BY <1>8, <1>9

\* A row stands for the object of the manifest it was written from.
LEMMA RowRoundTrip ==
  ASSUME NEW m PROVE ObjectOf(Identity(OwnedOf(RowOf(m)))) = ObjectOf(Identity(m))
  <1>1. PICK r : r = OwnedOf(RowOf(m))
    OBVIOUS
  <1>2. r.name = m.name /\ r.ns # "" /\ r.ns = (IF m.ns = "" THEN NoNs ELSE m.ns)
    BY <1>1, OwnedShape
  <1>3. (IF r.ns = "" THEN NoNs ELSE r.ns) = (IF m.ns = "" THEN NoNs ELSE m.ns)
    BY <1>2
  <1>4. ObjectOf(Identity(r)) = ObjectOf(Identity(m))
    BY <1>2, <1>3, ObjectShape
  <1> QED BY <1>1, <1>4

LEMMA PruneStart == PruningInit => PruneInv
  BY DEF PruningInit, PruneInv, ObjectsAccounted

LEMMA SyncBeginsStep ==
  ASSUME PruneInv, NEW commit, NEW automated, SyncBegins(commit, automated)
  PROVE  PruneInv'
  BY DEF PruneInv, SyncBegins, ObjectsAccounted, Owned, ObjectsOf, SyncShape, Applying

\* The fields of a sync under way after a step that changes one of them.
LEMMA SyncUpdated ==
  ASSUME SyncShape, NEW S
  PROVE  /\ [sync EXCEPT !.toApply = S] =
              [manifests |-> sync.manifests, automated |-> sync.automated, toApply |-> S,
               toPrune |-> sync.toPrune, phase |-> sync.phase]
         /\ [sync EXCEPT !.toPrune = S] =
              [manifests |-> sync.manifests, automated |-> sync.automated,
               toApply |-> sync.toApply, toPrune |-> S, phase |-> sync.phase]
         /\ [sync EXCEPT !.phase = "prune", !.toPrune = S] =
              [manifests |-> sync.manifests, automated |-> sync.automated,
               toApply |-> sync.toApply, toPrune |-> S, phase |-> "prune"]
  <1>1. PICK a, b, c, d, e : a = sync.manifests /\ b = sync.toApply /\ c = sync.toPrune
                             /\ d = sync.phase /\ e = sync.automated
    OBVIOUS
  <1>2. sync = [manifests |-> a, automated |-> e, toApply |-> b, toPrune |-> c, phase |-> d]
    BY <1>1 DEF SyncShape
  <1>3. [sync EXCEPT !.toApply = S] =
          [manifests |-> a, automated |-> e, toApply |-> S, toPrune |-> c, phase |-> d]
    BY <1>2
  <1>4. [sync EXCEPT !.toPrune = S] =
          [manifests |-> a, automated |-> e, toApply |-> b, toPrune |-> S, phase |-> d]
    BY <1>2
  <1>5. [sync EXCEPT !.phase = "prune", !.toPrune = S] =
          [manifests |-> a, automated |-> e, toApply |-> b, toPrune |-> S, phase |-> "prune"]
    <2>1. PICK u : u = [sync EXCEPT !.phase = "prune"]
      OBVIOUS
    <2>2. u = [manifests |-> a, automated |-> e, toApply |-> b, toPrune |-> c, phase |-> "prune"]
      BY <1>2, <2>1
    <2>3. [u EXCEPT !.toPrune = S] =
            [manifests |-> a, automated |-> e, toApply |-> b, toPrune |-> S, phase |-> "prune"]
      BY <2>2
    <2> QED BY <2>1, <2>3
  <1> QED BY <1>1, <1>3, <1>4, <1>5

LEMMA ApplyOneStep == ASSUME PruneInv, NEW m, ApplyOne(m) PROVE PruneInv'
  <1>1. SyncShape /\ sync.phase = "apply" /\ Applying /\ m \in sync.toApply
    BY DEF PruneInv, ApplyOne, SyncShape, Deleting
  <1>2. sync' = [manifests |-> sync.manifests, automated |-> sync.automated,
                 toApply |-> sync.toApply \ {m}, toPrune |-> sync.toPrune, phase |-> sync.phase]
    BY <1>1, SyncUpdated DEF ApplyOne
  <1>3. SyncShape' /\ sync'.phase = "apply"
    BY <1>1, <1>2 DEF SyncShape
  <1>4. Applying'
    BY <1>1, <1>2 DEF Applying, ApplyOne
  <1>5. ObjectsAccounted'
    BY DEF PruneInv, ApplyOne, ObjectsAccounted, Owned, ObjectsOf
  <1> QED BY <1>3, <1>4, <1>5 DEF PruneInv

LEMMA PlanPruneStep == ASSUME PruneInv, PlanPrune PROVE PruneInv'
  <1>1. SyncShape /\ Applying /\ sync.toApply = {} /\ UNCHANGED <<objects, ownedRows, unrecorded>>
    BY DEF PruneInv, PlanPrune
  <1>2. PICK P : P = IF sync.automated THEN ComputePruneSet(Owned, sync.manifests) ELSE {}
    OBVIOUS
  <1>3. sync' = [manifests |-> sync.manifests, automated |-> sync.automated, toApply |-> {},
                 toPrune |-> P, phase |-> "prune"]
    BY <1>1, <1>2, SyncUpdated DEF PlanPrune, Owned
  <1>4. /\ sync'.manifests = sync.manifests /\ sync'.automated = sync.automated
        /\ sync'.toApply = {} /\ sync'.toPrune = P /\ sync'.phase = "prune"
    BY <1>3
  <1>5. /\ spared \subseteq spared'
        /\ \A r \in Owned : r.disabled => ObjectOf(Identity(r)) \in spared'
        /\ \A r \in ComputePruneSet(Owned, sync.manifests) :
             r \in Owned /\ ~sync.automated => ObjectOf(Identity(r)) \in spared'
    BY DEF PlanPrune, Owned
  <1>6. SyncShape'
    BY <1>3, <1>4 DEF SyncShape
  <1>7. objects \subseteq ObjectsOf(sync.manifests) \cup spared' \cup unrecorded \cup ObjectsOf(P)
    <2> SUFFICES ASSUME NEW o \in objects, o \notin spared \cup unrecorded
                 PROVE  o \in ObjectsOf(sync.manifests) \cup spared' \cup ObjectsOf(P)
      BY <1>5
    <2>1. PICK r \in Owned : o = ObjectOf(Identity(r))
      BY DEF PruneInv, ObjectsAccounted, ObjectsOf
    <2>2. CASE r.disabled
      BY <1>5, <2>1, <2>2
    <2>3. CASE Identity(r) \in {Identity(m) : m \in sync.manifests}
      BY <2>1, <2>3 DEF ObjectsOf
    <2>4. CASE ~r.disabled /\ Identity(r) \notin {Identity(m) : m \in sync.manifests}
      <3>1. r \in ComputePruneSet(Owned, sync.manifests)
        BY <2>4 DEF ComputePruneSet
      <3>2. CASE sync.automated
        BY <1>2, <2>1, <3>1, <3>2 DEF ObjectsOf
      <3>3. CASE ~sync.automated
        BY <1>5, <2>1, <3>1, <3>3
      <3> QED BY <3>2, <3>3
    <2> QED BY <2>2, <2>3, <2>4
  <1>8. \A r \in P : sync.automated /\ Unwanted(r)
    BY <1>2 DEF ComputePruneSet, Unwanted
  <1>9. (\A r \in sync.toPrune : sync.automated /\ Unwanted(r))'
    BY <1>1, <1>4, <1>8 DEF Unwanted, Owned
  <1>10. Deleting'
    BY <1>1, <1>4, <1>7, <1>9 DEF Deleting, Applying, ObjectsOf
  <1>11. ObjectsAccounted'
    BY <1>1, <1>5 DEF PruneInv, ObjectsAccounted, Owned, ObjectsOf
  <1> QED BY <1>4, <1>6, <1>10, <1>11 DEF PruneInv

\* The object deleted is wanted only if the rows know it under an identity of their own.
LEMMA DeleteOneStep == ASSUME PruneInv, NEW r, DeleteOne(r) PROVE PruneInv'
  <1>1. SyncShape /\ Deleting /\ sync.phase = "prune" /\ r \in sync.toPrune
    BY DEF PruneInv, DeleteOne, SyncShape, Applying
  <1>2. sync' = [manifests |-> sync.manifests, automated |-> sync.automated,
                 toApply |-> sync.toApply, toPrune |-> sync.toPrune \ {r}, phase |-> sync.phase]
    BY <1>1, SyncUpdated DEF DeleteOne
  <1>3. /\ sync'.manifests = sync.manifests /\ sync'.automated = sync.automated
        /\ sync'.toApply = sync.toApply /\ sync'.toPrune = sync.toPrune \ {r}
        /\ sync'.phase = "prune"
    BY <1>1, <1>2
  <1>4. SyncShape'
    BY <1>1, <1>2, <1>3 DEF SyncShape
  <1>5. objects' = objects \ {ObjectOf(Identity(r))} /\ UNCHANGED <<ownedRows, unrecorded, spared>>
    BY DEF DeleteOne
  <1>6. ASSUME NEW m \in sync.manifests
        PROVE  ObjectOf(Identity(m)) \in objects' \/ (sync.automated /\ KnownOtherwise(m))
    <2>1. CASE ObjectOf(Identity(m)) = ObjectOf(Identity(r))
      BY <1>1, <2>1 DEF Deleting, Unwanted, KnownOtherwise, Owned
    <2> QED BY <1>1, <1>5, <2>1 DEF Deleting
  <1>7. ASSUME NEW m PROVE KnownOtherwise(m) => KnownOtherwise(m)'
    BY <1>3, <1>5 DEF KnownOtherwise
  <1>8. (\A q \in sync.toPrune : sync.automated /\ Unwanted(q))'
    BY <1>1, <1>3, <1>5 DEF Deleting, Unwanted, Owned
  <1>9. objects' \subseteq ObjectsOf(sync'.manifests) \cup spared' \cup unrecorded'
                             \cup ObjectsOf(sync'.toPrune)
    BY <1>1, <1>3, <1>5 DEF Deleting, ObjectsOf
  <1>10. Deleting'
    BY <1>1, <1>3, <1>6, <1>7, <1>8, <1>9 DEF Deleting, ObjectsOf
  <1>11. ObjectsAccounted'
    BY <1>5 DEF PruneInv, ObjectsAccounted, Owned, ObjectsOf
  <1> QED BY <1>3, <1>4, <1>10, <1>11 DEF PruneInv

LEMMA RecordOwnedStep == ASSUME PruneInv, RecordOwned PROVE PruneInv'
  <1>1. SyncShape /\ Deleting /\ sync.toPrune = {} /\ sync' = IdleSync
    BY DEF PruneInv, RecordOwned
  <1>2. /\ ownedRows' = {RowOf(m) : m \in sync.manifests}
        /\ unrecorded' = unrecorded \ ObjectsOf(sync.manifests)
        /\ spared' = spared \ ObjectsOf(sync.manifests) /\ UNCHANGED objects
    BY DEF RecordOwned, ObjectsOf
  <1>3. ObjectsAccounted'
    <2>1. ASSUME NEW m \in sync.manifests PROVE ObjectOf(Identity(m)) \in ObjectsOf(Owned')
      <3>1. OwnedOf(RowOf(m)) \in Owned'
        BY <1>2 DEF Owned
      <3> QED BY <3>1, RowRoundTrip DEF ObjectsOf
    <2>2. objects \subseteq ObjectsOf(sync.manifests) \cup spared \cup unrecorded
      BY <1>1 DEF Deleting, ObjectsOf
    <2> QED BY <1>2, <2>1, <2>2 DEF ObjectsAccounted, ObjectsOf
  <1> QED BY <1>1, <1>3 DEF PruneInv

LEMMA PruneStep == PruneInv /\ [PruningNext]_pruneVars => PruneInv'
  <1> SUFFICES ASSUME PruneInv, [PruningNext]_pruneVars PROVE PruneInv'
    OBVIOUS
  <1>1. CASE SyncFails
    BY <1>1 DEF SyncFails, PruneInv, ObjectsAccounted, Owned, ObjectsOf
  <1>2. CASE UNCHANGED pruneVars
    BY <1>2 DEF pruneVars, PruneInv, ObjectsAccounted, Owned, ObjectsOf,
       SyncShape, Applying, Deleting, Unwanted, KnownOtherwise
  <1>3. CASE \E r \in sync.toPrune : DeleteOne(r)
    BY <1>3, DeleteOneStep
  <1> QED BY <1>1, <1>2, <1>3, SyncBeginsStep, ApplyOneStep, PlanPruneStep, RecordOwnedStep
          DEF PruningNext

\* compute_prune_set and replace_owned_resources: the inductive invariant holds for any
\* manifests and any number of syncs, failed ones included.
THEOREM PruningInvariant == PruningSpec => []PruneInv
  BY PruneStart, PruneStep, PTL DEF PruningSpec

\* A sync that has finished its deletes leaves the app with every object git asks for, but
\* those the rows know under an identity the commit does not have, and, what was spared or
\* never recorded aside, with no other.
THEOREM PrunedExactly == PruningSpec => []PruneExact
  <1>1. PruneInv => PruneExact
    BY DEF PruneInv, Deleting, PruneExact, ObjectsOf
  <1> QED BY <1>1, PruningInvariant, PTL

-----------------------------------------------------------------------------
(* Records.  An update writes back a copy of the row it loaded, so the row *)
(* is as intended only as long as every copy in flight is the present row  *)
(* with one field edited: that is what a write inside the window breaks.   *)

Columns == {"id", "left", "right", "status"}

Accepted(r) == DOMAIN r = Columns /\ r.id # 0 /\ Valid(r)

CopyCurrent(q) ==
  request[q].row = [row EXCEPT ![request[q].field] = request[q].row[request[q].field]]

RequestsHold ==
  /\ DOMAIN request = Requests
  /\ \A q \in Requests : request[q] # Resting =>
       /\ request[q].field \in Fields
       /\ Accepted(request[q].row)
       /\ ~overlapped => CopyCurrent(q)

RowHolds ==
  /\ row # NoRow => Accepted(row)
  /\ ~overlapped => row = intended \/ (cut /\ row = NoRow)

RefsHold == (row = NoRow => refs = {}) /\ \A r \in refs : r.app = row.id

RecordsInv == lastId \in Nat /\ overlapped \in BOOLEAN /\ RequestsHold /\ RowHolds /\ RefsHold

LEMMA RecordsStart == RecordsInit => RecordsInv
  <1> SUFFICES ASSUME RecordsInit PROVE RecordsInv
    OBVIOUS
  <1>1. /\ lastId = 0 /\ overlapped = FALSE /\ row = NoRow /\ intended = NoRow /\ refs = {}
        /\ request = [q \in Requests |-> Resting]
    BY DEF RecordsInit
  <1>2. RequestsHold
    BY <1>1 DEF RequestsHold
  <1>3. RowHolds /\ RefsHold
    BY <1>1 DEF RowHolds, RefsHold
  <1> QED BY <1>1, <1>2, <1>3 DEF RecordsInv

\* A deletion and its cascade take every reference.
LEMMA CascadeTakesAll == ASSUME RefsHold PROVE Cascade(refs) = {}
  BY DEF RefsHold, Cascade

LEMMA CreateRowStep ==
  ASSUME RecordsInv, NEW l, NEW r, CreateRow(l, r)
  PROVE  RecordsInv'
  <1>1. PICK new : new = [id |-> lastId + 1, left |-> l, right |-> r, status |-> "Unknown"]
    OBVIOUS
  <1>2. /\ row = NoRow /\ Valid(new) /\ lastId' = lastId + 1 /\ row' = new /\ intended' = new
        /\ overlapped' = (overlapped \/ Holding # {}) /\ UNCHANGED <<table, refs, request>>
    BY <1>1 DEF CreateRow
  <1>3. DOMAIN new = Columns /\ new.id # 0
    BY <1>1 DEF RecordsInv, Columns
  <1>4. Accepted(new)'
    BY <1>2, <1>3 DEF Accepted, Valid
  <1>5. RowHolds'
    BY <1>2, <1>4 DEF RowHolds
  <1>6. RefsHold'
    BY <1>2 DEF RecordsInv, RefsHold
  <1>7. RequestsHold'
    <2>1. ASSUME NEW q \in Requests, request[q] # Resting PROVE overlapped'
      BY <1>2, <2>1 DEF Holding
    <2> QED BY <1>2, <2>1 DEF RecordsInv, RequestsHold, Accepted, Valid
  <1> QED BY <1>2, <1>5, <1>6, <1>7 DEF RecordsInv

LEMMA DeleteRowStep == ASSUME RecordsInv, DeleteRow, UNCHANGED table PROVE RecordsInv'
  <1>1. /\ row' = NoRow /\ intended' = NoRow /\ refs' = {} /\ UNCHANGED <<request, lastId>>
        /\ overlapped' = (overlapped \/ Holding # {})
    BY CascadeTakesAll DEF RecordsInv, DeleteRow
  <1>2. RequestsHold'
    <2>1. ASSUME NEW q \in Requests, request[q] # Resting PROVE overlapped'
      BY <1>1, <2>1 DEF Holding
    <2> QED BY <1>1, <2>1 DEF RecordsInv, RequestsHold, Accepted, Valid
  <1> QED BY <1>1, <1>2 DEF RecordsInv, RowHolds, RefsHold

LEMMA LoadStep ==
  ASSUME RecordsInv, NEW q \in Requests, NEW f \in Fields, NEW v, LoadForUpdate(q, f, v)
  PROVE  RecordsInv'
  <1>1. PICK c : c = [row EXCEPT ![f] = v]
    OBVIOUS
  <1>2. PICK t : t = [field |-> f, row |-> c]
    OBVIOUS
  <1>3. /\ Accepted(row) /\ Valid(c) /\ request' = [request EXCEPT ![q] = t]
        /\ UNCHANGED <<table, row, refs, lastId, intended, overlapped, cut>>
    BY <1>1, <1>2 DEF LoadForUpdate, Edited, RecordsInv, RowHolds
  <1>4. DOMAIN c = Columns /\ c[f] = v /\ c["id"] = row["id"]
    BY <1>1, <1>3 DEF Accepted, Columns, Fields
  <1>5. Accepted(c)'
    <2>1. c.id # 0
      BY <1>3, <1>4, Zenon DEF Accepted
    <2> QED BY <1>3, <1>4, <2>1 DEF Accepted, Valid
  <1>6. RequestsHold'
    <2>1. DOMAIN request' = Requests /\ request'[q] = t /\ t.field = f /\ t.row = c
      BY <1>2, <1>3 DEF RecordsInv, RequestsHold
    <2>2. request'[q].field \in Fields /\ Accepted(request[q].row)' /\ CopyCurrent(q)'
      BY <1>1, <1>3, <1>4, <1>5, <2>1 DEF CopyCurrent
    <2>3. ASSUME NEW p \in Requests, p # q, request'[p] # Resting
          PROVE  /\ request'[p].field \in Fields /\ Accepted(request[p].row)'
                 /\ ~overlapped' => CopyCurrent(p)'
      <3>1. request'[p] = request[p]
        BY <1>3, <2>3 DEF RecordsInv, RequestsHold
      <3> QED BY <1>3, <2>3, <3>1 DEF RecordsInv, RequestsHold, Accepted, Valid, CopyCurrent
    <2> QED BY <2>1, <2>2, <2>3 DEF RequestsHold
  <1> QED BY <1>3, <1>6 DEF RecordsInv, RowHolds, RefsHold, Accepted, Valid

LEMMA WriteUpdateStep == ASSUME RecordsInv, NEW q \in Requests, WriteUpdate(q) PROVE RecordsInv'
  <1>1. PICK f, c : f = request[q].field /\ c = request[q].row
    OBVIOUS
  <1>2. /\ f \in Fields /\ Accepted(c) /\ (~overlapped => c = [row EXCEPT ![f] = c[f]])
        /\ DOMAIN request = Requests
    BY <1>1 DEF WriteUpdate, RecordsInv, RequestsHold, CopyCurrent
  <1>3. /\ row' = c /\ refs' = {} /\ request' = [request EXCEPT ![q] = Resting]
        /\ intended' = [intended EXCEPT ![f] = c[f]]
        /\ overlapped' = (overlapped \/ Holding # {q}) /\ UNCHANGED <<table, lastId>>
    BY <1>1, CascadeTakesAll DEF WriteUpdate, RecordsInv
  <1>4. RowHolds'
    <2>1. ~overlapped => row = intended
      <3>1. ~overlapped => c["id"] = row["id"]
        BY <1>2 DEF Fields, Columns, Accepted
      <3>2. c["id"] # 0 /\ NoRow["id"] = 0
        BY <1>2 DEF Accepted, NoRow
      <3> QED BY <3>1, <3>2 DEF RecordsInv, RowHolds
    <2>2. ~overlapped' => row' = intended'
      BY <1>2, <1>3, <2>1
    <2>3. Accepted(row)'
      BY <1>2, <1>3 DEF Accepted, Valid
    <2> QED BY <2>2, <2>3 DEF RowHolds
  <1>5. RequestsHold'
    <2>1. ASSUME NEW p \in Requests, request'[p] # Resting
          PROVE  p # q /\ request'[p] = request[p] /\ overlapped'
      <3>1. p # q /\ request'[p] = request[p]
        BY <1>2, <1>3, <2>1
      <3>2. Holding # {q}
        BY <2>1, <3>1 DEF Holding
      <3> QED BY <1>3, <3>1, <3>2
    <2>2. DOMAIN request' = Requests
      BY <1>2, <1>3
    <2> QED BY <1>3, <2>1, <2>2 DEF RecordsInv, RequestsHold, Accepted, Valid
  <1>6. RefsHold'
    BY <1>3 DEF RefsHold
  <1> QED BY <1>3, <1>4, <1>5, <1>6 DEF RecordsInv

LEMMA WriteOutcomeStep == ASSUME RecordsInv, NEW s, WriteOutcome(s) PROVE RecordsInv'
  <1>1. PICK c : c = [row EXCEPT !.status = s]
    OBVIOUS
  <1>2. /\ Accepted(row) /\ row' = c /\ intended' = [intended EXCEPT !.status = s]
        /\ refs' = refs \cup {Reference("history")}
        /\ overlapped' = (overlapped \/ Holding # {}) /\ UNCHANGED <<table, request, lastId>>
    BY <1>1 DEF WriteOutcome, RecordsInv, RowHolds
  <1>3. DOMAIN c = Columns /\ c.id = row.id /\ c.left = row.left /\ c.right = row.right
    BY <1>1, <1>2 DEF Accepted, Columns
  <1>4. Accepted(row)'
    BY <1>2, <1>3 DEF Accepted, Valid
  <1>5. RowHolds'
    <2>1. row # NoRow
      BY DEF WriteOutcome
    <2> QED BY <1>1, <1>2, <1>4, <2>1 DEF RowHolds, RecordsInv
  <1>6. RefsHold'
    <2>1. row' # NoRow
      BY <1>4 DEF Accepted, NoRow
    <2> QED BY <1>2, <1>3, <2>1 DEF RecordsInv, RefsHold, Reference
  <1>7. RequestsHold'
    <2>1. ASSUME NEW q \in Requests, request[q] # Resting PROVE overlapped'
      BY <1>2, <2>1 DEF Holding
    <2> QED BY <1>2, <2>1 DEF RecordsInv, RequestsHold, Accepted, Valid
  <1> QED BY <1>2, <1>5, <1>6, <1>7 DEF RecordsInv

LEMMA RecordRevisionStep == ASSUME RecordsInv, RecordRevision PROVE RecordsInv'
  <1>1. /\ row # NoRow /\ UNCHANGED <<table, row, request, lastId, intended, overlapped, cut>>
        /\ refs' \subseteq refs \cup {Reference("revision")}
    BY DEF RecordRevision, Trimmed
  <1>2. RefsHold'
    BY <1>1 DEF RecordsInv, RefsHold, Reference
  <1> QED BY <1>1, <1>2 DEF RecordsInv, RequestsHold, RowHolds, Accepted, Valid, CopyCurrent

LEMMA RecordsCrashStep == ASSUME RecordsInv, Crash PROVE RecordsInv'
  <1>1. UNCHANGED <<table, overlapped, lastId>> /\ request' = [q \in Requests |-> Resting]
    BY DEF Crash
  <1>2. RequestsHold'
    BY <1>1 DEF RequestsHold
  <1>3. CASE UNCHANGED <<row, refs, cut, intended>>
    BY <1>1, <1>2, <1>3 DEF RecordsInv, RowHolds, RefsHold, Accepted, Valid
  <1>4. CASE LostBetween
    BY <1>1, <1>2, <1>4, CascadeTakesAll DEF RecordsInv, RowHolds, RefsHold, LostBetween
  <1> QED BY <1>3, <1>4 DEF Crash

\* Whoever still holds a copy of the lost row has a write inside its window.
LEMMA InsertFailsStep == ASSUME RecordsInv, NEW q \in Requests, InsertFails(q) PROVE RecordsInv'
  <1>1. /\ row' = NoRow /\ refs' = {} /\ cut' /\ UNCHANGED <<table, lastId, intended>>
        /\ overlapped' = (overlapped \/ Holding # {q})
        /\ request' = [request EXCEPT ![q] = Resting] /\ DOMAIN request = Requests
    BY CascadeTakesAll DEF InsertFails, LostBetween, RecordsInv, RequestsHold
  <1>2. RequestsHold'
    <2>1. ASSUME NEW p \in Requests, request'[p] # Resting
          PROVE  p # q /\ request'[p] = request[p] /\ overlapped'
      <3>1. p # q /\ request'[p] = request[p]
        BY <1>1, <2>1
      <3>2. Holding # {q}
        BY <2>1, <3>1 DEF Holding
      <3> QED BY <1>1, <3>1, <3>2
    <2>2. DOMAIN request' = Requests
      BY <1>1
    <2> QED BY <1>1, <2>1, <2>2 DEF RecordsInv, RequestsHold, Accepted, Valid
  <1> QED BY <1>1, <1>2 DEF RecordsInv, RowHolds, RefsHold

LEMMA RecordsStep == RecordsInv /\ [RecordsNext]_recordVars => RecordsInv'
  <1> SUFFICES ASSUME RecordsInv, [RecordsNext]_recordVars PROVE RecordsInv'
    OBVIOUS
  <1>1. CASE ApplyMigration \/ OpenDatabase \/ UNCHANGED recordVars
    <2>1. UNCHANGED <<table, row, refs, request, lastId, intended, overlapped, cut>>
      BY <1>1 DEF ApplyMigration, OpenDatabase, recordVars
    <2> QED BY <2>1 DEF RecordsInv, RequestsHold, RowHolds, RefsHold, Accepted, Valid, CopyCurrent
  <1>2. CASE RecordRevision \/ Crash \/ \E s \in {"Synced", "SyncFailed"} : WriteOutcome(s)
    BY <1>2, RecordRevisionStep, RecordsCrashStep, WriteOutcomeStep
  <1>3. CASE CreateApp
    BY <1>3, CreateRowStep DEF CreateApp
  <1>4. CASE \E l \in Inputs("left"), r \in Inputs("right") : CreateCluster(l, r) \/ CreateRepo(l, r)
    BY <1>4, CreateRowStep DEF CreateCluster, CreateRepo
  <1>5. CASE DeleteApp \/ DeleteCluster \/ DeleteRepo
    BY <1>5, DeleteRowStep DEF DeleteApp, DeleteCluster, DeleteRepo, DeleteRow
  <1>6. ASSUME NEW q \in Requests, NEW f \in Fields, NEW v,
               UpdateApp(q, f, v) \/ UpdateCluster(q, f, v) \/ UpdateRepo(q, f, v)
        PROVE  RecordsInv'
    BY <1>6, LoadStep DEF UpdateApp, UpdateCluster, UpdateRepo
  <1> QED BY <1>1, <1>2, <1>3, <1>4, <1>5, <1>6, WriteUpdateStep, InsertFailsStep DEF RecordsNext

\* The handlers and the status writer: the inductive invariant holds for any number of
\* requests, rows, records and crashes.
THEOREM RecordsInvariant == RecordsSpec => []RecordsInv
  BY RecordsStart, RecordsStep, PTL DEF RecordsSpec

\* An edit, a status or a deletion is lost only when a write landed inside an update's
\* window, or with the whole row when a crash or a failed insert came after an update's
\* delete; the row is always one the handlers accept, and no reference dangles.
THEOREM RowsKeepEdits == RecordsSpec => []EditsKept
  <1>1. RecordsInv => EditsKept
    BY DEF RecordsInv, RowHolds, RefsHold, Accepted, Valid, ValidateAuth, ConfigBuilds, EditsKept
  <1> QED BY <1>1, RecordsInvariant, PTL

-----------------------------------------------------------------------------
(* Health.  A status says what its report saw, and of the pods of an older *)
(* template only the total, the rolling flag or the node count tell.       *)

Verdicts == {"Healthy", "Progressing", "Suspended", "Unknown", "Missing", "Degraded"}
WorkloadStatus == [observed : Nat, updated : Nat, available : Nat, total : Nat, desired : Nat,
                   deadline : BOOLEAN, rolling : BOOLEAN]
AnyStatus == WorkloadStatus \cup (UNION {Reports(k) : k \in OtherKinds}) \cup {Unreported}
AnySpec == [replicas : Nat, paused : BOOLEAN, balanced : BOOLEAN]
AnyObject == [kind : Workloads \cup OtherKinds, generation : Nat, spec : AnySpec, status : AnyStatus]

HealthTypes ==
  /\ object \in [Resources -> AnyObject] /\ present \subseteq Resources
  /\ pods \in [Resources -> [new : Nat, ready : Nat, old : Nat]]
  /\ seen \in [Resources -> [generation : Nat, ready : Nat, old : Nat]]

\* A DaemonSet replaces the pod of a node only after the old one is gone.
OnePodPerNode ==
  \A r \in Resources : object[r].kind = "DaemonSet" =>
    pods[r].new + pods[r].old <= object[r].spec.replicas

ReportFaithful(r) ==
  object[r].kind \in Workloads /\ object[r].status # Unreported =>
    /\ object[r].status \in WorkloadStatus
    /\ seen[r].generation = object[r].status.observed
    /\ object[r].status.available = seen[r].ready + seen[r].old
    /\ object[r].status.total = object[r].status.updated + seen[r].old
    /\ object[r].status.rolling = FALSE => seen[r].old = 0
    /\ object[r].kind = "DaemonSet" =>
         /\ object[r].status.desired = object[r].spec.replicas
         /\ object[r].status.updated + seen[r].old <= object[r].status.desired

HealthInv == HealthTypes /\ OnePodPerNode /\ \A r \in Resources : ReportFaithful(r)

\* Every rule gives a verdict, so the worst of them is one of them.
LEMMA RulesAnswer ==
  ASSUME NEW o, o.kind \in Workloads \cup OtherKinds
  PROVE  Assess(o) \in Verdicts /\ AssessWithOverrides(o) \in Verdicts
  <1>1. /\ AssessDeployment(o) \in Verdicts /\ AssessStatefulSet(o) \in Verdicts
        /\ AssessDaemonSet(o) \in Verdicts
    BY DEF AssessDeployment, AssessStatefulSet, AssessDaemonSet, Verdicts
  <1>2. /\ AssessJob(o) \in Verdicts /\ AssessPod(o) \in Verdicts /\ AssessPvc(o) \in Verdicts
        /\ AssessIngress(o) \in Verdicts /\ AssessService(o) \in Verdicts
        /\ AssessCrd(o) \in Verdicts /\ AssessHpa(o) \in Verdicts
    BY DEF AssessJob, AssessPod, AssessPvc, AssessIngress, AssessService, AssessCrd, AssessHpa,
       Verdicts
  <1>3. AssessByConditions(o) \in Verdicts \cup {""} /\ AssessByRule(o) \in Verdicts \cup {""}
    BY DEF AssessByConditions, AssessByRule, EvalRule, Severity, Verdicts
  <1>4. AssessTier1(o) \in Verdicts \cup {""}
    <2>1. CASE o.kind \in {"Deployment", "StatefulSet", "DaemonSet", "Job", "Service", "Ingress"}
      BY <1>1, <1>2, <2>1 DEF AssessTier1
    <2>2. CASE o.kind = "Custom"
      BY <2>2 DEF AssessTier1
    <2>3. CASE /\ o.kind \in {"Pod", "PersistentVolumeClaim", "CustomResourceDefinition",
                               "HorizontalPodAutoscaler"}
               /\ o.status # Unreported
      BY <1>2, <2>3 DEF AssessTier1
    <2>4. CASE /\ o.kind \in {"Pod", "PersistentVolumeClaim", "CustomResourceDefinition",
                               "HorizontalPodAutoscaler"}
               /\ o.status = Unreported
      BY <2>4 DEF AssessTier1, Verdicts
    <2> QED BY <2>1, <2>2, <2>3, <2>4 DEF Workloads, OtherKinds
  <1>5. Assess(o) \in Verdicts
    BY <1>3, <1>4 DEF Assess, FirstAnswer, Verdicts
  <1> QED BY <1>3, <1>4, <1>5 DEF AssessWithOverrides, FirstAnswer

LEMMA WorstHealthy ==
  ASSUME NEW V \in SUBSET Verdicts, Worst(V) = "Healthy"
  PROVE  V \subseteq {"Healthy"}
  <1>1. /\ Severity["Healthy"] = 0 /\ Severity["Progressing"] = 1 /\ Severity["Suspended"] = 2
        /\ Severity["Unknown"] = 3 /\ Severity["Missing"] = 4 /\ Severity["Degraded"] = 5
    BY DEF Severity
  <1>2. V # {} => \E v \in V : \A w \in V : Severity[v] >= Severity[w]
    <2> DEFINE Top(v) == v \in V /\ \A w \in V : Severity[v] >= Severity[w]
    <2> SUFFICES ASSUME V # {} PROVE \E v : Top(v)
      OBVIOUS
    <2>1. CASE "Degraded" \in V
      <3>1. Top("Degraded")
        BY <1>1, <2>1 DEF Verdicts
      <3> QED BY <3>1
    <2>2. CASE "Degraded" \notin V /\ "Missing" \in V
      <3>1. Top("Missing")
        BY <1>1, <2>2 DEF Verdicts
      <3> QED BY <3>1
    <2>3. CASE V \cap {"Degraded", "Missing"} = {} /\ "Unknown" \in V
      <3>1. Top("Unknown")
        BY <1>1, <2>3 DEF Verdicts
      <3> QED BY <3>1
    <2>4. CASE V \cap {"Degraded", "Missing", "Unknown"} = {} /\ "Suspended" \in V
      <3>1. Top("Suspended")
        BY <1>1, <2>4 DEF Verdicts
      <3> QED BY <3>1
    <2>5. CASE /\ V \cap {"Degraded", "Missing", "Unknown", "Suspended"} = {}
               /\ "Progressing" \in V
      <3>1. Top("Progressing")
        BY <1>1, <2>5 DEF Verdicts
      <3> QED BY <3>1
    <2>6. CASE V = {"Healthy"}
      <3>1. Top("Healthy")
        BY <1>1, <2>6
      <3> QED BY <3>1
    <2> QED BY <2>1, <2>2, <2>3, <2>4, <2>5, <2>6 DEF Verdicts
  <1>3. ASSUME V # {} PROVE \A w \in V : Severity["Healthy"] >= Severity[w]
    BY <1>2, <1>3 DEF Worst
  <1> QED BY <1>1, <1>3 DEF Verdicts

\* What a workload's verdict needs: a report about this generation, and no pod that is old
\* or not ready in it.
LEMMA WorkloadHonest ==
  ASSUME HealthInv, NEW r \in Resources, object[r].kind \in Workloads,
         Assess(object[r]) = "Healthy" \/ AssessWithOverrides(object[r]) = "Healthy"
  PROVE  /\ seen[r].generation = object[r].generation
         /\ seen[r].ready >= object[r].spec.replicas
         /\ seen[r].old = 0
  <1>1. PICK o \in AnyObject : o = object[r]
    BY DEF HealthInv, HealthTypes
  <1>2. /\ o.kind \in Workloads /\ ReportFaithful(r) /\ o.spec.replicas \in Nat
        /\ seen[r].ready \in Nat /\ seen[r].old \in Nat
    BY <1>1 DEF HealthInv, HealthTypes, AnyObject, AnySpec
  <1>3. /\ AssessDeployment(o) \in Verdicts /\ AssessStatefulSet(o) \in Verdicts
        /\ AssessDaemonSet(o) \in Verdicts
    BY DEF AssessDeployment, AssessStatefulSet, AssessDaemonSet, Verdicts
  <1>4. AssessTier1(o) = "Healthy"
    <2>1. AssessTier1(o) \in Verdicts
      BY <1>2, <1>3 DEF AssessTier1, Workloads
    <2> QED BY <1>1, <2>1 DEF Assess, AssessWithOverrides, FirstAnswer, Verdicts
  <1>5. o.status # Unreported /\ o.status.observed = o.generation
    <2>1. ~GenerationDrift(o)
      BY <1>2, <1>4 DEF AssessTier1, AssessDeployment, AssessStatefulSet, AssessDaemonSet, Workloads
    <2> QED BY <2>1 DEF GenerationDrift
  <1>6. /\ o.status \in WorkloadStatus /\ seen[r].generation = o.status.observed
        /\ o.status.available = seen[r].ready + seen[r].old
        /\ o.status.total = o.status.updated + seen[r].old
        /\ o.status.rolling = FALSE => seen[r].old = 0
        /\ o.kind = "DaemonSet" => /\ o.status.desired = o.spec.replicas
                                    /\ o.status.updated + seen[r].old <= o.status.desired
    BY <1>1, <1>2, <1>5 DEF ReportFaithful
  <1>7. PICK u, v, t, d : /\ u = o.status.updated /\ v = o.status.available
                          /\ t = o.status.total /\ d = o.status.desired
    OBVIOUS
  <1>8. u \in Nat /\ v \in Nat /\ t \in Nat /\ d \in Nat /\ o.status.rolling \in BOOLEAN
    BY <1>6, <1>7 DEF WorkloadStatus
  <1>9. CASE o.kind = "Deployment"
    <2>1. AssessDeployment(o) = "Healthy"
      BY <1>4, <1>9 DEF AssessTier1
    <2>2. ~(u < o.spec.replicas) /\ ~(t > u) /\ ~(v < u)
      BY <1>7, <2>1, Zenon DEF AssessDeployment
    <2> QED BY <1>1, <1>2, <1>5, <1>6, <1>7, <1>8, <2>2
  <1>10. CASE o.kind = "StatefulSet"
    <2>1. AssessStatefulSet(o) = "Healthy"
      BY <1>4, <1>10 DEF AssessTier1
    <2>2. ~(v < o.spec.replicas) /\ ~o.status.rolling
      BY <1>7, <2>1, Zenon DEF AssessStatefulSet
    <2>3. seen[r].old = 0
      BY <1>6, <1>8, <2>2
    <2> QED BY <1>1, <1>2, <1>5, <1>6, <1>7, <1>8, <2>2, <2>3
  <1>11. CASE o.kind = "DaemonSet"
    <2>1. AssessDaemonSet(o) = "Healthy"
      BY <1>4, <1>11 DEF AssessTier1
    <2>2. ~(u < d) /\ ~(v < d)
      BY <1>7, <2>1, Zenon DEF AssessDaemonSet
    <2> QED BY <1>1, <1>2, <1>5, <1>6, <1>7, <1>8, <1>11, <2>2
  <1> QED BY <1>2, <1>9, <1>10, <1>11 DEF Workloads

LEMMA HealthStart == HealthInit => HealthInv
  <1> SUFFICES ASSUME HealthInit PROVE HealthInv
    OBVIOUS
  <1>1. \A r \in Resources : object[r] \in Fresh(Workloads) \cup Fresh(OtherKinds)
    BY DEF HealthInit
  <1>2. ASSUME NEW r \in Resources
        PROVE  object[r] \in AnyObject /\ object[r].status = Unreported
    <2>1. PICK k \in Workloads \cup OtherKinds :
            object[r] \in [kind : {k}, generation : {1}, spec : Specs(k), status : {Unreported}]
      BY <1>1 DEF Fresh
    <2>2. Specs(k) \subseteq AnySpec
      <3>1. PICK R, P, B : /\ R = (IF k = "DaemonSet" THEN {MaxReplicas} ELSE {1})
                           /\ P = (IF k = "Job" THEN BOOLEAN ELSE {FALSE})
                           /\ B = (IF k = "Service" THEN BOOLEAN ELSE {FALSE})
        OBVIOUS
      <3>2. R \subseteq Nat
        BY <3>1, HealthAssumption
      <3>3. P \subseteq BOOLEAN /\ B \subseteq BOOLEAN
        BY <3>1, Zenon
      <3>4. Specs(k) = [replicas : R, paused : P, balanced : B]
        BY <3>1 DEF Specs
      <3>5. [replicas : R, paused : P, balanced : B] \subseteq [replicas : Nat, paused : BOOLEAN, balanced : BOOLEAN]
        BY ONLY <3>2, <3>3
      <3> QED BY <3>4, <3>5 DEF AnySpec
    <2>3. Unreported \in AnyStatus
      BY DEF AnyStatus
    <2>4. [kind : {k}, generation : {1}, spec : Specs(k), status : {Unreported}] \subseteq AnyObject
      BY <2>2, <2>3 DEF AnyObject
    <2>5. object[r].status = Unreported
      BY <2>1
    <2> QED BY <2>1, <2>4, <2>5
  <1>3. /\ DOMAIN object = Resources /\ object = [r \in Resources |-> object[r]]
        /\ present = {}
        /\ pods = [r \in Resources |-> [new |-> 0, ready |-> 0, old |-> 0]]
        /\ seen = [r \in Resources |-> [generation |-> 0, ready |-> 0, old |-> 0]]
    BY DEF HealthInit
  <1>4. HealthTypes
    BY <1>2, <1>3 DEF HealthTypes
  <1>5. OnePodPerNode
    BY <1>2, <1>3 DEF OnePodPerNode, AnyObject, AnySpec
  <1> QED BY <1>2, <1>4, <1>5 DEF HealthInv, ReportFaithful

\* A step of one object, with everything of the others as it was.
LEMMA HealthOneStep ==
  ASSUME HealthInv, NEW r \in Resources, NEW o \in AnyObject,
         NEW p \in [new : Nat, ready : Nat, old : Nat], NEW s \in [generation : Nat, ready : Nat, old : Nat],
         object' = [object EXCEPT ![r] = o], pods' = [pods EXCEPT ![r] = p],
         seen' = [seen EXCEPT ![r] = s], present' = present,
         o.kind = "DaemonSet" => p.new + p.old <= o.spec.replicas, ReportFaithful(r)'
  PROVE  HealthInv'
  <1>1. /\ HealthTypes' /\ object'[r] = o /\ pods'[r] = p /\ seen'[r] = s
        /\ \A q \in Resources \ {r} : object'[q] = object[q] /\ pods'[q] = pods[q] /\ seen'[q] = seen[q]
    BY DEF HealthInv, HealthTypes
  <1>2. OnePodPerNode'
    BY <1>1 DEF HealthInv, OnePodPerNode
  <1>3. \A q \in Resources \ {r} : ReportFaithful(q)'
    BY <1>1 DEF HealthInv, ReportFaithful
  <1> QED BY <1>1, <1>2, <1>3 DEF HealthInv

LEMMA EditWorkloadStep ==
  ASSUME HealthInv, NEW r \in Resources, NEW n \in 0 .. MaxReplicas, NEW z \in BOOLEAN,
         NEW t \in BOOLEAN, EditWorkload(r, n, z, t)
  PROVE  HealthInv'
  <1>1. /\ object[r] \in AnyObject /\ pods[r] \in [new : Nat, ready : Nat, old : Nat]
        /\ seen[r] \in [generation : Nat, ready : Nat, old : Nat] /\ HealthTypes
        /\ ReportFaithful(r) /\ n \in Nat
        /\ object[r].kind = "DaemonSet" => pods[r].new + pods[r].old <= object[r].spec.replicas
    BY HealthAssumption DEF HealthInv, HealthTypes, OnePodPerNode
  <1>2. PICK sp : sp = [object[r].spec EXCEPT !.replicas = n, !.paused = z]
    OBVIOUS
  <1>3. sp \in AnySpec /\ sp.replicas = n
    BY <1>1, <1>2 DEF AnyObject, AnySpec
  <1>4. PICK o : o = [object[r] EXCEPT !.generation = object[r].generation + 1, !.spec = sp]
    OBVIOUS
  <1>5. /\ o \in AnyObject /\ o.kind = object[r].kind /\ o.status = object[r].status
        /\ o.spec = sp
    <2>1. PICK u : u = [object[r] EXCEPT !.generation = object[r].generation + 1]
      OBVIOUS
    <2>2. u \in AnyObject /\ u.kind = object[r].kind /\ u.status = object[r].status
      BY <1>1, <2>1 DEF AnyObject
    <2>3. o = [u EXCEPT !.spec = sp]
      BY <1>4, <2>1
    <2> QED BY <1>3, <2>2, <2>3 DEF AnyObject
  <1>6. object' = [object EXCEPT ![r] = o]
    BY <1>1, <1>2, <1>4 DEF EditWorkload, HealthTypes, AnyObject, AnySpec
  <1>7. PICK p : p = IF t THEN [new |-> 0, ready |-> 0, old |-> pods[r].old + pods[r].new] ELSE pods[r]
    OBVIOUS
  <1>8. /\ p \in [new : Nat, ready : Nat, old : Nat]
        /\ p.new + p.old = pods[r].new + pods[r].old
    BY <1>1, <1>7
  <1>9. pods' = [pods EXCEPT ![r] = p]
    BY <1>1, <1>7 DEF EditWorkload, HealthTypes
  <1>10. /\ seen' = [seen EXCEPT ![r] = seen[r]] /\ seen'[r] = seen[r] /\ present' = present
         /\ object[r].kind = "DaemonSet" => n = object[r].spec.replicas
    BY <1>1 DEF EditWorkload, HealthTypes
  <1>11. o.kind = "DaemonSet" => p.new + p.old <= o.spec.replicas
    BY <1>1, <1>3, <1>5, <1>8, <1>10
  <1>12. object'[r] = o
    BY <1>1, <1>6 DEF HealthTypes
  <1>13. ReportFaithful(r)'
    BY <1>1, <1>3, <1>5, <1>10, <1>12 DEF ReportFaithful
  <1> QED BY <1>1, <1>5, <1>6, <1>8, <1>9, <1>10, <1>11, <1>13, HealthOneStep

LEMMA RollPodsStep == ASSUME HealthInv, NEW r \in Resources, RollPods(r) PROVE HealthInv'
  <1>1. /\ object[r] \in AnyObject /\ pods[r] \in [new : Nat, ready : Nat, old : Nat]
        /\ pods \in [Resources -> [new : Nat, ready : Nat, old : Nat]]
        /\ HealthTypes /\ object[r].spec.replicas \in Nat
        /\ object[r].kind = "DaemonSet" => pods[r].new + pods[r].old <= object[r].spec.replicas
    BY DEF HealthInv, HealthTypes, OnePodPerNode, AnyObject, AnySpec
  <1>2. UNCHANGED <<object, present, seen>>
    BY DEF RollPods
  <1>3. PICK p \in [new : Nat, ready : Nat, old : Nat] :
          /\ pods' = [pods EXCEPT ![r] = p]
          /\ object[r].kind = "DaemonSet" => p.new + p.old <= object[r].spec.replicas
    <2>1. CASE /\ object[r].kind = "DaemonSet" => pods[r].new + pods[r].old < object[r].spec.replicas
               /\ pods' = [pods EXCEPT ![r].new = @ + 1]
      <3>1. PICK p : p = [pods[r] EXCEPT !.new = pods[r].new + 1]
        OBVIOUS
      <3>2. /\ p \in [new : Nat, ready : Nat, old : Nat] /\ p.new = pods[r].new + 1
            /\ p.old = pods[r].old
        BY <1>1, <3>1
      <3>3. pods' = [pods EXCEPT ![r] = p]
        BY <1>1, <2>1, <3>1
      <3>4. object[r].kind = "DaemonSet" => p.new + p.old <= object[r].spec.replicas
        BY <1>1, <2>1, <3>2
      <3> QED BY <3>2, <3>3, <3>4
    <2>2. CASE pods' = [pods EXCEPT ![r].ready = @ + 1]
      <3>1. PICK p : p = [pods[r] EXCEPT !.ready = pods[r].ready + 1]
        OBVIOUS
      <3>2. /\ p \in [new : Nat, ready : Nat, old : Nat] /\ p.new = pods[r].new
            /\ p.old = pods[r].old
        BY <1>1, <3>1
      <3>3. pods' = [pods EXCEPT ![r] = p]
        BY <1>1, <2>2, <3>1
      <3> QED BY <1>1, <3>2, <3>3
    <2>3. CASE pods[r].old > 0 /\ pods' = [pods EXCEPT ![r].old = @ - 1]
      <3>1. PICK p : p = [pods[r] EXCEPT !.old = pods[r].old - 1]
        OBVIOUS
      <3>2. /\ p \in [new : Nat, ready : Nat, old : Nat] /\ p.new = pods[r].new
            /\ p.old = pods[r].old - 1
        BY <1>1, <2>3, <3>1
      <3>3. pods' = [pods EXCEPT ![r] = p]
        BY <1>1, <2>3, <3>1
      <3>4. object[r].kind = "DaemonSet" => p.new + p.old <= object[r].spec.replicas
        BY <1>1, <3>2
      <3> QED BY <3>2, <3>3, <3>4
    <2>4. \/ /\ object[r].kind = "DaemonSet" => pods[r].new + pods[r].old < object[r].spec.replicas
             /\ pods' = [pods EXCEPT ![r].new = @ + 1]
          \/ pods' = [pods EXCEPT ![r].ready = @ + 1]
          \/ pods[r].old > 0 /\ pods' = [pods EXCEPT ![r].old = @ - 1]
      BY <1>1 DEF RollPods
    <2> QED BY <2>1, <2>2, <2>3, <2>4
  <1>4. HealthTypes'
    BY <1>1, <1>2, <1>3 DEF HealthTypes
  <1>5. OnePodPerNode'
    BY <1>1, <1>2, <1>3 DEF HealthInv, OnePodPerNode
  <1> QED BY <1>2, <1>4, <1>5 DEF HealthInv, ReportFaithful

LEMMA ReportWorkloadStep ==
  ASSUME HealthInv, NEW r \in Resources, NEW d \in BOOLEAN, ReportWorkload(r, d)
  PROVE  HealthInv'
  <1>1. /\ object[r] \in AnyObject /\ pods[r] \in [new : Nat, ready : Nat, old : Nat]
        /\ HealthTypes /\ object[r].spec.replicas \in Nat /\ object[r].generation \in Nat
        /\ object[r].kind = "DaemonSet" => pods[r].new + pods[r].old <= object[r].spec.replicas
    BY DEF HealthInv, HealthTypes, OnePodPerNode, AnyObject, AnySpec
  <1>2. PICK g, n, w, x, y : /\ g = object[r].generation /\ n = object[r].spec.replicas
                             /\ w = pods[r].new /\ x = pods[r].ready /\ y = pods[r].old
    OBVIOUS
  <1>3. g \in Nat /\ n \in Nat /\ w \in Nat /\ x \in Nat /\ y \in Nat
    BY <1>1, <1>2
  <1>4. PICK b \in BOOLEAN : b = (y > 0 \/ w < n)
    OBVIOUS
  <1>5. PICK t : t = [observed |-> g, updated |-> w, available |-> x + y, total |-> w + y,
                      desired |-> n, deadline |-> d, rolling |-> b]
    OBVIOUS
  <1>6. /\ t \in WorkloadStatus /\ t.observed = g /\ t.updated = w /\ t.available = x + y
        /\ t.total = w + y /\ t.desired = n /\ (t.rolling = FALSE => y = 0)
    <2>1. /\ t \in WorkloadStatus /\ t.observed = g /\ t.updated = w /\ t.available = x + y
          /\ t.total = w + y /\ t.desired = n /\ t.rolling = b
      BY <1>3, <1>5 DEF WorkloadStatus
    <2>2. b = FALSE => ~(y > 0)
      BY <1>4, Zenon
    <2>3. ~(y > 0) => y = 0
      BY <1>3
    <2> QED BY <2>1, <2>2, <2>3
  <1>7. PICK o : o = [object[r] EXCEPT !.status = t]
    OBVIOUS
  <1>8. o \in AnyObject /\ o.kind = object[r].kind /\ o.spec = object[r].spec /\ o.status = t
    BY <1>1, <1>6, <1>7 DEF AnyObject, AnyStatus
  <1>9. PICK s : s = [generation |-> g, ready |-> x, old |-> y]
    OBVIOUS
  <1>10. /\ s \in [generation : Nat, ready : Nat, old : Nat] /\ s.generation = g /\ s.ready = x
         /\ s.old = y
    BY <1>3, <1>9
  <1>11. object' = [object EXCEPT ![r] = o] /\ seen' = [seen EXCEPT ![r] = s]
    BY <1>1, <1>2, <1>4, <1>5, <1>7, <1>9 DEF ReportWorkload, HealthTypes
  <1>12. pods' = [pods EXCEPT ![r] = pods[r]] /\ present' = present
    BY <1>1 DEF ReportWorkload, HealthTypes
  <1>13. object'[r] = o /\ seen'[r] = s
    BY <1>1, <1>11 DEF HealthTypes
  <1>14. ReportFaithful(r)'
    BY <1>1, <1>2, <1>3, <1>6, <1>8, <1>10, <1>13 DEF ReportFaithful
  <1> QED BY <1>1, <1>2, <1>8, <1>10, <1>11, <1>12, <1>14, HealthOneStep

LEMMA ReportOtherStep ==
  ASSUME HealthInv, NEW r \in Resources, NEW report \in Reports(object[r].kind),
         ReportOther(r, report)
  PROVE  HealthInv'
  <1>1. HealthTypes /\ object[r] \in AnyObject /\ object[r].kind \in OtherKinds
    BY DEF HealthInv, HealthTypes, ReportOther
  <1>2. PICK o : o = [object[r] EXCEPT !.status = report]
    OBVIOUS
  <1>3. o \in AnyObject /\ o.kind = object[r].kind /\ o.spec = object[r].spec
    <2>1. report \in AnyStatus
      BY <1>1 DEF AnyStatus
    <2> QED BY <1>1, <1>2, <2>1 DEF AnyObject
  <1>4. /\ object' = [object EXCEPT ![r] = o] /\ pods' = [pods EXCEPT ![r] = pods[r]]
        /\ seen' = [seen EXCEPT ![r] = seen[r]] /\ present' = present
    BY <1>1, <1>2 DEF ReportOther, HealthTypes
  <1>5. object'[r] = o /\ o.kind \notin Workloads
    BY <1>1, <1>3, <1>4 DEF HealthTypes, Workloads, OtherKinds
  <1>6. ReportFaithful(r)' /\ o.kind # "DaemonSet"
    BY <1>5 DEF ReportFaithful, Workloads
  <1>7. /\ pods[r] \in [new : Nat, ready : Nat, old : Nat]
        /\ seen[r] \in [generation : Nat, ready : Nat, old : Nat]
    BY <1>1 DEF HealthTypes
  <1> QED BY <1>3, <1>4, <1>6, <1>7, HealthOneStep

LEMMA HealthStep == HealthInv /\ [HealthNext]_healthVars => HealthInv'
  <1> SUFFICES ASSUME HealthInv, [HealthNext]_healthVars PROVE HealthInv'
    OBVIOUS
  <1>1. CASE UNCHANGED healthVars
    BY <1>1 DEF healthVars, HealthInv, HealthTypes, OnePodPerNode, ReportFaithful
  <1>2. ASSUME NEW r \in Resources, Appear(r) PROVE HealthInv'
    BY <1>2 DEF Appear, HealthInv, HealthTypes, OnePodPerNode, ReportFaithful
  <1> QED BY <1>1, <1>2, EditWorkloadStep, RollPodsStep, ReportWorkloadStep, ReportOtherStep
          DEF HealthNext

\* Every status says what its report saw, for any objects, replicas and generations.
THEOREM HealthInvariant == HealthSpec => []HealthInv
  BY HealthStart, HealthStep, PTL DEF HealthSpec

\* execute_waves moves on only when every workload the store found has finished the rollout
\* of its current spec.
THEOREM GateOpensHonestly == HealthSpec => []GateHonest
  <1>1. HealthInv => GateHonest
    <2> SUFFICES ASSUME HealthInv, Gate = "Healthy" \/ GateWithOverrides = "Healthy",
                        NEW r \in present, object[r].kind \in Workloads
                 PROVE  /\ seen[r].generation = object[r].generation
                        /\ seen[r].ready >= object[r].spec.replicas
                        /\ seen[r].old = 0
      BY DEF GateHonest
    <2>1. r \in Resources /\ \A q \in present : object[q].kind \in Workloads \cup OtherKinds
      BY DEF HealthInv, HealthTypes, AnyObject
    <2>2. CASE Gate = "Healthy"
      <3>1. {Assess(object[q]) : q \in present} \in SUBSET Verdicts
        BY <2>1, RulesAnswer
      <3>2. Assess(object[r]) = "Healthy"
        BY <2>2, <3>1, WorstHealthy DEF Gate
      <3> QED BY <2>1, <3>2, WorkloadHonest
    <2>3. CASE GateWithOverrides = "Healthy"
      <3>1. {AssessWithOverrides(object[q]) : q \in present} \in SUBSET Verdicts
        BY <2>1, RulesAnswer
      <3>2. AssessWithOverrides(object[r]) = "Healthy"
        BY <2>3, <3>1, WorstHealthy DEF GateWithOverrides
      <3> QED BY <2>1, <3>2, WorkloadHonest
    <2> QED BY <2>2, <2>3
  <1> QED BY <1>1, HealthInvariant, PTL
=============================================================================
