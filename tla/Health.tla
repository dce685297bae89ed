-------------------------------- MODULE Health --------------------------------
(***************************************************************************)
(* Health assessment (synchrotron-health) and the readiness gate built on  *)
(* it (AppHealthChecker): the status a controller wrote on each object is  *)
(* read by a rule of its kind, and the worst verdict is the app's.  The    *)
(* controllers (external) roll pods of workloads and write status some     *)
(* time after the fact, so a status may describe an older spec.            *)
(*                                                                         *)
(* Messages are left out.  A status keeps the fields the rules read: the   *)
(* replica counts and observedGeneration of workloads; the conditions, the *)
(* phase, the readiness of the containers and the presence of a load       *)
(* balancer address for the other kinds.                                   *)
(***************************************************************************)
EXTENDS Naturals, FiniteSets

CONSTANTS Resources,      \* the objects the gate waits for
          MaxReplicas, MaxGeneration,
          Unreported      \* an object without a status

ASSUME HealthAssumption == MaxReplicas \in Nat /\ MaxGeneration \in Nat

Workloads == {"Deployment", "StatefulSet", "DaemonSet"}
OtherKinds == {"Job", "Pod", "Service", "Ingress", "PersistentVolumeClaim",
               "CustomResourceDefinition", "HorizontalPodAutoscaler", "Custom"}

VARIABLES object,     \* [Resources -> kind, generation, spec and status]
          present,    \* objects the ManifestStore finds
          pods,       \* the truth: pods of the new and of older templates
          seen,       \* what the last status report of a workload saw
          rule        \* what the CEL rule for custom kinds answers

healthVars == <<object, present, pods, seen, rule>>

-----------------------------------------------------------------------------
(* HealthStatusCode, from best to worst. *)
Severity == [Healthy |-> 0, Progressing |-> 1, Suspended |-> 2, Unknown |-> 3,
             Missing |-> 4, Degraded |-> 5]

(* find_condition and condition_status: "" when there is no such condition. *)
Condition(status, type) ==
    IF type \in DOMAIN status.conditions THEN status.conditions[type] ELSE ""

(* Mutant: only a missing status is drift. *)
NoDrift(o) == o.status = Unreported

(* A status for an older generation, or none at all for a known one. *)
GenerationDrift(o) ==
    IF o.status = Unreported THEN TRUE ELSE o.status.observed # o.generation

AssessDeployment(o) ==
    CASE o.spec.paused -> "Suspended"
      [] ~o.spec.paused /\ GenerationDrift(o) -> "Progressing"
      [] ~o.spec.paused /\ ~GenerationDrift(o) /\ o.status.deadline -> "Degraded"
      [] OTHER -> IF \/ o.status.updated < o.spec.replicas
                     \/ o.status.total > o.status.updated
                     \/ o.status.available < o.status.updated
                  THEN "Progressing" ELSE "Healthy"

AssessStatefulSet(o) ==
    IF GenerationDrift(o) \/ o.status.available < o.spec.replicas \/ o.status.rolling
    THEN "Progressing" ELSE "Healthy"

AssessDaemonSet(o) ==
    IF \/ GenerationDrift(o)
       \/ o.status.updated < o.status.desired
       \/ o.status.available < o.status.desired
    THEN "Progressing" ELSE "Healthy"

AssessJob(o) ==
    IF o.status = Unreported THEN "Progressing"
    ELSE CASE Condition(o.status, "Failed") = "True" -> "Degraded"
           [] Condition(o.status, "Failed") # "True" /\ Condition(o.status, "Complete") = "True"
                -> "Healthy"
           [] OTHER -> IF o.spec.paused THEN "Suspended" ELSE "Progressing"

AssessPod(o) ==
    CASE o.status.phase = "Succeeded" -> "Healthy"
      [] o.status.phase = "Failed" -> "Degraded"
      [] o.status.phase = "Pending" -> "Progressing"
      [] o.status.phase = "Running" -> IF o.status.ready THEN "Healthy" ELSE "Progressing"
      [] OTHER -> "Unknown"

AssessPvc(o) ==
    CASE o.status.phase = "Bound" -> "Healthy"
      [] o.status.phase = "Pending" -> "Progressing"
      [] o.status.phase = "Lost" -> "Degraded"
      [] OTHER -> "Unknown"

(* A load balancer is ready with its first address. *)
AssessIngress(o) ==
    IF o.status # Unreported /\ o.status.address THEN "Healthy" ELSE "Progressing"

AssessService(o) == IF o.spec.balanced THEN AssessIngress(o) ELSE "Healthy"

AssessCrd(o) ==
    CASE Condition(o.status, "NamesAccepted") = "False" -> "Degraded"
      [] OTHER -> IF Condition(o.status, "Established") = "True" THEN "Healthy"
                                                                 ELSE "Progressing"

AssessHpa(o) ==
    IF "False" \in {Condition(o.status, "AbleToScale"), Condition(o.status, "ScalingActive")}
    THEN "Degraded"
    ELSE IF Condition(o.status, "ScalingActive") = "True" THEN "Healthy" ELSE "Progressing"

(* Tier 2: Ready, else Available; "" when the object has neither. *)
AssessByConditions(o) ==
    LET type == IF Condition(o.status, "Ready") # "" THEN "Ready" ELSE "Available"
    IN IF o.status = Unreported THEN ""
       ELSE CASE Condition(o.status, type) = "" -> ""
              [] Condition(o.status, type) = "True" -> "Healthy"
              [] Condition(o.status, type) = "False" -> "Degraded"
              [] OTHER -> "Progressing"

(* Tier 1: "" for a kind without a rule. *)
AssessTier1(o) ==
    CASE o.kind = "Deployment" -> AssessDeployment(o)
      [] o.kind = "StatefulSet" -> AssessStatefulSet(o)
      [] o.kind = "DaemonSet" -> AssessDaemonSet(o)
      [] o.kind = "Job" -> AssessJob(o)
      [] o.kind = "Service" -> AssessService(o)
      [] o.kind = "Ingress" -> AssessIngress(o)
      [] o.kind = "Custom" -> ""
      [] OTHER -> IF o.status = Unreported THEN "Progressing"
                  ELSE CASE o.kind = "Pod" -> AssessPod(o)
                         [] o.kind = "PersistentVolumeClaim" -> AssessPvc(o)
                         [] o.kind = "CustomResourceDefinition" -> AssessCrd(o)
                         [] o.kind = "HorizontalPodAutoscaler" -> AssessHpa(o)

FirstAnswer(a, b) == IF a # "" THEN a ELSE b

Assess(o) == FirstAnswer(FirstAnswer(AssessTier1(o), AssessByConditions(o)), "Unknown")

(* The answer of a CEL rule: an error, a timeout or an unknown word is no answer. *)
EvalRule == IF rule \in DOMAIN Severity THEN rule ELSE ""

(* CelOverrides: the rule registered for a kind; there is one for custom kinds. *)
AssessByRule(o) == IF o.kind = "Custom" THEN EvalRule ELSE ""

AssessWithOverrides(o) ==
    FirstAnswer(FirstAnswer(AssessTier1(o), AssessByRule(o)), Assess(o))

(* aggregate: the worst verdict, and Healthy for nothing at all. *)
Worst(verdicts) ==
    IF verdicts = {} THEN "Healthy"
    ELSE CHOOSE v \in verdicts : \A w \in verdicts : Severity[v] >= Severity[w]

(* The gate of the wave executor sees what the store finds, and only that. *)
Gate == Worst({Assess(object[r]) : r \in present})
GateWithOverrides == Worst({AssessWithOverrides(object[r]) : r \in present})

-----------------------------------------------------------------------------
(* The cluster.  The store finds an object once the API server has it. *)
Appear(r) ==
    /\ r \notin present
    /\ present' = present \cup {r}
    /\ UNCHANGED <<object, pods, seen, rule>>

(* A new spec: other replicas, a pause, or a new pod template.  A DaemonSet has one pod per node. *)
EditWorkload(r, replicas, paused, template) ==
    /\ r \in present /\ object[r].kind \in Workloads
    /\ object[r].generation < MaxGeneration
    /\ object[r].kind = "DaemonSet" => replicas = object[r].spec.replicas
    /\ paused => object[r].kind = "Deployment"
    /\ object' = [object EXCEPT ![r].generation = @ + 1, ![r].spec.replicas = replicas,
                                ![r].spec.paused = paused]
    /\ pods' = IF template
               THEN [pods EXCEPT ![r] = [new |-> 0, ready |-> 0, old |-> @.old + @.new]]
               ELSE pods
    /\ UNCHANGED <<present, seen, rule>>

(* The workload controller starts, readies or removes a pod. *)
RollPods(r) ==
    /\ r \in present /\ object[r].kind \in Workloads
    /\ LET p == pods[r]
           surge == IF object[r].kind = "Deployment" THEN 1 ELSE 0
       IN \/ p.new + p.old < object[r].spec.replicas + surge /\ p.new < object[r].spec.replicas
             /\ pods' = [pods EXCEPT ![r].new = @ + 1]
          \/ p.ready < p.new /\ pods' = [pods EXCEPT ![r].ready = @ + 1]
          \/ p.old > 0 /\ pods' = [pods EXCEPT ![r].old = @ - 1]
    /\ UNCHANGED <<object, present, seen, rule>>

(* It reports: old pods count as available, and only the total tells them apart. *)
ReportWorkload(r, deadline) ==
    /\ r \in present /\ object[r].kind \in Workloads
    /\ LET p == pods[r]
           o == object[r]
       IN /\ object' = [object EXCEPT ![r].status =
                [observed |-> o.generation, updated |-> p.new, available |-> p.ready + p.old,
                 total |-> p.new + p.old, desired |-> o.spec.replicas, deadline |-> deadline,
                 rolling |-> p.old > 0 \/ p.new < o.spec.replicas]]
          /\ seen' = [seen EXCEPT ![r] = [generation |-> o.generation, ready |-> p.ready,
                                          old |-> p.old]]
    /\ UNCHANGED <<present, pods, rule>>

ConditionTypes(kind) ==
    CASE kind = "Job" -> {"Failed", "Complete"}
      [] kind = "CustomResourceDefinition" -> {"NamesAccepted", "Established"}
      [] kind = "HorizontalPodAutoscaler" -> {"AbleToScale", "ScalingActive"}
      [] kind = "Custom" -> {"Ready", "Available"}
      [] OTHER -> {}

Phases(kind) ==
    CASE kind = "Pod" -> {"Pending", "Running", "Succeeded", "Failed", "Other"}
      [] kind = "PersistentVolumeClaim" -> {"Pending", "Bound", "Lost", "Other"}
      [] OTHER -> {""}

Reports(kind) ==
    [conditions : UNION {[ts -> {"True", "False", "Unknown"}] : ts \in SUBSET ConditionTypes(kind)},
     phase : Phases(kind), ready : IF kind = "Pod" THEN BOOLEAN ELSE {FALSE},
     address : IF kind \in {"Service", "Ingress"} THEN BOOLEAN ELSE {FALSE}]

(* Any other controller writes a status. *)
ReportOther(r, report) ==
    /\ r \in present /\ object[r].kind \in OtherKinds
    /\ object' = [object EXCEPT ![r].status = report]
    /\ UNCHANGED <<present, pods, seen, rule>>

Specs(kind) ==
    [replicas : IF kind = "DaemonSet" THEN {MaxReplicas} ELSE {1},
     paused : IF kind = "Job" THEN BOOLEAN ELSE {FALSE},
     balanced : IF kind = "Service" THEN BOOLEAN ELSE {FALSE}]

Fresh(kinds) ==
    UNION {[kind : {k}, generation : {1}, spec : Specs(k), status : {Unreported}] : k \in kinds}

(* One workload; the other objects are of any other kind. *)
HealthInit ==
    /\ LET w == CHOOSE r \in Resources : TRUE
       IN /\ object \in [Resources -> Fresh(Workloads) \cup Fresh(OtherKinds)]
          /\ \A r \in Resources : object[r].kind \in Workloads <=> r = w
    /\ present = {}
    /\ pods = [r \in Resources |-> [new |-> 0, ready |-> 0, old |-> 0]]
    /\ seen = [r \in Resources |-> [generation |-> 0, ready |-> 0, old |-> 0]]
    /\ rule \in IF \E r \in Resources : object[r].kind = "Custom"
                THEN {"Healthy", "Degraded", "NoAnswer"} ELSE {"NoAnswer"}

HealthNext ==
    \E r \in Resources :
        \/ Appear(r)
        \/ \E n \in 0..MaxReplicas, p, t \in BOOLEAN : EditWorkload(r, n, p, t)
        \/ RollPods(r)
        \/ \E d \in BOOLEAN : ReportWorkload(r, d)
        \/ \E report \in Reports(object[r].kind) : ReportOther(r, report)

HealthSpec == HealthInit /\ [][HealthNext]_healthVars

-----------------------------------------------------------------------------
(* The wave executor moves on when the gate says Healthy (execute_waves):  *)
(* then each workload the store found has finished the rollout of its      *)
(* current spec: the controller's last report was about that very          *)
(* generation and saw every replica of the new template ready and none of  *)
(* an older one, although availableReplicas counts both.  A CEL rule       *)
(* cannot open the gate for a workload either.                             *)
GateHonest ==
    "Healthy" \in {Gate, GateWithOverrides} =>
        \A r \in present :
            object[r].kind \in Workloads =>
                /\ seen[r].generation = object[r].generation
                /\ seen[r].ready >= object[r].spec.replicas
                /\ seen[r].old = 0
=============================================================================
