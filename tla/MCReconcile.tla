---------------------------- MODULE MCReconcile ----------------------------
(* Instances of Reconcile: a namespace, a config map and a deployment, in two *)
(* versions that sit in different waves.                                     *)
EXTENDS Reconcile, TLC

CONSTANTS ns, cm, deploy, v1, v2

MCRefs == {ns, cm, deploy}
\* kind_order.rs: Namespace 100, ConfigMap 220, Deployment 1640.
MCPriority == ns :> 100 @@ cm :> 220 @@ deploy :> 1640
MCRank == cm :> 1 @@ deploy :> 2 @@ ns :> 3
MCWaves == {-1, 0}
\* The config map needs its namespace; the deployment has two versions, the
\* second in a wave of its own.
MCRenders ==
  {m \in [MCRefs -> {None, [body |-> v1, wave |-> 0], [body |-> v2, wave |-> -1]}] :
     /\ \A r \in {ns, cm} : m[r] = None \/ m[r].body = v1
     /\ m[ns] = None => m[cm] = None}
=============================================================================
