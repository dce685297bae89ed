------------------------------ MODULE MCSources ------------------------------
(***************************************************************************)
(* The two things the server watches, side by side: the objects of a       *)
(* cluster (LiveStore) and the branches of its repositories                *)
(* (Repositories).  They share no state, so one of them moves in each      *)
(* behaviour, chosen at the start; the other stays where it is.            *)
(***************************************************************************)
EXTENDS LiveStore, Repositories

VARIABLE part     \* the component that moves

sourcesVars == <<part, liveVars, repoVars>>

SourcesInit ==
    /\ part \in {"live", "repositories"}
    /\ LiveInit
    /\ part # "live" => wiring = "static"
    /\ RepositoriesInit

SourcesNext ==
    \/ part = "live" /\ LiveNext /\ UNCHANGED <<part, repoVars>>
    \/ part = "repositories" /\ RepositoriesNext /\ UNCHANGED <<part, liveVars>>

(* LiveFairness and RepositoriesFairness, each while its component moves. *)
SourcesFairness ==
    LET Live(A) == part = "live" /\ A
        Repo(A) == part = "repositories" /\ A
    IN /\ WF_liveVars(Live(Probe)) /\ WF_liveVars(Live(Reconnect)) /\ WF_liveVars(Live(ComesBack))
       /\ \A k \in Kinds :
             /\ WF_liveVars(Live(Supervise(k))) /\ WF_liveVars(Live(Session(k)))
             /\ WF_liveVars(Live(RouterSubscribe(k))) /\ WF_liveVars(Live(HandleEvent(k)))
       /\ \A p \in Pollers :
             /\ WF_repoVars(Repo(PollStep(p))) /\ WF_repoVars(Repo(GitStep(p)))
             /\ SF_repoVars(Repo(PollAcquire(p)))
       /\ \A c \in OrchCallers : WF_repoVars(Repo(OrchStep(c)))

SourcesSpec == SourcesInit /\ [][SourcesNext]_sourcesVars /\ SourcesFairness

(* After the disturbances a cluster is watched again: the monitor has a    *)
(* client the cluster accepts and says Up, and every kind has a session,   *)
(* except kinds whose watch broke while the monitor saw Up all the time    *)
(* (informer/runner.rs restarts a session on Down to Up only).             *)
ClusterRecovers == (part = "live") => (SessionsRecover /\ MonitorRecovers)
=============================================================================
