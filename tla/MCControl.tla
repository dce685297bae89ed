------------------------------- MODULE MCControl -------------------------------
(***************************************************************************)
(* The components around the delivery pipeline, side by side.  They share  *)
(* no state, so one of them moves in each behaviour, chosen at the start   *)
(* among Parts; the others stay in an initial state.                       *)
(***************************************************************************)
EXTENDS ClusterRegistry, Tokens, SyncHooks, HostKeys, Streams, Records, Rendering,
        Scalers, Health, SmartDiff, Pruning, Configuration, TLC

CONSTANT Parts

VARIABLE part     \* the component that moves

controlVars == <<part, registryVars, tokenVars, hookVars, hostVars, streamVars, recordVars,
                 renderVars, scalerVars, healthVars, diffVars, pruneVars, configVars>>

(* Callers, renderers and requests of one component are all alike: no definition tells them *)
(* apart, and the run checks no liveness.                                                   *)
Interchangeable ==
    Permutations(HookRunners) \cup Permutations(Renderers) \cup Permutations(Requests)

(* SyncHooks: a hook with and without its annotations. *)
Phases2 == {NoAnnotation, {"PreSync", "Bogus"}}
Policies2 == {NoAnnotation, {"HookSucceeded", "BeforeHookCreation"}}

(* HostKeys: an empty file, a pinned host, a damaged file with two entries. *)
Line(forms, type, key) == [forms |-> forms, type |-> type, key |-> key]
Files == {<<>>, <<Line({<<"h">>}, "rsa", "k1")>>,
          <<Garbage, Line({<<"h", 2222>>}, "rsa", "k1"), Line({<<"h">>}, "rsa", "k2")>>}

(* Rendering: three cached renders, documents of which some do not parse. *)
Key(app, commit) == [app |-> app, commit |-> commit]
RenderKeys == {Key("a1", 1), Key("a1", 2), Key("a2", 1)}
Plugin(n, kind, command, endpoint) ==
    [name |-> n, kind |-> kind, command |-> command, endpoint |-> endpoint]
Documents == {<<Plugin("p", "raw", FALSE, FALSE)>>,
              <<Plugin("p", "local", TRUE, FALSE), Plugin("q", "sidecar", FALSE, TRUE)>>,
              <<Plugin("p", "raw", FALSE, FALSE), Plugin("p", "raw", FALSE, FALSE)>>,
              <<Plugin("q", "sidecar", TRUE, TRUE)>>}

(* SmartDiff: an empty workload, and two with a scalar, list-maps keyed by a name and *)
(* by a port number, a list and a set.                                                *)
Scalar(x) == [scalar |-> x]
Container(n, image) == [map |-> [name |-> Scalar(n), image |-> Scalar(image)]]
Port(n, target) == [map |-> [port |-> Scalar(n), protocol |-> Scalar("TCP"), target |-> Scalar(target)]]
Workload(replicas, containers, args, ports, finalizers) ==
    [map |-> [metadata |-> [map |-> [generation |-> Scalar("1"), finalizers |-> [list |-> finalizers]]],
              spec |-> [map |-> [replicas |-> Scalar(replicas),
                                 containers |-> [list |-> containers],
                                 args |-> [list |-> args],
                                 ports |-> [list |-> ports]]]]]
Tiny == Workload("1", <<>>, <<>>, <<>>, <<>>)
Commits == {Tiny,
            Workload("1", <<Container("a", "x"), Container("b", "x")>>, <<Scalar("u")>>,
                     <<Port("80", "x")>>, <<Scalar("u")>>),
            Workload("2", <<Container("a", "y")>>, <<Scalar("u"), Scalar("v")>>,
                     <<Port("80", "y")>>, <<Scalar("u"), Scalar("v")>>)}
InSpec(field) == <<<<"f", "spec">>, <<"f", field>>>>
InContainer(n) == Append(InSpec("containers"), <<"k", <<n>>>>)
LiveEdits == {[path |-> InSpec("replicas"), value |-> Scalar("2")],
              [path |-> Append(InContainer("a"), <<"f", "image">>), value |-> Scalar("z")],
              [path |-> InContainer("c"), value |-> Container("c", "z")],
              [path |-> InSpec("args"), value |-> [list |-> <<Scalar("w")>>]],
              [path |-> InSpec("ports") \o <<<<"k", <<"80", "TCP">>>>, <<"f", "target">>>>,
               value |-> Scalar("z")],
              [path |-> <<<<"f", "metadata">>, <<"f", "finalizers">>>>,
               value |-> [list |-> <<Scalar("w")>>]],
              [path |-> InSpec("paused"), value |-> Scalar("true")]}
ListMapPaths == {[pattern |-> <<"spec", "containers">>, keys |-> <<"name">>],
                 [pattern |-> <<"spec", "ports">>, keys |-> <<"port", "protocol">>]}
Finalizers == {<<"metadata", "finalizers">>}
IgnoreRuleSets ==
    {{}, {[kind |-> "JsonPointer", path |-> <<<<"spec">>, <<"containers">>, <<"a">>, <<"image">>>>]},
     {[kind |-> "PathGlob", path |-> <<"spec", "containers", "*", "image">>]},
     {[kind |-> "ManagerAllowlist", managers |-> {"kubectl"}]}}
ReplicasClaim == {<<"spec", "replicas">>}

(* Pruning: one object in two versions, an empty namespace, an object that opts out. *)
Mf(n, version, ns, wave, native, options) ==
    [name |-> n, version |-> version, ns |-> ns, wave |-> wave, native |-> native,
     options |-> options]
Bumped == {Mf("b", "v1", NoNs, 1, NoValue, NoValue), Mf("b", "v2", NoNs, 0, NoValue, NoValue)}
Manifests == Bumped \cup {Mf("b", "v1", "", 1, "true", {"Prune=true"}),
                         Mf("b", "v1", "y", 0, NoValue, {"Prune=false"}),
                         Mf("a", "v1", "y", 0, NoValue, NoValue)}

(* Configuration: two documents that load, and documents with one flaw each. *)
Cluster(n, in, kubeconfig) == [name |-> n, in_cluster |-> in, kubeconfig |-> kubeconfig]
Twice == <<Cluster("c", TRUE, Absent), Cluster("c", FALSE, "kc")>>
Texts == {Unreadable, Malformed, EmptyDoc,
          [EmptyDoc EXCEPT !["listen_addr"] = <<"0.0.0.0">>],
          [EmptyDoc EXCEPT !["clusters"] = <<Cluster("c", TRUE, Absent), Cluster("d", FALSE, "kc")>>,
                           !["repos"] = <<[id |-> "r", url |-> "u"]>>,
                           !["plugins"] = <<[name |-> "p"]>>, !["git_fetch_seconds"] = 60],
          [EmptyDoc EXCEPT !["clusters"] = Twice],
          [EmptyDoc EXCEPT !["clusters"] = <<Cluster("c", TRUE, "kc")>>],
          [EmptyDoc EXCEPT !["repo_interval_seconds"] = 0]}

(* A component that stays put does so in one of its initial states. *)
Pinned(p, where) == part # p => where

ControlInit ==
    /\ part \in Parts
    /\ RegistryInit /\ StreamsInit /\ ScalersInit /\ PruningInit
    /\ RecordsInit /\ Pinned("records", table = "app")
    /\ ConfigInit /\ Pinned("config", confFile = Unreadable)
    /\ TokensInit /\ Pinned("tokens", flavour = "oidc")
    /\ HooksInit
    /\ Pinned("hooks", manifest = [kind |-> "Job", hasNamespace |-> TRUE, hook |-> NoAnnotation,
                                   argoHook |-> NoAnnotation, policy |-> NoAnnotation,
                                   argoPolicy |-> NoAnnotation])
    /\ HostKeysInit /\ Pinned("hosts", mode = "Yes" /\ fileLines = <<>>)
    /\ RenderingInit /\ Pinned("rendering", registry["q"] = "unknown")
    /\ HealthInit
    /\ Pinned("health", \A r \in Resources : object[r].kind \in {"Deployment", "Ingress"})
    /\ DiffInit
    /\ Pinned("diff", /\ userRules = {} /\ desired = Tiny
                      /\ managed[1].manager = OurManager)

(* One component takes a step, the rest of the system none. *)
Others2(vs) == UNCHANGED <<part, vs>>

ControlNext ==
    \/ /\ part = "registry" /\ RegistryNext
       /\ Others2(<<tokenVars, hookVars, hostVars, streamVars, recordVars, renderVars,
                    scalerVars, healthVars, diffVars, pruneVars, configVars>>)
    \/ /\ part = "tokens" /\ TokensNext
       /\ Others2(<<registryVars, hookVars, hostVars, streamVars, recordVars, renderVars,
                    scalerVars, healthVars, diffVars, pruneVars, configVars>>)
    \/ /\ part = "hooks" /\ HooksNext
       /\ Others2(<<registryVars, tokenVars, hostVars, streamVars, recordVars, renderVars,
                    scalerVars, healthVars, diffVars, pruneVars, configVars>>)
    \/ /\ part = "hosts" /\ HostKeysNext
       /\ Others2(<<registryVars, tokenVars, hookVars, streamVars, recordVars, renderVars,
                    scalerVars, healthVars, diffVars, pruneVars, configVars>>)
    \/ /\ part = "streams" /\ StreamsNext
       /\ Others2(<<registryVars, tokenVars, hookVars, hostVars, recordVars, renderVars,
                    scalerVars, healthVars, diffVars, pruneVars, configVars>>)
    \/ /\ part = "records" /\ RecordsNext
       /\ Others2(<<registryVars, tokenVars, hookVars, hostVars, streamVars, renderVars,
                    scalerVars, healthVars, diffVars, pruneVars, configVars>>)
    \/ /\ part = "rendering" /\ RenderingNext
       /\ Others2(<<registryVars, tokenVars, hookVars, hostVars, streamVars, recordVars,
                    scalerVars, healthVars, diffVars, pruneVars, configVars>>)
    \/ /\ part = "scalers" /\ ScalersNext
       /\ Others2(<<registryVars, tokenVars, hookVars, hostVars, streamVars, recordVars,
                    renderVars, healthVars, diffVars, pruneVars, configVars>>)
    \/ /\ part = "health" /\ HealthNext
       /\ Others2(<<registryVars, tokenVars, hookVars, hostVars, streamVars, recordVars,
                    renderVars, scalerVars, diffVars, pruneVars, configVars>>)
    \/ /\ part = "diff" /\ DiffNext
       /\ Others2(<<registryVars, tokenVars, hookVars, hostVars, streamVars, recordVars,
                    renderVars, scalerVars, healthVars, pruneVars, configVars>>)
    \/ /\ part = "pruning" /\ PruningNext
       /\ Others2(<<registryVars, tokenVars, hookVars, hostVars, streamVars, recordVars,
                    renderVars, scalerVars, healthVars, diffVars, configVars>>)
    \/ /\ part = "config" /\ ConfigNext
       /\ Others2(<<registryVars, tokenVars, hookVars, hostVars, streamVars, recordVars,
                    renderVars, scalerVars, healthVars, diffVars, pruneVars>>)

ControlSpec == ControlInit /\ [][ControlNext]_controlVars
=============================================================================
