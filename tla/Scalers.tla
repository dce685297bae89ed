------------------------------- MODULE Scalers -------------------------------
(***************************************************************************)
(* Controller-aware auto-ignore: scaler_discovery.rs keeps a cache of the  *)
(* autoscalers of a cluster and the differ ignores the fields they own     *)
(* (auto_ignore.rs).  Three consumers, one per controller kind, fold their *)
(* informer's events into one map of sources; whenever that changes, the   *)
(* consumer takes a snapshot of the map under its mutex and writes it to   *)
(* the cache under another lock.                                           *)
(*                                                                         *)
(* The informers (module LiveStore) appear here as the streams they feed:  *)
(* a broadcast ring per controller that forgets its oldest event when      *)
(* full.                                                                   *)
(***************************************************************************)
EXTENDS Naturals, Sequences, FiniteSets

CONSTANTS Controllers,    \* the ControllerKinds watched
          ScalerNames,    \* names of autoscaler objects
          Targets,        \* workloads a scaler may point at
          NoTarget,       \* a missing or malformed target reference
          NoScaler,       \* no such object in the cluster
          NoEntry,        \* parse_scaler found nothing to ignore
          Unset, Due,     \* a consumer that is not rebuilding, one that has to
          ScalerCap,      \* places in a broadcast ring
          MaxScalerEdits, MaxRelists

(* What a controller may write on its target. *)
IgnoredPaths(c) == IF c = "Vpa" THEN {"spec.template.spec.containers.*.resources"}
                                ELSE {"spec.replicas"}

(* What rebuild_cache holds between its two locks: the entries and how new they are. *)
ScalerEntry == [controller : Controllers, target : Targets,
                ignored : {IgnoredPaths(c) : c \in Controllers}]
Snapshots == [entries : SUBSET ScalerEntry, at : Nat]

ASSUME ScalerAssumption ==
    /\ ScalerCap \in Nat \ {0} /\ MaxScalerEdits \in Nat
    /\ Unset # Due /\ Unset \notin Snapshots /\ Due \notin Snapshots

VARIABLES scalers,     \* the cluster: [Controllers -> [ScalerNames -> object]]
          ring,        \* events each consumer has not read yet
          sources,     \* the source-indexed map of entries
          rebuild,     \* [Controllers -> Unset, Due or the snapshot held]
          cache,       \* ScalerCache: the entries, by target
          sourcesAt,   \* how often the sources have changed
          cacheAt,     \* the newest state of the sources ever written
          overtaken,   \* the last write of the cache was not the newest
          lost,        \* controllers that lost an event since their last list
          edits, relists

scalerVars == <<scalers, ring, sources, rebuild, cache, sourcesAt, cacheAt,
                overtaken, lost, edits, relists>>

Scaler == [target : Targets \cup {NoTarget}, off : BOOLEAN]

(* parse_scaler: a VPA in mode Off only recommends; a bad reference is no claim. *)
ParseScaler(c, s) ==
    IF s = NoScaler \/ s.target = NoTarget \/ (c = "Vpa" /\ s.off)
    THEN NoEntry
    ELSE [controller |-> c, target |-> s.target, ignored |-> IgnoredPaths(c)]

Entries(map) == {map[c][n] : c \in Controllers, n \in ScalerNames} \ {NoEntry}

(* The rules the differ derives from a cache for one workload. *)
AutoIgnoreRulesFor(t, entries) == UNION {e.ignored : e \in {x \in entries : x.target = t}}

(* broadcast::Sender::send: a full ring forgets its oldest event. *)
Offer(c, ev) ==
    /\ ring' = [ring EXCEPT ![c] =
                  Append(IF Len(@) = ScalerCap THEN Tail(@) ELSE @, ev)]
    /\ lost' = IF Len(ring[c]) = ScalerCap THEN lost \cup {c} ELSE lost

(* The cluster changes: an autoscaler is created, edited or deleted. *)
ScalerEdit(c, n, s) ==
    /\ edits < MaxScalerEdits
    /\ s # scalers[c][n]
    /\ scalers' = [scalers EXCEPT ![c][n] = s]
    /\ Offer(c, [kind |-> IF s = NoScaler THEN "Deleted" ELSE "Applied", name |-> n,
                 object |-> s])
    /\ edits' = edits + 1
    /\ UNCHANGED <<sources, rebuild, cache, sourcesAt, cacheAt, overtaken, relists>>

(* The watch restarted and its fresh list arrives as Restarted. *)
ScalerRelist(c) ==
    /\ relists < MaxRelists
    /\ relists' = relists + 1
    /\ Offer(c, [kind |-> "Restarted", name |-> NoTarget, object |-> scalers[c]])
    /\ UNCHANGED <<scalers, sources, rebuild, cache, sourcesAt, cacheAt, overtaken, edits>>

(* Mutant: entries are only ever added. *)
FoldedKeepsDeleted(c, ev) ==
    CASE ev.kind = "Applied" -> [sources[c] EXCEPT ![ev.name] = ParseScaler(c, ev.object)]
      [] ev.kind = "Deleted" -> sources[c]
      [] ev.kind = "Restarted" ->
           [n \in ScalerNames |-> IF ParseScaler(c, ev.object[n]) = NoEntry THEN sources[c][n]
                                  ELSE ParseScaler(c, ev.object[n])]

(* The consumer's partition of the sources after an event. *)
Folded(c, ev) ==
    IF ev.kind = "Restarted"
    THEN [n \in ScalerNames |-> ParseScaler(c, ev.object[n])]
    ELSE [sources[c] EXCEPT ![ev.name] =
            IF ev.kind = "Applied" THEN ParseScaler(c, ev.object) ELSE NoEntry]

(* An idle consumer folds one event; it rebuilds when its part changed, and always after a list. *)
Consume(c) ==
    /\ rebuild[c] = Unset
    /\ ring[c] # <<>>
    /\ LET ev  == Head(ring[c])
           new == Folded(c, ev)
       IN /\ sources' = [sources EXCEPT ![c] = new]
          /\ sourcesAt' = IF new = sources[c] THEN sourcesAt ELSE sourcesAt + 1
          /\ rebuild' = [rebuild EXCEPT ![c] =
                           IF new # sources[c] \/ ev.kind = "Restarted" THEN Due ELSE @]
          /\ lost' = IF ev.kind = "Restarted" THEN lost \ {c} ELSE lost
    /\ ring' = [ring EXCEPT ![c] = Tail(@)]
    /\ UNCHANGED <<scalers, cache, cacheAt, overtaken, edits, relists>>

(* rebuild_cache, first half: clone the entries under the sources' mutex. *)
Snapshot(c) ==
    /\ rebuild[c] = Due
    /\ rebuild' = [rebuild EXCEPT ![c] = [entries |-> Entries(sources), at |-> sourcesAt]]
    /\ UNCHANGED <<scalers, ring, sources, cache, sourcesAt, cacheAt, overtaken, lost,
                   edits, relists>>

(* rebuild_cache, second half: replace_with under the cache's write lock. *)
ReplaceCache(c) ==
    /\ rebuild[c] \notin {Unset, Due}
    /\ cache' = rebuild[c].entries
    /\ overtaken' = (rebuild[c].at < cacheAt)
    /\ cacheAt' = IF rebuild[c].at > cacheAt THEN rebuild[c].at ELSE cacheAt
    /\ rebuild' = [rebuild EXCEPT ![c] = Unset]
    /\ UNCHANGED <<scalers, ring, sources, sourcesAt, lost, edits, relists>>

ScalersInit ==
    /\ scalers = [c \in Controllers |-> [n \in ScalerNames |-> NoScaler]]
    /\ ring = [c \in Controllers |-> <<>>]
    /\ sources = [c \in Controllers |-> [n \in ScalerNames |-> NoEntry]]
    /\ rebuild = [c \in Controllers |-> Unset]
    /\ cache = {}
    /\ sourcesAt = 0
    /\ cacheAt = 0
    /\ overtaken = FALSE
    /\ lost = {}
    /\ edits = 0
    /\ relists = 0

ScalersNext ==
    \E c \in Controllers :
        \/ \E n \in ScalerNames, s \in Scaler \cup {NoScaler} : ScalerEdit(c, n, s)
        \/ ScalerRelist(c)
        \/ Consume(c)
        \/ Snapshot(c)
        \/ ReplaceCache(c)

ScalersSpec == ScalersInit /\ [][ScalersNext]_scalerVars

ScalersQuiet == \A c \in Controllers : ring[c] = <<>> /\ rebuild[c] = Unset

(* Once every event is folded, the differ ignores for a workload exactly   *)
(* the fields the autoscalers in the cluster write on it.  Two exceptions, *)
(* both real: a consumer whose ring overflowed and that has seen no list   *)
(* since, and a snapshot written after a newer one (rebuild_cache drops    *)
(* the sources' mutex before it takes the cache's lock).                   *)
ScalersCurrent ==
    ScalersQuiet /\ lost = {} /\ ~overtaken =>
        \A t \in Targets :
            AutoIgnoreRulesFor(t, cache)
              = AutoIgnoreRulesFor(t, {ParseScaler(c, scalers[c][n]) :
                                         c \in Controllers, n \in ScalerNames} \ {NoEntry})

=============================================================================
