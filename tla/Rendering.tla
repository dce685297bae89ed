----------------------------- MODULE Rendering ------------------------------
(***************************************************************************)
(* Rendering an app's manifests (synchrotron-plugins): AppRenderer over    *)
(* AppCache (app_cache.rs; cache.rs bounds the plugin cache the same way), *)
(* the plugin Registry and its reload (registry.rs), the local runtime     *)
(* (local.rs), the sidecar runtime (sidecar.rs), the raw one (raw.rs) and  *)
(* the persisted entries a restart warms the cache from                    *)
(* (app_cache_repo.rs).                                                    *)
(*                                                                         *)
(* A cache key is an app, a commit and the parameters; the plugin and the  *)
(* path are not part of it.  Manifests are abstracted to their estimated   *)
(* size.  The plugin processes are external.                               *)
(***************************************************************************)
EXTENDS Naturals, Sequences, FiniteSets, SequencesExt

CONSTANTS
  CacheKeys,       \* app and commit of the renders asked for
  PluginNames,     \* plugins an app may name
  PluginDocs,      \* registry documents: sequences of declared plugins
  Renderers,       \* concurrent renders
  MaxEntries,      \* AppCache max_entries
  MaxBytes,        \* AppCache max_bytes
  Sizes,           \* estimated sizes of rendered manifests
  MaxConnects,     \* RetryConfig::max_attempts
  MaxRenders,      \* bound: renders started
  MaxReloads       \* bound: reloads and restarts

ASSUME RenderingAssumption ==
  /\ MaxEntries \in Nat \ {0} /\ MaxBytes \in Nat /\ Sizes \subseteq Nat
  /\ MaxConnects \in Nat \ {0} /\ MaxRenders \in Nat /\ MaxReloads \in Nat

VARIABLES
  registry,    \* plugin name -> its kind, or "unknown"
  lru,         \* AppCache entries, least recently used first
  totalBytes,  \* Inner::total_bytes
  persisted,   \* app_cache_entries, oldest update first
  render,      \* renderer -> its place in AppRenderer::render
  rendersMade, reloadsMade

renderVars == <<registry, lru, totalBytes, persisted, render, rendersMade, reloadsMade>>

NotRendering == [pc |-> "idle", key |-> [app |-> "none", commit |-> 0], attempt |-> 0]

(***************************************************************************)
(* parse_config: unique names, and the fields each kind needs or rejects.  *)
(***************************************************************************)
ValidPlugin(p) ==
  \/ p.kind = "raw" /\ ~p.command /\ ~p.endpoint
  \/ p.kind = "local" /\ p.command /\ ~p.endpoint
  \/ p.kind = "sidecar" /\ p.endpoint /\ ~p.command

ParsesConfig(doc) ==
  /\ \A i \in DOMAIN doc : ValidPlugin(doc[i])
  /\ \A i, j \in DOMAIN doc : doc[i].name = doc[j].name => i = j

KindOf(doc, n) ==
  IF \E i \in DOMAIN doc : doc[i].name = n
  THEN LET i == CHOOSE i \in DOMAIN doc : doc[i].name = n IN doc[i].kind
  ELSE "unknown"

RenderingInit ==
  /\ \E doc \in PluginDocs :
       ParsesConfig(doc) /\ registry = [n \in PluginNames |-> KindOf(doc, n)]
  /\ lru = <<>> /\ totalBytes = 0 /\ persisted = <<>>
  /\ render = [w \in Renderers |-> NotRendering]
  /\ rendersMade = 0 /\ reloadsMade = 0

\* Registry::reload_from_path: a document that does not parse changes nothing.
ReloadRegistry(doc) ==
  /\ reloadsMade < MaxReloads
  /\ reloadsMade' = reloadsMade + 1
  /\ registry' = IF ParsesConfig(doc) THEN [n \in PluginNames |-> KindOf(doc, n)] ELSE registry
  /\ UNCHANGED <<lru, totalBytes, persisted, render, rendersMade>>

(***************************************************************************)
(* AppCache.                                                               *)
(***************************************************************************)
\* LruCache and the table are maps: at most one entry has a key.
Holds(s, k) == \E i \in DOMAIN s : s[i].key = k
PlaceOf(s, k) == CHOOSE i \in DOMAIN s : s[i].key = k
Without(s, k) == IF Holds(s, k) THEN RemoveAt(s, PlaceOf(s, k)) ELSE s

Minus(a, b) == IF a > b THEN a - b ELSE 0

\* The bytes of all entries.
BytesOf(s) ==
  LET sum[i \in 0 .. Len(s)] == IF i = 0 THEN 0 ELSE sum[i - 1] + s[i].bytes
  IN sum[Len(s)]

\* LruCache::pop, with the subtraction that follows it.
Pop(c, k) ==
  IF Holds(c.lru, k)
  THEN [lru |-> Without(c.lru, k), bytes |-> Minus(c.bytes, c.lru[PlaceOf(c.lru, k)].bytes)]
  ELSE c

\* LruCache::pop_lru, with the subtraction that follows it.
PopLru(c) == [lru |-> Tail(c.lru), bytes |-> Minus(c.bytes, Head(c.lru).bytes)]

\* LruCache::push evicts the oldest at max_entries; then the bytes are added.
Push(c, e) ==
  LET room == IF Len(c.lru) = MaxEntries THEN PopLru(c) ELSE c
  IN [lru |-> Append(room.lru, e), bytes |-> room.bytes + e.bytes]

\* The byte trim: drop the oldest until it fits or one entry is left.
Trim(c) ==
  LET after[n \in 0 .. Len(c.lru)] ==
        IF n = 0 THEN c
        ELSE IF after[n - 1].bytes > MaxBytes /\ Len(after[n - 1].lru) > 1
             THEN PopLru(after[n - 1]) ELSE after[n - 1]
  IN after[Len(c.lru)]

\* Mutant: put replaces an entry and keeps its bytes counted.
PutUncounted(c, e) == Trim(Push([c EXCEPT !.lru = Without(@, e.key)], e))

\* put: pop the old entry, push, trim.
Put(c, e) == Trim(Push(Pop(c, e.key), e))

\* invalidate_app: pop every entry of the app.
PopApp(c, a) ==
  LET after[n \in 0 .. Len(c.lru)] ==
        IF n = 0 THEN c
        ELSE IF c.lru[n].key.app = a THEN Pop(after[n - 1], c.lru[n].key) ELSE after[n - 1]
  IN after[Len(c.lru)]

\* warm: put every entry.
PutAll(c, s) ==
  LET after[n \in 0 .. Len(s)] == IF n = 0 THEN c ELSE Put(after[n - 1], s[n])
  IN after[Len(s)]

\* DELETE FROM app_cache_entries WHERE app_id = a.
DeleteEntries(s, a) ==
  LET kept[n \in 0 .. Len(s)] ==
        IF n = 0 THEN <<>>
        ELSE IF s[n].key.app = a THEN kept[n - 1] ELSE Append(kept[n - 1], s[n])
  IN kept[Len(s)]

AppCache == [lru |-> lru, bytes |-> totalBytes]
SetAppCache(c) == lru' = c.lru /\ totalBytes' = c.bytes

\* AppCache::invalidate_app and Database::invalidate_app_cache.
InvalidateApp(a) ==
  /\ reloadsMade < MaxReloads
  /\ reloadsMade' = reloadsMade + 1
  /\ SetAppCache(PopApp(AppCache, a))
  /\ persisted' = DeleteEntries(persisted, a)
  /\ UNCHANGED <<registry, render, rendersMade>>

\* AppCache::clear.
Clear ==
  /\ reloadsMade < MaxReloads
  /\ reloadsMade' = reloadsMade + 1
  /\ lru' = <<>> /\ totalBytes' = 0
  /\ UNCHANGED <<registry, persisted, render, rendersMade>>

\* save_app_cache_entry: insert or replace, as the newest.
SaveEntry(i) ==
  /\ persisted' = Append(Without(persisted, lru[i].key), lru[i])
  /\ UNCHANGED <<registry, lru, totalBytes, render, rendersMade, reloadsMade>>

\* A restart: the cache is warmed from the most recently written entries,
\* oldest first (load_recent_app_cache_entries and AppCache::warm).
Warm(limit) ==
  LET first == IF Len(persisted) > limit THEN Len(persisted) - limit + 1 ELSE 1
      recent == SubSeq(persisted, first, Len(persisted))
  IN /\ reloadsMade < MaxReloads /\ persisted # <<>>
     /\ reloadsMade' = reloadsMade + 1
     /\ SetAppCache(PutAll([lru |-> <<>>, bytes |-> 0], recent))
     /\ render' = [w \in Renderers |-> NotRendering]
     /\ UNCHANGED <<registry, persisted, rendersMade>>

(***************************************************************************)
(* AppRenderer::render and Registry::render.                               *)
(***************************************************************************)
RenderHit(w, k) ==
  /\ render[w] = NotRendering /\ rendersMade < MaxRenders /\ Holds(lru, k)
  /\ rendersMade' = rendersMade + 1
  /\ lru' = Append(Without(lru, k), lru[PlaceOf(lru, k)])
  /\ UNCHANGED <<registry, totalBytes, persisted, render, reloadsMade>>

\* A miss takes a snapshot of the plugin's configuration; an unknown one fails.
FirstStep(kind) ==
  CASE kind = "raw" -> "load" [] kind = "local" -> "handshake" [] kind = "sidecar" -> "connect"
    [] OTHER -> "idle"

RenderMiss(w, k, n) ==
  LET first == FirstStep(registry[n])
  IN /\ render[w] = NotRendering /\ rendersMade < MaxRenders /\ ~Holds(lru, k)
     /\ rendersMade' = rendersMade + 1
     /\ render' = [render EXCEPT ![w] = IF first = "idle" THEN NotRendering
                                        ELSE [pc |-> first, key |-> k, attempt |-> 1]]
     /\ UNCHANGED <<registry, lru, totalBytes, persisted, reloadsMade>>

RenderAt(w, pc) == render[w].pc = pc
RenderGoto(w, pc) ==
  /\ render' = [render EXCEPT ![w].pc = pc]
  /\ UNCHANGED <<registry, lru, totalBytes, persisted, rendersMade, reloadsMade>>

\* The render returns an error: nothing is cached.
GiveUp(w) ==
  /\ render' = [render EXCEPT ![w] = NotRendering]
  /\ UNCHANGED <<registry, lru, totalBytes, persisted, rendersMade, reloadsMade>>

\* The raw runtime: load_dir reads every YAML file of the directory.
LoadDir(w) == RenderAt(w, "load") /\ RenderGoto(w, "parse")

\* The local runtime: Plugin::spawn with its initialize request, then a render request,
\* then a shutdown whose failure is ignored once the answer is there.
PluginReady(w) == RenderAt(w, "handshake") /\ RenderGoto(w, "request")
PluginAnswers(w) == RenderAt(w, "request") /\ RenderGoto(w, "shutdown")
PluginShutdown(w) == RenderAt(w, "shutdown") /\ RenderGoto(w, "parse")

\* A timeout, an early exit, a malformed or mismatched answer, an error of the plugin: the
\* child is killed.
PluginFails(w) == (RenderAt(w, "handshake") \/ RenderAt(w, "request")) /\ GiveUp(w)

\* The sidecar runtime: Sidecar::connect with its Version call, then Render.
SidecarReady(w) == RenderAt(w, "connect") /\ RenderGoto(w, "call")
SidecarAnswers(w) == RenderAt(w, "call") /\ RenderGoto(w, "parse")

SidecarRetry(w) ==
  /\ RenderAt(w, "connect") /\ render[w].attempt < MaxConnects
  /\ render' = [render EXCEPT ![w].attempt = @ + 1]
  /\ UNCHANGED <<registry, lru, totalBytes, persisted, rendersMade, reloadsMade>>

\* A bad endpoint, a connection refused max_attempts times, another protocol version, an
\* RPC error.
SidecarFails(w) == (RenderAt(w, "connect") \/ RenderAt(w, "call")) /\ GiveUp(w)

\* parse_stream: one document without apiVersion, kind or name fails the whole render.
ParseFails(w) == (RenderAt(w, "load") \/ RenderAt(w, "parse")) /\ GiveUp(w)

PluginRenders(w, bytes) ==
  /\ RenderAt(w, "parse")
  /\ SetAppCache(Put(AppCache, [key |-> render[w].key, bytes |-> bytes]))
  /\ render' = [render EXCEPT ![w] = NotRendering]
  /\ UNCHANGED <<registry, persisted, rendersMade, reloadsMade>>

RenderingNext ==
  \/ \E doc \in PluginDocs : ReloadRegistry(doc)
  \/ \E k \in CacheKeys : InvalidateApp(k.app)
  \/ Clear
  \/ \E i \in DOMAIN lru : SaveEntry(i)
  \/ \E limit \in 1 .. MaxEntries : Warm(limit)
  \/ \E w \in Renderers :
       \/ LoadDir(w) \/ PluginReady(w) \/ PluginAnswers(w) \/ PluginShutdown(w)
       \/ PluginFails(w) \/ SidecarReady(w) \/ SidecarAnswers(w) \/ SidecarRetry(w)
       \/ SidecarFails(w) \/ ParseFails(w)
       \/ \E k \in CacheKeys : RenderHit(w, k) \/ \E n \in PluginNames : RenderMiss(w, k, n)
       \/ \E b \in Sizes : PluginRenders(w, b)

RenderingSpec == RenderingInit /\ [][RenderingNext]_renderVars

(***************************************************************************)
(* Properties.                                                             *)
(***************************************************************************)
\* Through concurrent renders of one key, evictions at either bound,
\* invalidations and warm-ups, AppCache counts exactly the bytes it holds,
\* holds one entry a key, at most max_entries of them, and no more than
\* max_bytes unless a single entry is larger than that (app_cache.rs, put).
CacheAccounts ==
  /\ totalBytes = BytesOf(lru)
  /\ \A i, j \in DOMAIN lru : lru[i].key = lru[j].key => i = j
  /\ Len(lru) <= MaxEntries
  /\ totalBytes > MaxBytes => Len(lru) = 1
=============================================================================
