---------------------------- MODULE Repositories ----------------------------
(***************************************************************************)
(* The repositories a server watches (synchrotron-git): Orchestrator       *)
(* (orchestrator.rs) with its entries and its fetch semaphore, RepoTriggers*)
(* (triggers.rs), the Poller of each registration (poller.rs), GitClient's *)
(* bare cache (client.rs) and the webhook handlers (webhooks.rs and the    *)
(* server's api/webhooks.rs).                                              *)
(*                                                                         *)
(* A poller is numbered in order of spawning.  A fetch runs in             *)
(* spawn_blocking: aborting its poller gives the semaphore's permit back   *)
(* and the blocking call goes on.  Revisions are numbers; libgit2 and the  *)
(* remote are external.                                                    *)
(***************************************************************************)
EXTENDS Naturals, FiniteSets

CONSTANTS
  Repos,          \* repository ids
  OrchCallers,    \* tasks that register and deregister
  FetchSlots,     \* max_concurrent_fetches
  MaxPollers,     \* bound: pollers spawned
  MaxPushes,      \* bound: pushes to each repository
  MaxFaults       \* bound: failing fetches and restarts of the server

ASSUME RepositoriesAssumption ==
  /\ FetchSlots \in Nat \ {0} /\ MaxPollers \in Nat /\ MaxPushes \in Nat
  /\ MaxFaults \in Nat
  /\ "none" \notin Repos

NoPoller == 0
Pollers == 1 .. MaxPollers

VARIABLES
  entries,    \* Orchestrator::entries: repository -> its poller or NoPoller
  triggers,   \* RepoTriggers: repository -> the poller whose Notify is registered
  orchCall,   \* caller -> where its register or deregister call is
  poller,     \* poller -> repository, life, permit of its Notify, place in run_loop
  pollStatus, \* poller -> last PollEvent its listener saw
  cache,      \* repository -> its bare cache: "absent", "head", "origin", "cloned"
  fetchedHead,   \* repository -> branch head in the cache
  upstreamHead,  \* repository -> branch head at the remote
  faults,
  raced,      \* history: repositories whose registrations overlapped
  stuck       \* history: repositories whose clone a crash left without origin

repoVars == <<entries, triggers, orchCall, poller, pollStatus, cache, fetchedHead,
              upstreamHead, faults, raced, stuck>>
gitVars == <<cache, fetchedHead, upstreamHead, stuck>>

Unborn == [repo |-> "none", alive |-> FALSE, permit |-> FALSE, pc |-> "none"]
OrchIdle == [pc |-> "idle", repo |-> "none", poller |-> NoPoller]

RepositoriesInit ==
  /\ entries = [r \in Repos |-> NoPoller] /\ triggers = [r \in Repos |-> NoPoller]
  /\ orchCall = [c \in OrchCallers |-> OrchIdle]
  /\ poller = [p \in Pollers |-> Unborn]
  /\ pollStatus = [p \in Pollers |-> "never"]
  /\ cache = [r \in Repos |-> "absent"]
  /\ fetchedHead = [r \in Repos |-> 0] /\ upstreamHead = [r \in Repos |-> 1]
  /\ faults = 0
  /\ raced = {} /\ stuck = {}

Busy(r) == {c \in OrchCallers : orchCall[c].repo = r}

(***************************************************************************)
(* Orchestrator::register and deregister.                                  *)
(***************************************************************************)
OrchRegisterCheck(c, r) ==
  /\ orchCall[c] = OrchIdle /\ entries[r] = NoPoller
  /\ orchCall' = [orchCall EXCEPT ![c] = [pc |-> "spawn", repo |-> r, poller |-> NoPoller]]
  /\ raced' = IF Busy(r) # {} THEN raced \cup {r} ELSE raced
  /\ UNCHANGED <<entries, triggers, poller, pollStatus, gitVars, faults>>

\* wrap_with_semaphore, Poller::spawn and the status listener.
OrchSpawn(c) ==
  \E p \in Pollers :
    /\ orchCall[c].pc = "spawn" /\ poller[p] = Unborn
    /\ poller' = [poller EXCEPT ![p] = [Unborn EXCEPT !.repo = orchCall[c].repo, !.alive = TRUE,
                                                      !.pc = "sleep"]]
    /\ orchCall' = [orchCall EXCEPT ![c].pc = "trigger", ![c].poller = p]
    /\ \A q \in Pollers : poller[q] = Unborn => p <= q
    /\ UNCHANGED <<entries, triggers, pollStatus, gitVars, faults, raced>>

\* RepoTriggers::register: the last writer wins.
OrchTrigger(c) ==
  /\ orchCall[c].pc = "trigger"
  /\ triggers' = [triggers EXCEPT ![orchCall[c].repo] = orchCall[c].poller]
  /\ orchCall' = [orchCall EXCEPT ![c].pc = "insert"]
  /\ UNCHANGED <<entries, poller, pollStatus, gitVars, faults, raced>>

\* Drop for Poller.  The fetch it may have begun goes on in its thread.
Aborted(p) == [poller EXCEPT ![p].alive = FALSE,
                             ![p].pc = IF @ \in {"clone", "fetch"} THEN @ ELSE "none"]

OrchInsert(c) ==
  LET r == orchCall[c].repo IN
  /\ orchCall[c].pc = "insert" /\ entries[r] = NoPoller
  /\ entries' = [entries EXCEPT ![r] = orchCall[c].poller]
  /\ orchCall' = [orchCall EXCEPT ![c] = OrchIdle]
  /\ UNCHANGED <<triggers, poller, pollStatus, gitVars, faults, raced>>

\* The loser of the race rolls back by id, under the entries lock.
OrchRollback(c) ==
  LET r == orchCall[c].repo IN
  /\ orchCall[c].pc = "insert" /\ entries[r] # NoPoller
  /\ triggers' = [triggers EXCEPT ![r] = NoPoller]
  /\ poller' = Aborted(orchCall[c].poller)
  /\ orchCall' = [orchCall EXCEPT ![c] = OrchIdle]
  /\ UNCHANGED <<entries, pollStatus, gitVars, faults, raced>>

OrchDeregister(c, r) ==
  /\ orchCall[c] = OrchIdle /\ entries[r] # NoPoller
  /\ entries' = [entries EXCEPT ![r] = NoPoller]
  /\ poller' = Aborted(entries[r])
  /\ orchCall' = [orchCall EXCEPT ![c] = [OrchIdle EXCEPT !.pc = "untrigger", !.repo = r]]
  /\ raced' = IF Busy(r) # {} THEN raced \cup {r} ELSE raced
  /\ UNCHANGED <<triggers, pollStatus, gitVars, faults>>

\* mutant: deregister forgets the trigger map
KeepTrigger(r) == triggers
RemoveTrigger(r) == [triggers EXCEPT ![r] = NoPoller]

OrchUntrigger(c) ==
  /\ orchCall[c].pc = "untrigger"
  /\ triggers' = RemoveTrigger(orchCall[c].repo)
  /\ orchCall' = [orchCall EXCEPT ![c] = OrchIdle]
  /\ UNCHANGED <<entries, poller, pollStatus, gitVars, faults, raced>>

(***************************************************************************)
(* Webhooks.  The handlers answer 503 without a secret, 401 to a bad       *)
(* proof, 400 to a payload they cannot parse; events other than a push and *)
(* unknown repositories are accepted and ignored.  Only a verified push to *)
(* a repository with a trigger changes anything here.                      *)
(***************************************************************************)
Deliveries ==
  [provider : {"github", "gitlab", "bitbucket"},
   secret : BOOLEAN,                              \* the server has a secret for the provider
   proof : {"none", "sha256", "sha1", "token"},   \* what the headers prove
   event : {"none", "push", "other"},
   url : {"none", "repository", "fallback"}]      \* where the payload names the repository

VerifyGithub(d) == d.proof = "sha256"
VerifyGitlab(d) == d.proof = "token"
VerifyBitbucket(d) == d.proof \in {"sha256", "sha1"}

Verified(d) ==
  \/ d.provider = "github" /\ VerifyGithub(d)
  \/ d.provider = "gitlab" /\ VerifyGitlab(d)
  \/ d.provider = "bitbucket" /\ VerifyBitbucket(d)

\* GitLab falls back to the project's url, Bitbucket to the self link.
Parsed(d) ==
  d.event # "none" /\ d.url \in IF d.provider = "github" THEN {"repository"}
                                 ELSE {"repository", "fallback"}

IsPush(d) == d.event = "push"

HandlerAnswer(d) ==
  CASE ~d.secret -> "503"
    [] d.secret /\ ~Verified(d) -> "401"
    [] d.secret /\ Verified(d) /\ ~Parsed(d) -> "400"
    [] OTHER -> "dispatch"

\* The deliveries that reach RepoTriggers::trigger.
Triggering == {d \in Deliveries : HandlerAnswer(d) = "dispatch" /\ IsPush(d)}

\* RepoTriggers::trigger: the permit of a registered Notify.
Webhook(r, d) ==
  /\ d \in Triggering /\ triggers[r] # NoPoller
  /\ poller' = [poller EXCEPT ![triggers[r]].permit = TRUE]
  /\ UNCHANGED <<entries, triggers, orchCall, pollStatus, gitVars, faults, raced>>

(***************************************************************************)
(* Poller::run_loop with GitClient::fetch.                                 *)
(***************************************************************************)
\* The sleep ends.  Nothing pauses a poller an Orchestrator owns.
PollTimer(p) ==
  /\ poller[p].alive /\ poller[p].pc = "sleep"
  /\ poller' = [poller EXCEPT ![p].pc = "acquire"]
  /\ UNCHANGED <<entries, triggers, orchCall, pollStatus, gitVars, faults, raced>>

PollTriggered(p) ==
  /\ poller[p].alive /\ poller[p].pc = "sleep" /\ poller[p].permit
  /\ poller' = [poller EXCEPT ![p].pc = "acquire", ![p].permit = FALSE]
  /\ UNCHANGED <<entries, triggers, orchCall, pollStatus, gitVars, faults, raced>>

Fetching == {p \in Pollers : poller[p].alive /\ poller[p].pc \in {"clone", "fetch"}}

\* ensure_cloned: a cache whose HEAD exists is taken for a clone.  libgit2 writes HEAD, then
\* the remote, then fetches.
PollAcquire(p) ==
  LET r == poller[p].repo IN
  /\ poller[p].alive /\ poller[p].pc = "acquire" /\ Cardinality(Fetching) < FetchSlots
  /\ poller' = [poller EXCEPT ![p].pc = IF cache[r] = "absent" THEN "clone" ELSE "fetch"]
  /\ cache' = IF cache[r] = "absent" THEN [cache EXCEPT ![r] = "head"] ELSE cache
  /\ UNCHANGED <<entries, triggers, orchCall, pollStatus, fetchedHead, upstreamHead,
                 faults, raced, stuck>>

CloneOrigin(p) ==
  LET r == poller[p].repo IN
  /\ poller[p].pc = "clone" /\ cache[r] = "head"
  /\ cache' = [cache EXCEPT ![r] = "origin"]
  /\ UNCHANGED <<entries, triggers, orchCall, poller, pollStatus, fetchedHead, upstreamHead,
                 faults, raced, stuck>>

\* mutant: a failed fetch ends the loop
PollGivesUp(p, event) ==
  /\ poller' = [poller EXCEPT ![p].pc = IF poller[p].alive /\ event = "Fetched" THEN "sleep" ELSE "none"]
  /\ pollStatus' = IF poller[p].alive THEN [pollStatus EXCEPT ![p] = event] ELSE pollStatus

PollEnds(p, event) ==
  /\ poller' = [poller EXCEPT ![p].pc = IF poller[p].alive THEN "sleep" ELSE "none"]
  /\ pollStatus' = IF poller[p].alive THEN [pollStatus EXCEPT ![p] = event] ELSE pollStatus

FetchOk(p) ==
  LET r == poller[p].repo IN
  /\ poller[p].pc \in {"clone", "fetch"} /\ cache[r] \in {"origin", "cloned"}
  /\ cache' = [cache EXCEPT ![r] = "cloned"]
  /\ fetchedHead' = [fetchedHead EXCEPT ![r] = upstreamHead[r]]
  /\ PollEnds(p, "Fetched")
  /\ UNCHANGED <<entries, triggers, orchCall, upstreamHead, faults, raced, stuck>>

\* find_remote("origin") fails in a cache that has a HEAD only, open_bare in one that a
\* clone of another poller removed.
FetchNoOrigin(p) ==
  /\ \/ poller[p].pc = "fetch" /\ cache[poller[p].repo] \in {"head", "absent"}
     \/ poller[p].pc = "clone" /\ cache[poller[p].repo] = "absent"
  /\ PollEnds(p, "FetchFailed")
  /\ UNCHANGED <<entries, triggers, orchCall, gitVars, faults, raced>>

\* The network, credentials or the host key: a failed clone removes its directory.
FetchFails(p) ==
  LET r == poller[p].repo IN
  /\ poller[p].pc \in {"clone", "fetch"} /\ faults < MaxFaults
  /\ faults' = faults + 1
  /\ cache' = IF poller[p].pc = "clone" THEN [cache EXCEPT ![r] = "absent"] ELSE cache
  /\ PollEnds(p, "FetchFailed")
  /\ UNCHANGED <<entries, triggers, orchCall, fetchedHead, upstreamHead, raced, stuck>>

Push(r) ==
  /\ upstreamHead[r] <= MaxPushes
  /\ upstreamHead' = [upstreamHead EXCEPT ![r] = @ + 1]
  /\ UNCHANGED <<entries, triggers, orchCall, poller, pollStatus, cache, fetchedHead,
                 faults, raced, stuck>>

\* The process dies and starts again: the bare caches are what is left.
ServerRestart ==
  /\ faults < MaxFaults
  /\ faults' = faults + 1
  /\ entries' = [r \in Repos |-> NoPoller] /\ triggers' = [r \in Repos |-> NoPoller]
  /\ orchCall' = [c \in OrchCallers |-> OrchIdle]
  /\ poller' = [p \in Pollers |-> IF poller[p] = Unborn THEN Unborn
                                  ELSE [Unborn EXCEPT !.repo = poller[p].repo]]
  /\ stuck' = stuck \cup {r \in Repos : cache[r] = "head"}
  /\ raced' = {}
  /\ UNCHANGED <<pollStatus, cache, fetchedHead, upstreamHead>>

PollStep(p) == PollTimer(p) \/ PollTriggered(p)
GitStep(p) == CloneOrigin(p) \/ FetchOk(p) \/ FetchNoOrigin(p)
OrchStep(c) ==
  OrchSpawn(c) \/ OrchTrigger(c) \/ OrchInsert(c) \/ OrchRollback(c) \/ OrchUntrigger(c)

RepositoriesNext ==
  \/ \E c \in OrchCallers :
       \/ OrchStep(c)
       \/ \E r \in Repos : OrchRegisterCheck(c, r) \/ OrchDeregister(c, r)
  \/ \E r \in Repos, d \in Triggering : Webhook(r, d)
  \/ \E p \in Pollers :
       PollStep(p) \/ PollAcquire(p) \/ GitStep(p) \/ FetchFails(p)
  \/ \E r \in Repos : Push(r)
  \/ ServerRestart

RepositoriesSpec == RepositoriesInit /\ [][RepositoriesNext]_repoVars

(***************************************************************************)
(* Timers fire, blocking calls return, the semaphore is first come first   *)
(* served (hence SF).                                                      *)
(***************************************************************************)
RepositoriesFairness ==
  /\ \A p \in Pollers :
       /\ WF_repoVars(PollStep(p)) /\ WF_repoVars(GitStep(p))
       /\ SF_repoVars(PollAcquire(p))
  /\ \A c \in OrchCallers : WF_repoVars(OrchStep(c))

-----------------------------------------------------------------------------
\* "wire it into the trigger registry": a webhook that is answered "trigger enqueued" wakes a
\* poller that runs, and one for every repository that is registered, whatever other
\* repositories do meanwhile.  Calls for one id that overlap break it: the loser of a race
\* and a late deregister remove the trigger by id (orchestrator.rs:116, :137).
TriggerWired ==
  \A r \in Repos \ raced :
    /\ entries[r] # NoPoller /\ Busy(r) = {} => triggers[r] = entries[r]
    /\ triggers[r] # NoPoller /\ Busy(r) = {} => poller[triggers[r]].alive

\* "push notifications route to the right poller" (orchestrator.rs): a registration that
\* returned is wired, whatever other calls do.
RegisteredWired ==
  \A r \in Repos :
    (entries[r] # NoPoller /\ Busy(r) = {}) => triggers[r] = entries[r]

\* A registered repository is polled again and again, so every push is fetched even when its
\* trigger was lost, unless a crash left a cache with a HEAD and no origin.
PushesFetched ==
  \A r \in Repos :
    (entries[r] # NoPoller /\ fetchedHead[r] < upstreamHead[r])
      ~> (fetchedHead[r] = upstreamHead[r] \/ entries[r] = NoPoller \/ r \in stuck)
=============================================================================
