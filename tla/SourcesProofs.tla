---------------------------- MODULE SourcesProofs ----------------------------
(***************************************************************************)
(* Proofs about what the server watches: its repositories (Repositories)  *)
(* and the objects of a cluster (LiveStore).  The two are independent.     *)
(*                                                                         *)
(* A webhook reaches a running poller because, as long as no two calls for *)
(* one repository overlap, the one call in flight knows the state of both  *)
(* maps, and because the poller a call or an entry names was spawned for   *)
(* its own repository, so that no call for another one aborts it.          *)
(*                                                                         *)
(* The live store follows the cluster because the events in flight, each   *)
(* applied to what the ones before it left, end at what the cluster holds. *)
(***************************************************************************)
EXTENDS LiveStore, Repositories, SequenceTheorems, TLAPS

PollerRef == 0 .. MaxPollers
SomeRepo == Repos \cup {"none"}
OrchPcs == {"idle", "spawn", "trigger", "insert", "untrigger"}
PollerPcs == {"none", "sleep", "acquire", "clone", "fetch"}
OrchState == [pc : OrchPcs, repo : SomeRepo, poller : PollerRef]
PollerState == [repo : SomeRepo, alive : BOOLEAN, permit : BOOLEAN, pc : PollerPcs]

RepoTypes ==
  /\ entries \in [Repos -> PollerRef] /\ triggers \in [Repos -> PollerRef]
  /\ orchCall \in [OrchCallers -> OrchState]
  /\ poller \in [Pollers -> PollerState]
  /\ raced \subseteq Repos

\* A call that runs is for a repository.
CallsNamed == \A c \in OrchCallers : orchCall[c].pc # "idle" => orchCall[c].repo \in Repos

\* An entry and a call name pollers of their own repository.
OwnPollers ==
  /\ \A r \in Repos : entries[r] # NoPoller => poller[entries[r]].repo = r
  /\ \A c \in OrchCallers : orchCall[c].pc \in {"trigger", "insert"} =>
       orchCall[c].poller # NoPoller /\ poller[orchCall[c].poller].repo = orchCall[c].repo

\* What the maps hold for r while no calls for it overlap.
Quiet(r) ==
  (\A c \in OrchCallers : orchCall[c].repo # r) =>
     /\ triggers[r] = entries[r]
     /\ entries[r] # NoPoller => poller[entries[r]].alive = TRUE
InFlight(r) ==
  \A c \in OrchCallers : orchCall[c].repo = r =>
    /\ entries[r] = NoPoller
    /\ orchCall[c].pc \in {"spawn", "trigger"} => triggers[r] = NoPoller
    /\ orchCall[c].pc = "insert" => triggers[r] = orchCall[c].poller
    /\ orchCall[c].pc \in {"trigger", "insert"} => poller[orchCall[c].poller].alive = TRUE
OneCall(r) == \A c, d \in OrchCallers : orchCall[c].repo = r /\ orchCall[d].repo = r => c = d

WiredInv == \A r \in Repos \ raced : OneCall(r) /\ Quiet(r) /\ InFlight(r)

RepositoriesInv == RepoTypes /\ CallsNamed /\ OwnPollers /\ WiredInv

LEMMA RepositoriesStart == RepositoriesInit => RepositoriesInv
  <1> SUFFICES ASSUME RepositoriesInit PROVE RepositoriesInv
    OBVIOUS
  <1> USE RepositoriesAssumption DEF RepositoriesInit, OrchIdle, NoPoller
  <1>1. RepoTypes
    BY DEF RepoTypes, OrchState, PollerState, PollerRef, SomeRepo, OrchPcs, PollerPcs, Unborn
  <1>2. CallsNamed /\ OwnPollers
    BY DEF CallsNamed, OwnPollers
  <1>3. WiredInv
    BY DEF WiredInv, OneCall, Quiet, InFlight
  <1> QED BY <1>1, <1>2, <1>3 DEF RepositoriesInv

LEMMA RealPollers ==
  ASSUME RepoTypes
  PROVE  /\ \A r \in Repos : entries[r] # NoPoller => entries[r] \in Pollers
         /\ \A r \in Repos : triggers[r] # NoPoller => triggers[r] \in Pollers
         /\ \A c \in OrchCallers : orchCall[c].poller # NoPoller => orchCall[c].poller \in Pollers
  BY RepositoriesAssumption DEF RepoTypes, OrchState, PollerRef, Pollers, NoPoller

LEMMA NoPollerRef == NoPoller \in PollerRef
  BY RepositoriesAssumption DEF NoPoller, PollerRef

LEMMA OrchIdleState == OrchIdle \in OrchState /\ OrchIdle.repo = "none" /\ OrchIdle.pc = "idle"
  BY NoPollerRef DEF OrchIdle, OrchState, OrchPcs, SomeRepo

\* A step of the pollers that moves no map and no call and kills no poller.
LEMMA PollersStep ==
  ASSUME RepositoriesInv, UNCHANGED <<entries, triggers, orchCall, raced>>,
         poller' \in [Pollers -> PollerState],
         \A p \in Pollers : poller'[p].repo = poller[p].repo /\ poller'[p].alive = poller[p].alive
  PROVE  RepositoriesInv'
  <1> USE DEF RepositoriesInv
  <1>1. RepoTypes' /\ CallsNamed'
    BY DEF RepoTypes, CallsNamed, PollerState
  <1>2. /\ \A r \in Repos : entries[r] # NoPoller => entries[r] \in Pollers
        /\ \A c \in OrchCallers : orchCall[c].poller # NoPoller => orchCall[c].poller \in Pollers
    BY RealPollers
  <1>3. OwnPollers'
    BY <1>2 DEF OwnPollers
  <1>4. WiredInv'
    BY <1>2 DEF WiredInv, OneCall, Quiet, InFlight, OwnPollers
  <1> QED BY <1>1, <1>3, <1>4

\* Moving one poller within its loop.
LEMMA PollerMoves ==
  ASSUME RepositoriesInv, NEW p \in Pollers, NEW s \in PollerState,
         s.repo = poller[p].repo, s.alive = poller[p].alive,
         poller' = [poller EXCEPT ![p] = s], UNCHANGED <<entries, triggers, orchCall, raced>>
  PROVE  RepositoriesInv'
  <1>1. poller \in [Pollers -> PollerState]
    BY DEF RepositoriesInv, RepoTypes, PollerState
  <1>2. poller' \in [Pollers -> PollerState]
    BY <1>1
  <1>3. \A q \in Pollers : poller'[q].repo = poller[q].repo /\ poller'[q].alive = poller[q].alive
    BY <1>1
  <1> QED BY <1>2, <1>3, PollersStep

LEMMA PcMoves ==
  ASSUME RepositoriesInv, NEW p \in Pollers, NEW pc \in PollerPcs,
         poller' = [poller EXCEPT ![p].pc = pc], UNCHANGED <<entries, triggers, orchCall, raced>>
  PROVE  RepositoriesInv'
  <1> DEFINE s == [poller[p] EXCEPT !.pc = pc]
  <1>1. s \in PollerState /\ s.repo = poller[p].repo /\ s.alive = poller[p].alive
    BY DEF RepositoriesInv, RepoTypes, PollerState
  <1>2. poller' = [poller EXCEPT ![p] = s]
    OBVIOUS
  <1> HIDE DEF s
  <1> QED BY <1>1, <1>2, PollerMoves

LEMMA LoopSteps ==
  ASSUME RepositoriesInv, NEW p \in Pollers,
         PollStep(p) \/ PollAcquire(p) \/ GitStep(p) \/ FetchFails(p)
  PROVE  RepositoriesInv'
  <1>1. CASE PollTimer(p)
    BY <1>1, PcMoves DEF PollTimer, PollerPcs
  <1>2. CASE PollTriggered(p)
    <2> DEFINE s == [poller[p] EXCEPT !.pc = "acquire", !.permit = FALSE]
    <2>1. s \in PollerState /\ s.repo = poller[p].repo /\ s.alive = poller[p].alive
      BY DEF RepositoriesInv, RepoTypes, PollerState, PollerPcs
    <2>2. poller' = [poller EXCEPT ![p] = s] /\ UNCHANGED <<entries, triggers, orchCall, raced>>
      BY <1>2 DEF PollTriggered
    <2> HIDE DEF s
    <2> QED BY <2>1, <2>2, PollerMoves
  <1>3. CASE PollAcquire(p)
    BY <1>3, PcMoves DEF PollAcquire, PollerPcs
  <1>4. CASE CloneOrigin(p)
    BY <1>4, PollersStep DEF CloneOrigin, RepositoriesInv, RepoTypes, PollerState
  <1>5. ASSUME NEW event, PollEnds(p, event), UNCHANGED <<entries, triggers, orchCall, raced>>
        PROVE  RepositoriesInv'
    BY <1>5, PcMoves DEF PollEnds, PollerPcs
  <1> QED
    BY <1>1, <1>2, <1>3, <1>4, <1>5
    DEF PollStep, GitStep, FetchOk, FetchNoOrigin, FetchFails, gitVars

LEMMA WebhookStep ==
  ASSUME RepositoriesInv, NEW r \in Repos, NEW d, Webhook(r, d) PROVE RepositoriesInv'
  <1> DEFINE p == triggers[r]
             s == [poller[p] EXCEPT !.permit = TRUE]
  <1>1. p \in Pollers
    BY RealPollers DEF Webhook, RepositoriesInv
  <1>2. s \in PollerState /\ s.repo = poller[p].repo /\ s.alive = poller[p].alive
    BY <1>1 DEF RepositoriesInv, RepoTypes, PollerState
  <1>3. poller' = [poller EXCEPT ![p] = s] /\ UNCHANGED <<entries, triggers, orchCall, raced>>
    BY DEF Webhook
  <1> HIDE DEF p, s
  <1> QED BY <1>1, <1>2, <1>3, PollerMoves

\* A step of caller c that leaves its call as t and spares the pollers of other repositories.
LEMMA CallStep ==
  ASSUME RepositoriesInv, NEW c \in OrchCallers, NEW t \in OrchState, NEW r \in Repos,
         orchCall' = [orchCall EXCEPT ![c] = t],
         orchCall[c].repo \in {"none", r}, t.repo \in {"none", r},
         t.pc # "idle" => t.repo = r,
         entries' \in [Repos -> PollerRef], triggers' \in [Repos -> PollerRef],
         poller' \in [Pollers -> PollerState],
         \A s \in Repos \ {r} : entries'[s] = entries[s] /\ triggers'[s] = triggers[s],
         \A p \in Pollers : poller[p].repo \in Repos \ {r} =>
            poller'[p].repo = poller[p].repo /\ poller'[p].alive = poller[p].alive,
         \A p \in Pollers : poller[p].repo = r => poller'[p].repo = r,
         entries'[r] # NoPoller => poller'[entries'[r]].repo = r,
         t.pc \in {"trigger", "insert"} => t.poller # NoPoller /\ poller'[t.poller].repo = r,
         raced' \subseteq Repos, raced \subseteq raced', raced' \subseteq raced \cup {r},
         r \notin raced' => OneCall(r)' /\ Quiet(r)' /\ InFlight(r)'
  PROVE  RepositoriesInv'
  <1> USE DEF RepositoriesInv
  <1>1. /\ \A s \in Repos : entries[s] # NoPoller => entries[s] \in Pollers
        /\ \A d \in OrchCallers : orchCall[d].poller # NoPoller => orchCall[d].poller \in Pollers
    BY RealPollers
  <1>2. RepoTypes'
    BY DEF RepoTypes
  <1>3. CallsNamed'
    BY DEF CallsNamed, RepoTypes
  <1>4. ASSUME NEW s \in Repos \ {r}
        PROVE  \A d \in OrchCallers :
                 /\ orchCall'[d].repo = s <=> orchCall[d].repo = s
                 /\ orchCall[d].repo = s => orchCall'[d] = orchCall[d]
    BY <1>4, RepositoriesAssumption DEF RepoTypes
  <1>5. OwnPollers'
    <2>1. ASSUME NEW s \in Repos, entries'[s] # NoPoller PROVE poller'[entries'[s]].repo = s
      BY <1>1, <2>1 DEF OwnPollers
    <2>2. ASSUME NEW d \in OrchCallers, orchCall'[d].pc \in {"trigger", "insert"}
          PROVE  orchCall'[d].poller # NoPoller /\ poller'[orchCall'[d].poller].repo = orchCall'[d].repo
      <3>1. CASE d = c
        BY <2>2, <3>1 DEF RepoTypes
      <3>2. CASE d # c
        <4>1. orchCall'[d] = orchCall[d]
          BY <3>2 DEF RepoTypes
        <4>2. orchCall[d].repo \in Repos
          BY <2>2, <4>1 DEF CallsNamed
        <4> QED BY <1>1, <2>2, <4>1, <4>2 DEF OwnPollers
      <3> QED BY <3>1, <3>2
    <2> QED BY <2>1, <2>2 DEF OwnPollers
  <1>6. ASSUME NEW s \in Repos \ raced' PROVE OneCall(s)' /\ Quiet(s)' /\ InFlight(s)'
    <2>1. CASE s = r
      BY <1>6, <2>1
    <2>2. CASE s # r
      <3>1. OneCall(s) /\ Quiet(s) /\ InFlight(s)
        BY <1>6 DEF WiredInv
      <3>2. \A d \in OrchCallers :
                 /\ orchCall'[d].repo = s <=> orchCall[d].repo = s
                 /\ orchCall[d].repo = s => orchCall'[d] = orchCall[d]
        BY <1>4, <2>2
      <3>3. OneCall(s)'
        BY <3>1, <3>2 DEF OneCall
      <3>4. Quiet(s)'
        BY <1>1, <2>2, <3>1, <3>2 DEF Quiet, OwnPollers
      <3>5. InFlight(s)'
        BY <1>1, <2>2, <3>1, <3>2 DEF InFlight, OwnPollers
      <3> QED BY <3>3, <3>4, <3>5
    <2> QED BY <2>1, <2>2
  <1> QED BY <1>2, <1>3, <1>5, <1>6 DEF WiredInv

\* Busy(r) is empty when nobody has a call for r.
LEMMA NobodyBusy == ASSUME NEW r PROVE Busy(r) = {} <=> \A c \in OrchCallers : orchCall[c].repo # r
  BY DEF Busy

LEMMA OneInFlight ==
  ASSUME NEW r, NEW c \in OrchCallers, orchCall'[c].repo = r,
         \A d \in OrchCallers : orchCall'[d].repo = r => d = c,
         entries'[r] = NoPoller,
         orchCall'[c].pc \in {"spawn", "trigger"} => triggers'[r] = NoPoller,
         orchCall'[c].pc = "insert" => triggers'[r] = orchCall'[c].poller,
         orchCall'[c].pc \in {"trigger", "insert"} => poller'[orchCall'[c].poller].alive = TRUE
  PROVE  OneCall(r)' /\ Quiet(r)' /\ InFlight(r)'
  <1>1. OneCall(r)'
    BY DEF OneCall
  <1>2. Quiet(r)'
    BY DEF Quiet
  <1>3. InFlight(r)'
    BY DEF InFlight
  <1> QED BY <1>1, <1>2, <1>3

LEMMA RegisterCheckStep ==
  ASSUME RepositoriesInv, NEW c \in OrchCallers, NEW r \in Repos, OrchRegisterCheck(c, r)
  PROVE  RepositoriesInv'
  <1> DEFINE t == [pc |-> "spawn", repo |-> r, poller |-> NoPoller]
  <1> USE DEF RepositoriesInv
  <1>1. /\ t \in OrchState /\ t.repo = r /\ t.pc = "spawn"
        /\ orchCall' = [orchCall EXCEPT ![c] = t]
    BY RepositoriesAssumption
    DEF OrchRegisterCheck, OrchState, OrchPcs, SomeRepo, PollerRef, NoPoller
  <1>2. orchCall[c].repo = "none" /\ entries[r] = NoPoller /\ UNCHANGED <<entries, triggers, poller>>
    BY DEF OrchRegisterCheck, OrchIdle
  <1>3. /\ raced' \subseteq Repos /\ raced \subseteq raced' /\ raced' \subseteq raced \cup {r}
        /\ r \notin raced' => r \notin raced /\ \A d \in OrchCallers : orchCall[d].repo # r
    BY NobodyBusy DEF OrchRegisterCheck, RepoTypes
  <1> HIDE DEF t
  <1>4. ASSUME r \notin raced' PROVE OneCall(r)' /\ Quiet(r)' /\ InFlight(r)'
    <2>1. \A d \in OrchCallers : orchCall'[d].repo = r => d = c
      BY <1>1, <1>3, <1>4 DEF RepoTypes
    <2>2. triggers[r] = NoPoller
      BY <1>2, <1>3, <1>4 DEF WiredInv, Quiet
    <2>3. orchCall'[c] = t
      BY <1>1 DEF RepoTypes
    <2> QED BY <1>1, <1>2, <2>1, <2>2, <2>3 DEF OneCall, Quiet, InFlight
  <1> QED BY <1>1, <1>2, <1>3, <1>4, CallStep DEF RepoTypes, OwnPollers

LEMMA SpawnStep ==
  ASSUME RepositoriesInv, NEW c \in OrchCallers, OrchSpawn(c) PROVE RepositoriesInv'
  <1> USE DEF RepositoriesInv
  <1>1. PICK p \in Pollers :
          /\ orchCall[c].pc = "spawn" /\ poller[p] = Unborn
          /\ poller' = [poller EXCEPT ![p] =
               [Unborn EXCEPT !.repo = orchCall[c].repo, !.alive = TRUE, !.pc = "sleep"]]
          /\ orchCall' = [orchCall EXCEPT ![c].pc = "trigger", ![c].poller = p]
          /\ UNCHANGED <<entries, triggers, raced>>
    BY DEF OrchSpawn
  <1>2. PICK r \in Repos : orchCall[c].repo = r
    BY <1>1 DEF CallsNamed
  <1> DEFINE s == [Unborn EXCEPT !.repo = r, !.alive = TRUE, !.pc = "sleep"]
             t == [orchCall[c] EXCEPT !.pc = "trigger", !.poller = p]
  <1>3. /\ t \in OrchState /\ t.pc = "trigger" /\ t.repo = r /\ t.poller = p
        /\ orchCall' = [orchCall EXCEPT ![c] = t] /\ p # NoPoller
    <2>1. p \in PollerRef /\ p # NoPoller
      BY RepositoriesAssumption DEF PollerRef, Pollers, NoPoller
    <2>2. orchCall[c] \in OrchState
      BY DEF RepoTypes
    <2>3. t \in OrchState /\ t.pc = "trigger" /\ t.repo = r /\ t.poller = p
      BY <1>2, <2>1, <2>2 DEF OrchState, OrchPcs
    <2>4. orchCall' = [orchCall EXCEPT ![c] = t]
      BY <1>1, <2>2 DEF RepoTypes
    <2> QED BY <2>1, <2>3, <2>4
  <1>4. s \in PollerState /\ s.repo = r /\ s.alive = TRUE /\ poller' = [poller EXCEPT ![p] = s]
    BY <1>1, <1>2 DEF PollerState, SomeRepo, PollerPcs, Unborn
  <1>5. poller[p].repo = "none"
    BY <1>1 DEF Unborn
  <1> HIDE DEF s, t
  <1>6. /\ poller' \in [Pollers -> PollerState]
        /\ poller'[p].repo = r /\ poller'[p].alive = TRUE
        /\ \A q \in Pollers \ {p} : poller'[q] = poller[q]
    BY <1>4 DEF RepoTypes
  <1>7. /\ \A q \in Pollers : poller[q].repo \in Repos \ {r} => poller'[q] = poller[q]
        /\ \A q \in Pollers : poller[q].repo = r => poller'[q].repo = r
    BY <1>5, <1>6, RepositoriesAssumption
  <1>8. entries[r] # NoPoller => poller'[entries[r]].repo = r
    BY <1>2, <1>7, RealPollers DEF OwnPollers
  <1>9. ASSUME r \notin raced PROVE OneCall(r)' /\ Quiet(r)' /\ InFlight(r)'
    <2>1. OneCall(r) /\ InFlight(r)
      BY <1>2, <1>9 DEF WiredInv
    <2>2. \A d \in OrchCallers : orchCall'[d].repo = orchCall[d].repo
      BY <1>2, <1>3 DEF RepoTypes
    <2>3. \A d \in OrchCallers : orchCall'[d].repo = r => d = c
      BY <1>2, <2>1, <2>2 DEF OneCall
    <2>4. entries[r] = NoPoller /\ triggers[r] = NoPoller
      BY <1>1, <1>2, <2>1 DEF InFlight
    <2>5. orchCall'[c] = t
      BY <1>3 DEF RepoTypes
    <2> QED BY <1>1, <1>3, <1>6, <2>3, <2>4, <2>5, OneInFlight
  <1>10. /\ entries' \in [Repos -> PollerRef] /\ triggers' \in [Repos -> PollerRef]
         /\ raced' = raced /\ raced \subseteq Repos /\ UNCHANGED <<entries, triggers>>
    BY <1>1 DEF RepoTypes
  <1> HIDE DEF RepositoriesInv
  <1> QED BY <1>2, <1>3, <1>6, <1>7, <1>8, <1>9, <1>10, CallStep

LEMMA TriggerStep ==
  ASSUME RepositoriesInv, NEW c \in OrchCallers, OrchTrigger(c) PROVE RepositoriesInv'
  <1> USE DEF RepositoriesInv
  <1>1. /\ orchCall[c].pc = "trigger" /\ UNCHANGED <<entries, poller, raced>>
        /\ triggers' = [triggers EXCEPT ![orchCall[c].repo] = orchCall[c].poller]
    BY DEF OrchTrigger
  <1>2. PICK r \in Repos : orchCall[c].repo = r
    BY <1>1 DEF CallsNamed
  <1> DEFINE t == [orchCall[c] EXCEPT !.pc = "insert"]
  <1>3. /\ t \in OrchState /\ t.pc = "insert" /\ t.repo = r /\ t.poller = orchCall[c].poller
        /\ orchCall' = [orchCall EXCEPT ![c] = t]
    BY <1>2 DEF OrchTrigger, RepoTypes, OrchState, OrchPcs
  <1>4. t.poller # NoPoller /\ poller[t.poller].repo = r
    BY <1>1, <1>2, <1>3 DEF OwnPollers
  <1> HIDE DEF t
  <1>5. /\ triggers' \in [Repos -> PollerRef] /\ triggers'[r] = t.poller
        /\ \A s \in Repos \ {r} : triggers'[s] = triggers[s]
    BY <1>1, <1>2, <1>3 DEF RepoTypes, OrchState
  <1>6. ASSUME r \notin raced PROVE OneCall(r)' /\ Quiet(r)' /\ InFlight(r)'
    <2>1. OneCall(r) /\ InFlight(r)
      BY <1>2, <1>6 DEF WiredInv
    <2>2. \A d \in OrchCallers : orchCall'[d].repo = orchCall[d].repo
      BY <1>2, <1>3 DEF RepoTypes
    <2>3. \A d \in OrchCallers : orchCall'[d].repo = r => d = c
      BY <1>2, <2>1, <2>2 DEF OneCall
    <2>4. entries[r] = NoPoller /\ poller[t.poller].alive = TRUE
      BY <1>1, <1>2, <1>3, <2>1 DEF InFlight
    <2>5. orchCall'[c] = t
      BY <1>3 DEF RepoTypes
    <2>6. /\ orchCall'[c].pc = "insert" /\ orchCall'[c].repo = r
          /\ triggers'[r] = orchCall'[c].poller /\ entries'[r] = NoPoller
          /\ poller'[orchCall'[c].poller].alive = TRUE
      BY <1>1, <1>3, <1>5, <2>4, <2>5
    <2> QED BY <2>3, <2>6, OneInFlight
  <1>7. entries[r] # NoPoller => poller[entries[r]].repo = r
    BY <1>2 DEF OwnPollers
  <1>8. /\ entries' \in [Repos -> PollerRef] /\ poller' \in [Pollers -> PollerState]
        /\ raced' = raced /\ raced \subseteq Repos /\ UNCHANGED <<entries, poller>>
    BY <1>1 DEF RepoTypes
  <1> HIDE DEF RepositoriesInv
  <1> QED BY <1>2, <1>3, <1>4, <1>5, <1>6, <1>7, <1>8, CallStep

LEMMA InsertStep ==
  ASSUME RepositoriesInv, NEW c \in OrchCallers, OrchInsert(c) PROVE RepositoriesInv'
  <1> USE DEF RepositoriesInv
  <1>1. /\ orchCall[c].pc = "insert" /\ entries[orchCall[c].repo] = NoPoller
        /\ entries' = [entries EXCEPT ![orchCall[c].repo] = orchCall[c].poller]
        /\ orchCall' = [orchCall EXCEPT ![c] = OrchIdle] /\ UNCHANGED <<triggers, poller, raced>>
    BY DEF OrchInsert
  <1>2. PICK r \in Repos : orchCall[c].repo = r
    BY <1>1 DEF CallsNamed
  <1>3. orchCall[c].poller # NoPoller /\ poller[orchCall[c].poller].repo = r
    BY <1>1, <1>2 DEF OwnPollers
  <1>4. /\ entries' \in [Repos -> PollerRef] /\ entries'[r] = orchCall[c].poller
        /\ \A s \in Repos \ {r} : entries'[s] = entries[s]
    BY <1>1, <1>2 DEF RepoTypes, OrchState
  <1>5. ASSUME r \notin raced PROVE OneCall(r)' /\ Quiet(r)' /\ InFlight(r)'
    <2>1. OneCall(r) /\ InFlight(r)
      BY <1>5 DEF WiredInv
    <2>2. \A d \in OrchCallers : orchCall'[d].repo # r
      BY <1>1, <1>2, <2>1, RepositoriesAssumption DEF OneCall, OrchIdle, RepoTypes
    <2>3. triggers[r] = orchCall[c].poller /\ poller[orchCall[c].poller].alive = TRUE
      BY <1>1, <1>2, <2>1 DEF InFlight
    <2> QED BY <1>1, <1>4, <2>2, <2>3 DEF OneCall, Quiet, InFlight
  <1>6. OrchIdle \in OrchState /\ OrchIdle.repo = "none" /\ OrchIdle.pc = "idle"
    BY OrchIdleState
  <1>7. /\ triggers' \in [Repos -> PollerRef] /\ poller' \in [Pollers -> PollerState]
        /\ raced' = raced /\ raced \subseteq Repos /\ UNCHANGED <<triggers, poller>>
    BY <1>1 DEF RepoTypes
  <1>8. orchCall' = [orchCall EXCEPT ![c] = OrchIdle]
    BY <1>1
  <1> HIDE DEF RepositoriesInv
  <1> QED BY <1>2, <1>3, <1>4, <1>5, <1>6, <1>7, <1>8, CallStep

\* Aborting a poller of r spares the others.
LEMMA AbortSpares ==
  ASSUME RepoTypes, NEW p \in Pollers, NEW r, poller[p].repo = r, poller' = Aborted(p)
  PROVE  /\ poller' \in [Pollers -> PollerState]
         /\ \A q \in Pollers : poller[q].repo # r =>
              poller'[q].repo = poller[q].repo /\ poller'[q].alive = poller[q].alive
         /\ \A q \in Pollers : poller[q].repo = r => poller'[q].repo = r
  <1> DEFINE pc == IF poller[p].pc \in {"clone", "fetch"} THEN poller[p].pc ELSE "none"
             s == [poller[p] EXCEPT !.alive = FALSE, !.pc = pc]
  <1>1. poller[p] \in PollerState /\ poller \in [Pollers -> PollerState]
    BY DEF RepoTypes
  <1>2. pc \in PollerPcs
    BY DEF PollerPcs
  <1>3. poller' = [poller EXCEPT ![p] = s]
    BY <1>1 DEF Aborted
  <1> HIDE DEF pc
  <1>4. s \in PollerState /\ s.repo = r
    BY <1>1, <1>2 DEF PollerState
  <1> HIDE DEF s
  <1>5. poller' \in [Pollers -> PollerState] /\ poller'[p].repo = r
        /\ \A q \in Pollers \ {p} : poller'[q] = poller[q]
    BY <1>1, <1>3, <1>4
  <1> QED BY <1>5

LEMMA RollbackStep ==
  ASSUME RepositoriesInv, NEW c \in OrchCallers, OrchRollback(c) PROVE RepositoriesInv'
  <1> USE DEF RepositoriesInv
  <1>1. /\ orchCall[c].pc = "insert" /\ entries[orchCall[c].repo] # NoPoller
        /\ triggers' = [triggers EXCEPT ![orchCall[c].repo] = NoPoller]
        /\ poller' = Aborted(orchCall[c].poller)
        /\ orchCall' = [orchCall EXCEPT ![c] = OrchIdle] /\ UNCHANGED <<entries, raced>>
    BY DEF OrchRollback
  <1>2. PICK r \in Repos : orchCall[c].repo = r
    BY <1>1 DEF CallsNamed
  <1>3. orchCall[c].poller \in Pollers /\ poller[orchCall[c].poller].repo = r
    BY <1>1, <1>2, RealPollers DEF OwnPollers
  <1>4. /\ poller' \in [Pollers -> PollerState]
        /\ \A q \in Pollers : poller[q].repo # r =>
             poller'[q].repo = poller[q].repo /\ poller'[q].alive = poller[q].alive
        /\ \A q \in Pollers : poller[q].repo = r => poller'[q].repo = r
    BY <1>1, <1>3, AbortSpares
  <1>5. r \in raced
    BY <1>1, <1>2 DEF WiredInv, InFlight
  <1>6. /\ triggers' \in [Repos -> PollerRef] /\ entries' \in [Repos -> PollerRef]
        /\ \A s \in Repos \ {r} : triggers'[s] = triggers[s]
        /\ raced' = raced /\ raced \subseteq Repos /\ entries' = entries
    BY <1>1, <1>2, NoPollerRef DEF RepoTypes
  <1>7. entries'[r] # NoPoller => poller'[entries'[r]].repo = r
    BY <1>4, <1>6, RealPollers DEF OwnPollers
  <1>8. /\ OrchIdle \in OrchState /\ OrchIdle.repo = "none" /\ OrchIdle.pc = "idle"
        /\ orchCall' = [orchCall EXCEPT ![c] = OrchIdle]
    BY <1>1, OrchIdleState
  <1> HIDE DEF RepositoriesInv
  <1> QED BY <1>2, <1>4, <1>5, <1>6, <1>7, <1>8, CallStep

LEMMA DeregisterStep ==
  ASSUME RepositoriesInv, NEW c \in OrchCallers, NEW r \in Repos, OrchDeregister(c, r)
  PROVE  RepositoriesInv'
  <1> USE DEF RepositoriesInv
  <1> DEFINE t == [OrchIdle EXCEPT !.pc = "untrigger", !.repo = r]
  <1>1. /\ entries[r] # NoPoller /\ entries' = [entries EXCEPT ![r] = NoPoller]
        /\ poller' = Aborted(entries[r]) /\ UNCHANGED triggers
        /\ orchCall[c].repo = "none"
    BY DEF OrchDeregister, OrchIdle
  <1>2. /\ t \in OrchState /\ t.pc = "untrigger" /\ t.repo = r
        /\ orchCall' = [orchCall EXCEPT ![c] = t]
    <2>1. t \in OrchState /\ t.pc = "untrigger" /\ t.repo = r
      BY NoPollerRef DEF OrchIdle, OrchState, OrchPcs, SomeRepo
    <2> QED BY <2>1 DEF OrchDeregister
  <1>3. entries[r] \in Pollers /\ poller[entries[r]].repo = r
    BY <1>1, RealPollers DEF OwnPollers
  <1>4. /\ poller' \in [Pollers -> PollerState]
        /\ \A q \in Pollers : poller[q].repo # r =>
             poller'[q].repo = poller[q].repo /\ poller'[q].alive = poller[q].alive
        /\ \A q \in Pollers : poller[q].repo = r => poller'[q].repo = r
    BY <1>1, <1>3, AbortSpares
  <1>5. /\ raced' \subseteq Repos /\ raced \subseteq raced' /\ raced' \subseteq raced \cup {r}
        /\ r \notin raced' => r \notin raced /\ \A d \in OrchCallers : orchCall[d].repo # r
    BY NobodyBusy DEF OrchDeregister, RepoTypes
  <1>6. /\ triggers' \in [Repos -> PollerRef] /\ entries' \in [Repos -> PollerRef]
        /\ \A s \in Repos \ {r} : triggers'[s] = triggers[s] /\ entries'[s] = entries[s]
        /\ entries'[r] = NoPoller
    BY <1>1, NoPollerRef DEF RepoTypes
  <1> HIDE DEF t
  <1>7. ASSUME r \notin raced' PROVE OneCall(r)' /\ Quiet(r)' /\ InFlight(r)'
    <2>1. \A d \in OrchCallers : orchCall'[d].repo = r => d = c
      BY <1>2, <1>5, <1>7 DEF RepoTypes
    <2>2. orchCall'[c] = t
      BY <1>2 DEF RepoTypes
    <2> QED BY <1>2, <1>6, <2>1, <2>2, OneInFlight
  <1>8. orchCall[c].repo = "none"
    BY <1>1
  <1> HIDE DEF RepositoriesInv
  <1> QED BY <1>2, <1>4, <1>5, <1>6, <1>7, <1>8, CallStep

LEMMA UntriggerStep ==
  ASSUME RepositoriesInv, NEW c \in OrchCallers, OrchUntrigger(c) PROVE RepositoriesInv'
  <1> USE DEF RepositoriesInv
  <1>1. /\ orchCall[c].pc = "untrigger"
        /\ triggers' = [triggers EXCEPT ![orchCall[c].repo] = NoPoller]
        /\ orchCall' = [orchCall EXCEPT ![c] = OrchIdle] /\ UNCHANGED <<entries, poller, raced>>
    BY DEF OrchUntrigger, RemoveTrigger
  <1>2. PICK r \in Repos : orchCall[c].repo = r
    BY <1>1 DEF CallsNamed
  <1>3. /\ triggers' \in [Repos -> PollerRef] /\ triggers'[r] = NoPoller
        /\ \A s \in Repos \ {r} : triggers'[s] = triggers[s]
    BY <1>1, <1>2, NoPollerRef DEF RepoTypes
  <1>4. ASSUME r \notin raced PROVE OneCall(r)' /\ Quiet(r)' /\ InFlight(r)'
    <2>1. OneCall(r) /\ InFlight(r)
      BY <1>4 DEF WiredInv
    <2>2. \A d \in OrchCallers : orchCall'[d].repo # r
      BY <1>1, <1>2, <2>1, RepositoriesAssumption DEF OneCall, OrchIdle, RepoTypes
    <2>3. entries[r] = NoPoller
      BY <1>1, <1>2, <2>1 DEF InFlight
    <2> QED BY <1>1, <1>3, <2>2, <2>3 DEF OneCall, Quiet, InFlight
  <1>5. entries[r] # NoPoller => poller[entries[r]].repo = r
    BY DEF OwnPollers
  <1>6. /\ entries' \in [Repos -> PollerRef] /\ poller' \in [Pollers -> PollerState]
        /\ raced' = raced /\ raced \subseteq Repos /\ UNCHANGED <<entries, poller>>
    BY <1>1 DEF RepoTypes
  <1>7. /\ OrchIdle \in OrchState /\ OrchIdle.repo = "none" /\ OrchIdle.pc = "idle"
        /\ orchCall' = [orchCall EXCEPT ![c] = OrchIdle]
    BY <1>1, OrchIdleState
  <1> HIDE DEF RepositoriesInv
  <1> QED BY <1>2, <1>3, <1>4, <1>5, <1>6, <1>7, CallStep

LEMMA RestartStep == RepositoriesInv /\ ServerRestart => RepositoriesInv'
  <1> SUFFICES ASSUME RepositoriesInv, ServerRestart PROVE RepositoriesInv'
    OBVIOUS
  <1> USE DEF ServerRestart
  <1>1. poller' \in [Pollers -> PollerState]
    <2> DEFINE s(p) == IF poller[p] = Unborn THEN Unborn ELSE [Unborn EXCEPT !.repo = poller[p].repo]
    <2>1. ASSUME NEW p \in Pollers PROVE s(p) \in PollerState
      BY DEF RepositoriesInv, RepoTypes, PollerState, Unborn, PollerPcs, SomeRepo
    <2> HIDE DEF s
    <2>2. poller' = [p \in Pollers |-> s(p)]
      BY DEF s
    <2> QED BY <2>1, <2>2
  <1>2. RepoTypes'
    BY <1>1, NoPollerRef, OrchIdleState DEF RepoTypes
  <1>3. CallsNamed' /\ OwnPollers'
    BY OrchIdleState DEF CallsNamed, OwnPollers
  <1>4. WiredInv'
    BY OrchIdleState, RepositoriesAssumption DEF WiredInv, OneCall, Quiet, InFlight
  <1> QED BY <1>2, <1>3, <1>4 DEF RepositoriesInv

LEMMA RepositoriesStep == RepositoriesInv /\ [RepositoriesNext]_repoVars => RepositoriesInv'
  <1> SUFFICES ASSUME RepositoriesInv, [RepositoriesNext]_repoVars PROVE RepositoriesInv'
    OBVIOUS
  <1>1. ASSUME UNCHANGED <<entries, triggers, orchCall, poller, raced>> PROVE RepositoriesInv'
    BY <1>1, PollersStep DEF RepositoriesInv, RepoTypes
  <1>2. CASE UNCHANGED repoVars
    BY <1>1, <1>2 DEF repoVars
  <1>3. ASSUME NEW r \in Repos, Push(r) PROVE RepositoriesInv'
    BY <1>1, <1>3 DEF Push
  <1>4. ASSUME NEW c \in OrchCallers, OrchStep(c) PROVE RepositoriesInv'
    BY <1>4, SpawnStep, TriggerStep, InsertStep, RollbackStep, UntriggerStep DEF OrchStep
  <1> QED
    BY <1>2, <1>3, <1>4, RegisterCheckStep, DeregisterStep, WebhookStep, LoopSteps, RestartStep
    DEF RepositoriesNext

\* The orchestrator's invariant: every entry and every call names a poller of its own
\* repository, and the calls for a repository that never overlapped know both maps.
THEOREM RepositoriesInvariant == RepositoriesSpec => []RepositoriesInv
  BY RepositoriesStart, RepositoriesStep, PTL DEF RepositoriesSpec

\* Orchestrator::register, deregister and RepoTriggers: the trigger of a registered
\* repository wakes its running poller, and a trigger that is left wakes a running one, for
\* any number of repositories, callers, pollers, webhooks, failing fetches and restarts.
THEOREM TriggersWired == RepositoriesSpec => []TriggerWired
  <1>1. RepositoriesInv => TriggerWired
    BY NobodyBusy DEF RepositoriesInv, WiredInv, Quiet, TriggerWired
  <1> QED BY <1>1, RepositoriesInvariant, PTL

-----------------------------------------------------------------------------
(* The live store.  What is in flight to the router of a kind, oldest      *)
(* first: the channel, the list being read, and the watch events behind it.*)

ObjectsOf(k) == {o \in Objects : KindOf(o) = k}
ListItem(k) == [object : ObjectsOf(k), app : Owners]
WatchEvent(k) == [type : {"Applied", "Deleted"}, object : ObjectsOf(k), app : Owners]
RestartEvent(k) == [type : {"Restarted"}, kind : {k}, list : SUBSET ListItem(k)]
Event(k) == WatchEvent(k) \cup RestartEvent(k)
SessionPcs == {"none", "start", "list", "init", "watch", "ended"}

Restart(k) == [type |-> "Restarted", kind |-> k, list |-> session[k].buf]
Relisted(k) == IF session[k].pc = "init" THEN <<Restart(k)>> ELSE <<>>
Pending(k) == (chan[k] \o Relisted(k)) \o feed[k]

LiveTypes ==
  /\ api \in [Objects -> Owners \cup {Absent}]
  /\ subscribed \subseteq Kinds
  /\ session = [k \in Kinds |-> session[k]] /\ feed = [k \in Kinds |-> feed[k]]
  /\ chan = [k \in Kinds |-> chan[k]]
  /\ \A k \in Kinds : session[k] = [pc |-> session[k].pc, client |-> session[k].client,
                                    buf |-> session[k].buf]
  /\ \A k \in Kinds : session[k].pc \in SessionPcs /\ session[k].buf \in SUBSET ListItem(k)
  /\ \A k \in Kinds : feed[k] \in Seq(WatchEvent(k)) /\ chan[k] \in Seq(Event(k))
  /\ slots \in [Owners -> SUBSET Objects]

\* A feed belongs to a session that has listed; a channel is filled for a subscriber.
ChannelsOwned ==
  /\ \A k \in Kinds : ~Listed(k) => feed[k] = <<>>
  /\ \A k \in Kinds \ subscribed : chan[k] = <<>>

\* What an event says of an object it touches.
Tells(e, o, v) ==
  /\ o \in Touched(e)
  /\ e.type = "Applied" => v = e.app
  /\ e.type = "Deleted" => v = Absent
  /\ e.type = "Restarted" =>
       /\ \A m \in e.list : m.object = o => m.app = v
       /\ v # Absent => [object |-> o, app |-> v] \in e.list

\* The store says v of o, as far as StoreTracksCluster asks it to.
Agrees(o, v) ==
  \/ o \in lost
  \/ /\ v # Absent => o \in slots[v] \cup wiped
     /\ \A a \in Owners \ {v} : o \in slots[a] => o \in moved

\* After the first n events of s the store will say v of o.
Says(s, n, o, v) ==
  \/ \E i \in 1 .. n : Tells(s[i], o, v) /\ \A j \in i + 1 .. n : o \notin Touched(s[j])
  \/ (\A j \in 1 .. n : o \notin Touched(s[j])) /\ Agrees(o, v)

\* A deletion names the app under which the store will then hold the object.
Chained(s) ==
  \A i \in 1 .. Len(s) : s[i].type = "Deleted" => Says(s, i - 1, s[i].object, s[i].app)

\* What is in flight leads the store to what a listed kind holds.
Leads(k, s) == Listed(k) => \A o \in ObjectsOf(k) : Says(s, Len(s), o, api[o])

LiveInv ==
  /\ LiveTypes /\ ChannelsOwned
  /\ \A k \in Kinds : Chained(Pending(k)) /\ Leads(k, Pending(k))

(* How the pending events carry the store. *)
LEMMA SaysSame ==
  ASSUME NEW s, NEW t, NEW n \in Nat, \A i \in 1 .. n : s[i] = t[i], NEW o, NEW v, Says(s, n, o, v)
  PROVE  Says(t, n, o, v)
  BY DEF Says

LEMMA SaysKept ==
  ASSUME NEW s, NEW n, NEW o, NEW v, Agrees(o, v) => Agrees(o, v)', Says(s, n, o, v)
  PROVE  Says(s, n, o, v)'
  BY DEF Says, Tells, Touched

\* The first event is gone: it was handled, or it was lost.
LEMMA SaysAdvance ==
  ASSUME NEW S, NEW s \in Seq(S), s # <<>>, NEW n \in 1 .. Len(s), NEW o, NEW v,
         Tells(s[1], o, v) => Agrees(o, v)',
         o \notin Touched(s[1]) /\ Agrees(o, v) => Agrees(o, v)',
         Says(s, n, o, v)
  PROVE  Says(Tail(s), n - 1, o, v)'
  <1>1. PICK t : t = Tail(s)
    OBVIOUS
  <1>2. n \in Nat /\ n - 1 \in Nat /\ \A i \in 1 .. n - 1 : i + 1 \in 2 .. n /\ t[i] = s[i + 1]
    BY <1>1
  <1>3. CASE \E i \in 1 .. n : Tells(s[i], o, v) /\ \A j \in i + 1 .. n : o \notin Touched(s[j])
    <2>1. PICK i \in 1 .. n : Tells(s[i], o, v) /\ \A j \in i + 1 .. n : o \notin Touched(s[j])
      BY <1>3
    <2>2. CASE i = 1
      <3>1. \A j \in 1 .. n - 1 : o \notin Touched(t[j])
        BY <1>2, <2>1, <2>2
      <3>2. Agrees(o, v)'
        BY <2>1, <2>2
      <3> QED BY <1>1, <3>1, <3>2 DEF Says, Tells, Touched
    <2>3. CASE i # 1
      <3>1. i - 1 \in 1 .. n - 1 /\ t[i - 1] = s[i]
        BY <1>2, <2>3
      <3>2. \A j \in (i - 1) + 1 .. n - 1 : o \notin Touched(t[j])
        BY <1>2, <2>1, <2>3
      <3> QED BY <1>1, <2>1, <3>1, <3>2 DEF Says, Tells, Touched
    <2> QED BY <2>2, <2>3
  <1>4. CASE (\A j \in 1 .. n : o \notin Touched(s[j])) /\ Agrees(o, v)
    <2>1. \A j \in 1 .. n - 1 : o \notin Touched(t[j])
      BY <1>2, <1>4
    <2>2. Agrees(o, v)'
      BY <1>4
    <2> QED BY <1>1, <2>1, <2>2 DEF Says, Tells, Touched
  <1> QED BY <1>3, <1>4 DEF Says

\* All of that for the events of one kind.
LEMMA ChainKept ==
  ASSUME NEW k \in Kinds, NEW s \in Seq(Event(k)), Chained(s),
         \A o \in ObjectsOf(k), v \in Owners \cup {Absent} : Agrees(o, v) => Agrees(o, v)'
  PROVE  /\ Chained(s)'
         /\ \A o \in ObjectsOf(k), v \in Owners \cup {Absent} :
              Says(s, Len(s), o, v) => Says(s, Len(s), o, v)'
  <1>1. \A i \in 1 .. Len(s) : s[i] \in Event(k)
    OBVIOUS
  <1>2. \A i \in 1 .. Len(s) : s[i].type = "Deleted" => s[i].object \in ObjectsOf(k) /\ s[i].app \in Owners
    BY <1>1 DEF Event, WatchEvent, RestartEvent
  <1>3. Chained(s)'
    BY <1>2, SaysKept DEF Chained
  <1> QED BY <1>3, SaysKept

LEMMA ChainAdvances ==
  ASSUME NEW k \in Kinds, NEW s \in Seq(Event(k)), s # <<>>, Chained(s),
         \A o \in ObjectsOf(k), v \in Owners \cup {Absent} :
            /\ Tells(s[1], o, v) => Agrees(o, v)'
            /\ o \notin Touched(s[1]) /\ Agrees(o, v) => Agrees(o, v)'
  PROVE  /\ Chained(Tail(s))'
         /\ \A o \in ObjectsOf(k), v \in Owners \cup {Absent} :
              Says(s, Len(s), o, v) => Says(Tail(s), Len(Tail(s)), o, v)'
  <1>1. PICK t : t = Tail(s)
    OBVIOUS
  <1>2. /\ Len(s) \in 1 .. Len(s) /\ Len(t) = Len(s) - 1 /\ Len(t) \in Nat
        /\ \A i \in 1 .. Len(t) : t[i] = s[i + 1] /\ i + 1 \in 1 .. Len(s) /\ s[i + 1] \in Event(k)
    BY <1>1
  <1>3. ASSUME NEW i \in 1 .. Len(t), t[i].type = "Deleted"
        PROVE  Says(t, i - 1, t[i].object, t[i].app)'
    <2>1. t[i].object \in ObjectsOf(k) /\ t[i].app \in Owners
      BY <1>2, <1>3 DEF Event, WatchEvent, RestartEvent
    <2>2. Says(s, i, t[i].object, t[i].app)
      <3>1. Says(s, (i + 1) - 1, s[i + 1].object, s[i + 1].app)
        BY <1>2, <1>3 DEF Chained
      <3>2. (i + 1) - 1 = i
        BY <1>2
      <3> QED BY <1>2, <3>1, <3>2
    <2>3. i \in 1 .. Len(s)
      BY <1>2
    <2> QED BY <1>1, <2>1, <2>2, <2>3, SaysAdvance
  <1>4. Chained(t)'
    BY <1>3 DEF Chained
  <1>5. ASSUME NEW o \in ObjectsOf(k), NEW v \in Owners \cup {Absent}, Says(s, Len(s), o, v)
        PROVE  Says(t, Len(t), o, v)'
    BY <1>1, <1>2, <1>5, SaysAdvance
  <1> QED BY <1>1, <1>4, <1>5

\* A prefix of a chain is one.
LEMMA ChainCut ==
  ASSUME NEW S, NEW s \in Seq(S), NEW t \in Seq(S), Chained(s), Len(t) <= Len(s),
         \A i \in 1 .. Len(t) : t[i] = s[i]
  PROVE  Chained(t)
  <1> SUFFICES ASSUME NEW i \in 1 .. Len(t), t[i].type = "Deleted"
               PROVE  Says(t, i - 1, t[i].object, t[i].app)
    BY DEF Chained
  <1>1. i \in 1 .. Len(s) /\ i - 1 \in Nat /\ \A j \in 1 .. i - 1 : s[j] = t[j]
    OBVIOUS
  <1>2. Says(s, i - 1, t[i].object, t[i].app)
    BY <1>1 DEF Chained
  <1> QED BY <1>1, <1>2, SaysSame

\* One more event.
LEMMA ChainGrows ==
  ASSUME NEW S, NEW s \in Seq(S), NEW e \in S, Chained(s),
         e.type = "Deleted" => Says(s, Len(s), e.object, e.app)
  PROVE  /\ Chained(Append(s, e))
         /\ \A o, v : Tells(e, o, v) \/ (o \notin Touched(e) /\ Says(s, Len(s), o, v)) =>
                        Says(Append(s, e), Len(s) + 1, o, v)
  <1>1. PICK t : t = Append(s, e)
    OBVIOUS
  <1>2. /\ Len(t) = Len(s) + 1 /\ Len(s) \in Nat /\ t[Len(s) + 1] = e
        /\ \A i \in 1 .. Len(s) : t[i] = s[i]
    BY <1>1
  <1>3. ASSUME NEW i \in 1 .. Len(t), t[i].type = "Deleted"
        PROVE  Says(t, i - 1, t[i].object, t[i].app)
    <2>1. i - 1 \in Nat /\ \A j \in 1 .. i - 1 : s[j] = t[j]
      BY <1>2
    <2>2. Says(s, i - 1, t[i].object, t[i].app)
      <3>1. CASE i = Len(s) + 1
        BY <1>2, <1>3, <3>1
      <3>2. CASE i # Len(s) + 1
        <4>1. i \in 1 .. Len(s) /\ t[i] = s[i]
          BY <1>2, <3>2
        <4> QED BY <1>3, <4>1 DEF Chained
      <3> QED BY <3>1, <3>2
    <2> QED BY <2>1, <2>2, SaysSame
  <1>4. ASSUME NEW o, NEW v, Tells(e, o, v)
        PROVE  Says(t, Len(s) + 1, o, v)
    BY <1>2, <1>4 DEF Says
  <1>5. ASSUME NEW o, NEW v, o \notin Touched(e), Says(s, Len(s), o, v)
        PROVE  Says(t, Len(s) + 1, o, v)
    <2>1. Says(t, Len(s), o, v)
      BY <1>2, <1>5, SaysSame
    <2>2. \A j \in 1 .. Len(s) + 1 : j \in 1 .. Len(s) \/ j = Len(s) + 1
      BY <1>2
    <2>3. \A j \in 1 .. Len(s) : j \in 1 .. Len(s) + 1
      BY <1>2
    <2>4. \A i \in 1 .. Len(s) : \A j \in i + 1 .. Len(s) + 1 : j \in i + 1 .. Len(s) \/ j = Len(s) + 1
      BY <1>2
    <2> QED BY <1>2, <1>5, <2>1, <2>2, <2>3, <2>4 DEF Says
  <1> QED BY <1>1, <1>3, <1>4, <1>5 DEF Chained

\* How the pending events are put together.
LEMMA PendingShapes ==
  ASSUME NEW S, NEW c \in Seq(S), NEW m \in Seq(S), NEW f \in Seq(S), NEW e \in S
  PROVE  /\ (c \o <<>>) \o f = c \o f /\ (c \o <<>>) \o <<>> = c
         /\ (c \o <<e>>) \o f = Append(c, e) \o f
         /\ f # <<>> => Append(c, Head(f)) \o Tail(f) = c \o f
         /\ (c \o m) \o Append(f, e) = Append((c \o m) \o f, e)
         /\ c # <<>> => Tail(c) \o f = Tail(c \o f) /\ (c \o f)[1] = Head(c) /\ c \o f # <<>>
         /\ (c \o m) \o f \in Seq(S)
  <1>1. <<>> \in Seq(S) /\ <<e>> \in Seq(S) /\ c \o m \in Seq(S) /\ c \o f \in Seq(S)
        /\ Append(f, e) \in Seq(S)
    OBVIOUS
  <1>2. c \o <<>> = c
    BY ConcatEmptySeq
  <1>3. Append(c, e) = c \o <<e>>
    BY AppendIsConcat
  <1>4. f # <<>> => Append(c, Head(f)) \o Tail(f) = c \o f
    <2> SUFFICES ASSUME f # <<>> PROVE Append(c, Head(f)) \o Tail(f) = c \o f
      OBVIOUS
    <2>1. PICK h, t : h = Head(f) /\ t = Tail(f)
      OBVIOUS
    <2>2. /\ h \in S /\ t \in Seq(S) /\ Len(t) = Len(f) - 1 /\ h = f[1] /\ Len(f) \in Nat \ {0}
          /\ \A i \in 1 .. Len(t) : t[i] = f[i + 1]
      BY <2>1, HeadTailProperties
    <2>3. PICK d : d = Append(c, h)
      OBVIOUS
    <2>4. /\ d \in Seq(S) /\ Len(d) = Len(c) + 1 /\ d[Len(c) + 1] = h /\ Len(c) \in Nat
          /\ \A i \in 1 .. Len(c) : d[i] = c[i]
      BY <2>2, <2>3
    <2>5. /\ d \o t \in Seq(S) /\ c \o f \in Seq(S) /\ Len(d \o t) = Len(c \o f)
          /\ Len(c \o f) = Len(c) + Len(f)
      <3>1. d \o t \in Seq(S) /\ Len(d \o t) = Len(d) + Len(t)
        BY <2>2, <2>4, ConcatProperties
      <3>2. c \o f \in Seq(S) /\ Len(c \o f) = Len(c) + Len(f)
        BY ConcatProperties
      <3> QED BY <2>2, <2>4, <3>1, <3>2
    <2>6. ASSUME NEW i \in 1 .. Len(c \o f) PROVE (d \o t)[i] = (c \o f)[i]
      <3>1. (d \o t)[i] = IF i <= Len(d) THEN d[i] ELSE t[i - Len(d)]
        BY <2>2, <2>4, <2>5, ConcatProperties
      <3>2. (c \o f)[i] = IF i <= Len(c) THEN c[i] ELSE f[i - Len(c)]
        BY <2>5, ConcatProperties
      <3>3. CASE i <= Len(c)
        BY <2>4, <2>5, <3>1, <3>2, <3>3
      <3>4. CASE i = Len(c) + 1
        BY <2>2, <2>4, <2>5, <3>1, <3>2, <3>4
      <3>5. CASE i > Len(c) + 1
        <4>1. i - Len(d) \in 1 .. Len(t) /\ (i - Len(d)) + 1 = i - Len(c)
          BY <2>2, <2>4, <2>5, <3>5
        <4>2. t[i - Len(d)] = f[(i - Len(d)) + 1]
          BY <2>2, <4>1
        <4> QED BY <2>4, <2>5, <3>1, <3>2, <3>5, <4>1, <4>2
      <3> QED BY <2>5, <3>3, <3>4, <3>5
    <2> QED BY <2>1, <2>3, <2>5, <2>6, SeqEqual
  <1>5. (c \o m) \o Append(f, e) = Append((c \o m) \o f, e)
    <2>1. PICK b : b = c \o m /\ b \in Seq(S)
      BY <1>1
    <2>2. Append(f, e) = f \o <<e>> /\ b \o f \in Seq(S)
      BY <2>1, AppendIsConcat
    <2>3. Append(b \o f, e) = (b \o f) \o <<e>>
      BY <2>2, AppendIsConcat
    <2>4. b \o (f \o <<e>>) = (b \o f) \o <<e>>
      BY <1>1, <2>1, ConcatAssociative
    <2> QED BY <2>1, <2>2, <2>3, <2>4
  <1>6. c # <<>> => Tail(c) \o f = Tail(c \o f) /\ (c \o f)[1] = Head(c) /\ c \o f # <<>>
    <2> SUFFICES ASSUME c # <<>>
                 PROVE  Tail(c) \o f = Tail(c \o f) /\ (c \o f)[1] = Head(c) /\ c \o f # <<>>
      OBVIOUS
    <2>1. PICK t, p : t = Tail(c) /\ p = c \o f
      OBVIOUS
    <2>2. /\ t \in Seq(S) /\ Len(t) = Len(c) - 1 /\ Len(c) \in Nat \ {0} /\ Head(c) = c[1]
          /\ \A i \in 1 .. Len(t) : t[i] = c[i + 1]
      BY <2>1, HeadTailProperties
    <2>3. /\ p \in Seq(S) /\ Len(p) = Len(c) + Len(f) /\ Len(f) \in Nat
          /\ \A i \in 1 .. Len(c) + Len(f) : p[i] = IF i <= Len(c) THEN c[i] ELSE f[i - Len(c)]
      BY <2>1, ConcatProperties
    <2>4. p # <<>> /\ p[1] = c[1]
      BY <2>2, <2>3
    <2>5. PICK u : u = Tail(p)
      OBVIOUS
    <2>6. /\ u \in Seq(S) /\ Len(u) = Len(p) - 1
          /\ \A i \in 1 .. Len(u) : u[i] = p[i + 1]
      BY <2>3, <2>4, <2>5, HeadTailProperties
    <2>7. /\ t \o f \in Seq(S) /\ Len(t \o f) = Len(u)
          /\ \A i \in 1 .. Len(u) : (t \o f)[i] = IF i <= Len(t) THEN t[i] ELSE f[i - Len(t)]
      <3>1. /\ t \o f \in Seq(S) /\ Len(t \o f) = Len(t) + Len(f)
            /\ \A i \in 1 .. Len(t) + Len(f) :
                 (t \o f)[i] = IF i <= Len(t) THEN t[i] ELSE f[i - Len(t)]
        BY <2>2, ConcatProperties
      <3>2. Len(t) + Len(f) = Len(u)
        BY <2>2, <2>3, <2>6
      <3> QED BY <3>1, <3>2
    <2>8. ASSUME NEW i \in 1 .. Len(u) PROVE (t \o f)[i] = u[i]
      <3>1. u[i] = p[i + 1] /\ i + 1 \in 1 .. Len(c) + Len(f)
        BY <2>3, <2>6
      <3>2. CASE i <= Len(t)
        BY <2>2, <2>3, <2>6, <2>7, <3>1, <3>2
      <3>3. CASE i > Len(t)
        <4>1. ~(i <= Len(t)) /\ ~(i + 1 <= Len(c)) /\ i - Len(t) = (i + 1) - Len(c)
          BY <2>2, <2>6, <3>3
        <4>2. (t \o f)[i] = f[i - Len(t)] /\ p[i + 1] = f[(i + 1) - Len(c)]
          BY <2>3, <2>7, <3>1, <4>1
        <4> QED BY <3>1, <4>1, <4>2
      <3> QED BY <2>2, <2>3, <2>6, <3>2, <3>3
    <2>9. t \o f = u
      BY <2>6, <2>7, <2>8, SeqEqual
    <2> QED BY <2>1, <2>2, <2>4, <2>5, <2>9
  <1>7. (c \o <<>>) \o f = c \o f /\ (c \o <<>>) \o <<>> = c
    BY ONLY <1>2
  <1>8. (c \o <<e>>) \o f = Append(c, e) \o f
    BY ONLY <1>3
  <1>9. (c \o m) \o f \in Seq(S)
    BY <1>1, ConcatProperties
  <1> QED BY <1>4, <1>5, <1>6, <1>7, <1>8, <1>9

LEMMA PendingTyped ==
  ASSUME LiveTypes, NEW k \in Kinds
  PROVE  /\ Pending(k) \in Seq(Event(k)) /\ chan[k] \in Seq(Event(k)) /\ feed[k] \in Seq(Event(k))
         /\ Relisted(k) \in Seq(Event(k)) /\ Restart(k) \in Event(k)
  <1>1. chan[k] \in Seq(Event(k)) /\ feed[k] \in Seq(Event(k))
    <2>1. WatchEvent(k) \subseteq Event(k)
      BY DEF Event
    <2> QED BY <2>1, SeqMonotonic DEF LiveTypes
  <1>2. Restart(k) \in Event(k)
    BY DEF LiveTypes, Event, RestartEvent, Restart
  <1>3. Relisted(k) \in Seq(Event(k))
    BY <1>2 DEF Relisted
  <1> QED BY <1>1, <1>2, <1>3, PendingShapes DEF Pending

\* A kind whose session, feed and channel are as they were.
LEMMA KindKept ==
  ASSUME LiveInv, NEW k \in Kinds,
         session'[k] = session[k], feed'[k] = feed[k], chan'[k] = chan[k],
         \A o \in ObjectsOf(k) : api'[o] = api[o] /\ api[o] \in Owners \cup {Absent},
         \A o \in ObjectsOf(k), v \in Owners \cup {Absent} : Agrees(o, v) => Agrees(o, v)'
  PROVE  Chained(Pending(k))' /\ Leads(k, Pending(k))'
  <1>1. PICK s : s = Pending(k)
    OBVIOUS
  <1>2. s \in Seq(Event(k)) /\ Chained(s) /\ Leads(k, s)
    BY <1>1, PendingTyped DEF LiveInv
  <1>3. Pending(k)' = s
    BY <1>1 DEF Pending, Relisted, Restart
  <1>4. Chained(s)'
    BY <1>2, ChainKept
  <1>5. Leads(k, s)'
    BY <1>2, ChainKept DEF Leads, Listed
  <1> QED BY <1>3, <1>4, <1>5

\* A step for one kind, with what the store says of the others as it was.
LEMMA OneKindStep ==
  ASSUME LiveInv, LiveTypes', ChannelsOwned', NEW k \in Kinds,
         \A q \in Kinds \ {k} : session'[q] = session[q] /\ feed'[q] = feed[q] /\ chan'[q] = chan[q],
         \A q \in Kinds \ {k} : \A o \in ObjectsOf(q) :
            /\ api'[o] = api[o]
            /\ \A v \in Owners \cup {Absent} : Agrees(o, v) => Agrees(o, v)',
         Chained(Pending(k))', Leads(k, Pending(k))'
  PROVE  LiveInv'
  <1>1. \A q \in Kinds : \A o \in ObjectsOf(q) : api[o] \in Owners \cup {Absent}
    BY DEF LiveInv, LiveTypes, ObjectsOf
  <1>2. \A q \in Kinds \ {k} : Chained(Pending(q))' /\ Leads(q, Pending(q))'
    BY <1>1, KindKept
  <1> QED BY <1>2 DEF LiveInv

LEMMA StoreUntouched ==
  ASSUME slots' = slots, wiped' = wiped, moved' = moved, lost \subseteq lost',
         NEW o, NEW v, Agrees(o, v)
  PROVE  Agrees(o, v)'
  BY DEF Agrees

LEMMA LiveStart == LiveInit => LiveInv
  <1> SUFFICES ASSUME LiveInit PROVE LiveInv
    OBVIOUS
  <1>1. LiveTypes
    BY LiveAssumption DEF LiveInit, LiveTypes, NoSession, SessionPcs
  <1>2. ChannelsOwned /\ \A k \in Kinds : ~Listed(k) /\ session[k].pc = "none"
    BY DEF LiveInit, ChannelsOwned, Listed, NoSession
  <1>3. \A k \in Kinds : Pending(k) = <<>>
    BY <1>2, ConcatEmptySeq DEF LiveInit, Pending, Relisted
  <1>4. Chained(<<>>)
    BY DEF Chained
  <1> QED BY <1>1, <1>2, <1>3, <1>4 DEF LiveInv, Leads

\* The monitor and the cluster's connection are not what the routers read.
LEMMA ConnectionStep ==
  ASSUME LiveInv, UNCHANGED <<api, session, feed, chan, slots, wiped, moved, lost>>,
         subscribed \subseteq subscribed', subscribed' \subseteq Kinds
  PROVE  LiveInv'
  <1>1. LiveTypes'
    BY DEF LiveInv, LiveTypes
  <1>2. ChannelsOwned'
    BY DEF LiveInv, ChannelsOwned, Listed
  <1>3. \A k \in Kinds : \A o \in ObjectsOf(k) : api[o] \in Owners \cup {Absent}
    BY DEF LiveInv, LiveTypes, ObjectsOf
  <1>4. \A o, v : Agrees(o, v) => Agrees(o, v)'
    BY StoreUntouched
  <1>5. ASSUME NEW k \in Kinds PROVE Chained(Pending(k))' /\ Leads(k, Pending(k))'
    BY <1>3, <1>4, KindKept
  <1> QED BY <1>1, <1>2, <1>5 DEF LiveInv

\* A session that is not reading a watch, new or ended: what is in the channel stays.
LEMMA SessionAside ==
  ASSUME LiveInv, NEW k \in Kinds,
         NEW p \in {"none", "start", "list", "ended"}, NEW c, NEW b \in SUBSET ListItem(k),
         session' = [session EXCEPT ![k] = [pc |-> p, client |-> c, buf |-> b]],
         feed' = [feed EXCEPT ![k] = <<>>],
         UNCHANGED <<api, subscribed, chan, slots, wiped, moved, lost>>
  PROVE  LiveInv'
  <1>1. /\ session'[k] = [pc |-> p, client |-> c, buf |-> b] /\ feed'[k] = <<>>
        /\ session' = [q \in Kinds |-> session'[q]] /\ feed' = [q \in Kinds |-> feed'[q]]
        /\ \A q \in Kinds \ {k} : session'[q] = session[q] /\ feed'[q] = feed[q] /\ chan'[q] = chan[q]
    BY DEF LiveInv, LiveTypes
  <1>2. LiveTypes'
    <2>1. /\ session'[k].pc \in SessionPcs /\ session'[k].buf \in SUBSET ListItem(k)
          /\ session'[k] = [pc |-> session'[k].pc, client |-> session'[k].client, buf |-> session'[k].buf]
      BY <1>1 DEF SessionPcs
    <2>2. \A q \in Kinds : feed'[q] \in Seq(WatchEvent(q)) /\ chan'[q] \in Seq(Event(q))
      BY <1>1 DEF LiveInv, LiveTypes
    <2>3. \A q \in Kinds \ {k} :
            /\ session'[q] = [pc |-> session'[q].pc, client |-> session'[q].client, buf |-> session'[q].buf]
            /\ session'[q].pc \in SessionPcs /\ session'[q].buf \in SUBSET ListItem(q)
      BY <1>1 DEF LiveInv, LiveTypes
    <2>4. /\ api' \in [Objects -> Owners \cup {Absent}] /\ subscribed' \subseteq Kinds
          /\ chan' = [q \in Kinds |-> chan'[q]] /\ slots' \in [Owners -> SUBSET Objects]
      BY DEF LiveInv, LiveTypes
    <2> QED BY <1>1, <2>1, <2>2, <2>3, <2>4 DEF LiveTypes
  <1>3. ChannelsOwned' /\ ~Listed(k)'
    BY <1>1 DEF LiveInv, ChannelsOwned, Listed
  <1>4. PICK s, t : s = Pending(k) /\ t = chan[k]
    OBVIOUS
  <1>5. s \in Seq(Event(k)) /\ t \in Seq(Event(k)) /\ Chained(s)
    BY <1>4, PendingTyped DEF LiveInv
  <1>6. Len(t) <= Len(s) /\ \A i \in 1 .. Len(t) : t[i] = s[i]
    <2>1. PICK m, f : m = Relisted(k) /\ f = feed[k] /\ m \in Seq(Event(k)) /\ f \in Seq(Event(k))
      BY PendingTyped DEF LiveInv
    <2>2. PICK u : u = t \o m /\ u \in Seq(Event(k)) /\ s = u \o f
      BY <1>4, <1>5, <2>1, ConcatProperties DEF Pending
    <2>3. /\ Len(u) = Len(t) + Len(m) /\ Len(t) \in Nat /\ Len(m) \in Nat
          /\ \A i \in 1 .. Len(t) : u[i] = t[i]
      BY <1>5, <2>1, <2>2, ConcatProperties
    <2>4. /\ Len(s) = Len(u) + Len(f) /\ Len(u) \in Nat /\ Len(f) \in Nat
          /\ \A i \in 1 .. Len(u) : s[i] = u[i]
      BY <2>1, <2>2, ConcatProperties
    <2> QED BY <2>3, <2>4
  <1>7. Chained(t)
    BY <1>5, <1>6, ChainCut
  <1>8. \A o, v : Agrees(o, v) => Agrees(o, v)'
    BY StoreUntouched
  <1>9. Chained(t)'
    BY <1>5, <1>7, <1>8, ChainKept
  <1>10. Pending(k)' = t
    <2>1. Relisted(k)' = <<>> /\ feed'[k] = <<>> /\ chan'[k] = t
      BY <1>1, <1>4 DEF Relisted
    <2> QED BY <1>5, <2>1, ConcatEmptySeq DEF Pending
  <1> QED BY <1>1, <1>2, <1>3, <1>8, <1>9, <1>10, OneKindStep DEF Leads

LEMMA SuperviseStep ==
  ASSUME LiveInv, NEW k \in Kinds, Supervise(k) PROVE LiveInv'
  <1>1. UNCHANGED <<api, subscribed, chan, slots, wiped, moved, lost>>
    BY DEF Supervise, storeVars
  <1>2. CASE UNCHANGED <<session, feed>>
    BY <1>1, <1>2, ConnectionStep DEF LiveInv, LiveTypes
  <1>3. CASE /\ session' = [session EXCEPT ![k] =
                   IF tracker.state = "Up" THEN [NoSession EXCEPT !.pc = "start"] ELSE NoSession]
             /\ feed' = [feed EXCEPT ![k] = <<>>]
    <2>1. PICK p : p = IF tracker.state = "Up" THEN "start" ELSE "none"
      OBVIOUS
    <2>2. session' = [session EXCEPT ![k] = [pc |-> p, client |-> 0, buf |-> {}]]
      <3>1. [NoSession EXCEPT !.pc = "start"] = [pc |-> "start", client |-> 0, buf |-> {}]
        BY DEF NoSession
      <3>2. NoSession = [pc |-> "none", client |-> 0, buf |-> {}]
        BY DEF NoSession
      <3>3. CASE tracker.state = "Up"
        BY <1>3, <2>1, <3>1, <3>3
      <3>4. CASE tracker.state # "Up"
        BY <1>3, <2>1, <3>2, <3>4
      <3> QED BY <3>3, <3>4
    <2>3. p \in {"none", "start", "list", "ended"} /\ {} \in SUBSET ListItem(k)
      BY <2>1
    <2> QED BY <1>1, <1>3, <2>2, <2>3, SessionAside
  <1> QED BY <1>2, <1>3 DEF Supervise

LEMMA SessionClientStep ==
  ASSUME LiveInv, NEW k \in Kinds, SessionClient(k) PROVE LiveInv'
  <1>1. /\ UNCHANGED <<api, subscribed, chan, slots, wiped, moved, lost>> /\ feed' = feed
        /\ session[k].pc = "start" /\ session' = [session EXCEPT ![k].pc = "list", ![k].client = client]
    BY DEF SessionClient, sessionUnchanged, storeVars
  <1>2. PICK b : b = session[k].buf /\ b \in SUBSET ListItem(k)
    BY DEF LiveInv, LiveTypes
  <1>3. session' = [session EXCEPT ![k] = [pc |-> "list", client |-> client, buf |-> b]]
    <2>1. session[k] = [pc |-> session[k].pc, client |-> session[k].client, buf |-> b]
      BY <1>2 DEF LiveInv, LiveTypes
    <2>2. [session[k] EXCEPT !.pc = "list", !.client = client] =
            [pc |-> "list", client |-> client, buf |-> b]
      <3>1. PICK x, y, d : x = session[k].pc /\ y = session[k].client /\ d = client
        OBVIOUS
      <3>2. PICK u : u = [[pc |-> x, client |-> y, buf |-> b] EXCEPT !.pc = "list"]
        OBVIOUS
      <3>3. u = [pc |-> "list", client |-> y, buf |-> b]
        BY <3>2
      <3>4. [u EXCEPT !.client = d] = [pc |-> "list", client |-> d, buf |-> b]
        BY <3>3
      <3> QED BY <2>1, <3>1, <3>2, <3>4
    <2>3. session' = [session EXCEPT ![k] = [session[k] EXCEPT !.pc = "list", !.client = client]]
      BY <1>1 DEF LiveInv, LiveTypes
    <2> QED BY <2>2, <2>3
  <1>4. feed' = [feed EXCEPT ![k] = <<>>]
    <2>1. feed[k] = <<>> /\ feed = [q \in Kinds |-> feed[q]]
      BY <1>1 DEF LiveInv, LiveTypes, ChannelsOwned, Listed
    <2> QED BY <1>1, <2>1
  <1> QED BY <1>1, <1>2, <1>3, <1>4, SessionAside

LEMMA SessionEndsStep ==
  ASSUME LiveInv, NEW k \in Kinds, SessionEnds(k) PROVE LiveInv'
  <1>1. session' = [session EXCEPT ![k] = [pc |-> "ended", client |-> 0, buf |-> {}]]
    <2>1. [NoSession EXCEPT !.pc = "ended"] = [pc |-> "ended", client |-> 0, buf |-> {}]
      BY DEF NoSession
    <2> QED BY <2>1 DEF SessionEnds
  <1>2. UNCHANGED <<api, subscribed, chan, slots, wiped, moved, lost>>
    BY DEF SessionEnds, sessionUnchanged, storeVars
  <1>3. feed' = [feed EXCEPT ![k] = <<>>] /\ {} \in SUBSET ListItem(k)
    BY DEF SessionEnds
  <1> QED BY <1>1, <1>2, <1>3, SessionAside

LEMMA SessionListStep ==
  ASSUME LiveInv, NEW k \in Kinds, SessionList(k) PROVE LiveInv'
  <1>1. /\ UNCHANGED <<api, subscribed, chan, feed, slots, wiped, moved, lost>>
        /\ session[k].pc = "list"
        /\ session' = [session EXCEPT ![k].pc = "init", ![k].buf = Objs(Labelled(k))]
    BY DEF SessionList, sessionUnchanged, storeVars
  <1>2. PICK b, y : b = Objs(Labelled(k)) /\ y = session[k].client
    OBVIOUS
  <1>3. b \in SUBSET ListItem(k)
    BY <1>2 DEF Objs, Labelled, ListItem, ObjectsOf, LiveInv, LiveTypes
  <1>4. session'[k] = [pc |-> "init", client |-> y, buf |-> b]
    <2>1. PICK x, c : x = session[k].pc /\ c = session[k].buf
      OBVIOUS
    <2>2. session[k] = [pc |-> x, client |-> y, buf |-> c]
      BY <1>2, <2>1 DEF LiveInv, LiveTypes
    <2>3. PICK u : u = [[pc |-> x, client |-> y, buf |-> c] EXCEPT !.pc = "init"]
      OBVIOUS
    <2>4. u = [pc |-> "init", client |-> y, buf |-> c]
      BY <2>3
    <2>5. [u EXCEPT !.buf = b] = [pc |-> "init", client |-> y, buf |-> b]
      BY <2>4
    <2>6. session'[k] = [session[k] EXCEPT !.pc = "init", !.buf = b]
      BY <1>1, <1>2 DEF LiveInv, LiveTypes
    <2> QED BY <2>2, <2>3, <2>5, <2>6
  <1>5. /\ session' = [q \in Kinds |-> session'[q]]
        /\ \A q \in Kinds \ {k} : session'[q] = session[q] /\ feed'[q] = feed[q] /\ chan'[q] = chan[q]
    BY <1>1 DEF LiveInv, LiveTypes
  <1>6. LiveTypes'
    <2>1. /\ session'[k].pc \in SessionPcs /\ session'[k].buf \in SUBSET ListItem(k)
          /\ session'[k] = [pc |-> session'[k].pc, client |-> session'[k].client, buf |-> session'[k].buf]
      BY <1>3, <1>4 DEF SessionPcs
    <2>2. \A q \in Kinds \ {k} :
            /\ session'[q] = [pc |-> session'[q].pc, client |-> session'[q].client, buf |-> session'[q].buf]
            /\ session'[q].pc \in SessionPcs /\ session'[q].buf \in SUBSET ListItem(q)
      BY <1>5 DEF LiveInv, LiveTypes
    <2> QED BY <1>1, <1>5, <2>1, <2>2 DEF LiveInv, LiveTypes
  <1>7. ChannelsOwned' /\ feed[k] = <<>> /\ ~Listed(k)
    BY <1>1, <1>5 DEF LiveInv, ChannelsOwned, Listed
  <1>8. PICK s, e : s = chan[k] /\ e = [type |-> "Restarted", kind |-> k, list |-> b]
    OBVIOUS
  <1>9. s \in Seq(Event(k)) /\ e \in Event(k) /\ s = Pending(k)
    <2>1. s \in Seq(Event(k)) /\ e \in Event(k)
      BY <1>3, <1>8 DEF LiveInv, LiveTypes, Event, RestartEvent
    <2>2. Relisted(k) = <<>>
      BY <1>1 DEF Relisted
    <2> QED BY <1>7, <1>8, <2>1, <2>2, ConcatEmptySeq DEF Pending
  <1>10. Pending(k)' = Append(s, e)
    <2>1. Relisted(k)' = <<e>> /\ chan'[k] = s /\ feed'[k] = <<>>
      <3>1. session'[k].pc = "init" /\ session'[k].buf = b
        BY <1>4
      <3>2. Relisted(k)' = <<e>>
        BY ONLY <1>8, <3>1 DEF Relisted, Restart
      <3> QED BY <1>1, <1>7, <1>8, <3>2
    <2>2. Append(s, e) = s \o <<e>> /\ Append(s, e) \in Seq(Event(k))
      BY <1>9, AppendIsConcat
    <2> QED BY <2>1, <2>2, ConcatEmptySeq DEF Pending
  <1>11. ASSUME NEW o \in ObjectsOf(k) PROVE Tells(e, o, api[o])
    BY <1>2, <1>8 DEF Tells, Touched, Objs, Labelled, ObjectsOf
  <1>12. PICK t : t = Append(s, e) /\ t \in Seq(Event(k)) /\ Len(t) = Len(s) + 1
    BY <1>9, AppendProperties
  <1>13. Chained(t) /\ \A o \in ObjectsOf(k) : Says(t, Len(t), o, api[o])
    <2>1. e.type # "Deleted" /\ Chained(s)
      BY <1>8, <1>9 DEF LiveInv
    <2> QED BY <1>9, <1>11, <1>12, <2>1, ChainGrows
  <1>14. \A o, v : Agrees(o, v) => Agrees(o, v)'
    BY <1>1, StoreUntouched
  <1>15. Chained(t)' /\ Leads(k, t)'
    <2>1. \A o \in ObjectsOf(k) : api'[o] = api[o] /\ api[o] \in Owners \cup {Absent}
      BY <1>1 DEF LiveInv, LiveTypes, ObjectsOf
    <2> QED BY <1>12, <1>13, <1>14, <2>1, ChainKept DEF Leads
  <1>16. \A q \in Kinds \ {k} : \A o \in ObjectsOf(q) : api'[o] = api[o]
    BY <1>1
  <1>17. Chained(Pending(k))' /\ Leads(k, Pending(k))'
    BY <1>10, <1>12, <1>15
  <1> QED BY <1>5, <1>6, <1>7, <1>14, <1>16, <1>17, OneKindStep

\* An event that is sent joins the pending events or costs the oldest of them.
LEMMA SendKeeps ==
  ASSUME LiveInv, NEW k \in Kinds, NEW e \in Event(k), NEW f \in Seq(Event(k)), Send(k, e),
         Pending(k) = (chan[k] \o <<e>>) \o f, UNCHANGED <<slots, wiped, moved>>
  PROVE  /\ chan' = [q \in Kinds |-> chan'[q]] /\ chan'[k] \in Seq(Event(k))
         /\ \A q \in Kinds : q # k \/ k \notin subscribed => chan'[q] = chan[q]
         /\ lost \subseteq lost'
         /\ \E t \in Seq(Event(k)) :
              /\ t = chan'[k] \o f /\ Chained(t)'
              /\ \A o \in ObjectsOf(k), v \in Owners \cup {Absent} :
                   Says(Pending(k), Len(Pending(k)), o, v) => Says(t, Len(t), o, v)'
  <1>1. PICK c, a, s : c = chan[k] /\ a = Append(c, e) /\ s = Pending(k)
    OBVIOUS
  <1>2. /\ c \in Seq(Event(k)) /\ s \in Seq(Event(k)) /\ Chained(s)
        /\ chan = [q \in Kinds |-> chan[q]]
    BY <1>1, PendingTyped DEF LiveInv, LiveTypes
  <1>3. /\ a \in Seq(Event(k)) /\ a # <<>> /\ s = a \o f
    BY <1>1, <1>2, PendingShapes, AppendProperties
  <1>4. Tail(a) \o f = Tail(s) /\ s[1] = Head(a) /\ s # <<>> /\ Tail(a) \in Seq(Event(k))
        /\ Tail(s) \in Seq(Event(k))
    BY <1>2, <1>3, PendingShapes, HeadTailProperties
  <1>5. CASE /\ chan' = [chan EXCEPT ![k] = Append(@, e)] /\ UNCHANGED lost /\ k \in subscribed
    <2>1. /\ chan'[k] = a /\ chan' = [q \in Kinds |-> chan'[q]]
          /\ \A q \in Kinds : q # k => chan'[q] = chan[q]
      BY <1>1, <1>2, <1>5
    <2>2. \A o, v : Agrees(o, v) => Agrees(o, v)'
      BY <1>5, StoreUntouched
    <2>3. Chained(s)' /\ \A o \in ObjectsOf(k), v \in Owners \cup {Absent} :
                           Says(s, Len(s), o, v) => Says(s, Len(s), o, v)'
      BY <1>2, <2>2, ChainKept
    <2> QED BY <1>1, <1>2, <1>3, <1>5, <2>1, <2>3
  <1>6. ASSUME chan'[k] = Tail(a), lost' = lost \cup Touched(s[1]),
               chan' = [q \in Kinds |-> chan'[q]],
               \A q \in Kinds : q # k \/ k \notin subscribed => chan'[q] = chan[q]
        PROVE  /\ chan' = [q \in Kinds |-> chan'[q]] /\ chan'[k] \in Seq(Event(k))
               /\ \A q \in Kinds : q # k \/ k \notin subscribed => chan'[q] = chan[q]
               /\ lost \subseteq lost'
               /\ \E t \in Seq(Event(k)) :
                    /\ t = chan'[k] \o f /\ Chained(t)'
                    /\ \A o \in ObjectsOf(k), v \in Owners \cup {Absent} :
                         Says(Pending(k), Len(Pending(k)), o, v) => Says(t, Len(t), o, v)'
    <2>1. ASSUME NEW o \in ObjectsOf(k), NEW v \in Owners \cup {Absent}
          PROVE  /\ Tells(s[1], o, v) => Agrees(o, v)'
                 /\ o \notin Touched(s[1]) /\ Agrees(o, v) => Agrees(o, v)'
      <3>1. Tells(s[1], o, v) => o \in lost'
        BY <1>6 DEF Tells
      <3>2. o \in lost' => Agrees(o, v)'
        BY DEF Agrees
      <3>3. Agrees(o, v) => Agrees(o, v)'
        BY <1>6, StoreUntouched
      <3> QED BY <3>1, <3>2, <3>3
    <2>2. Chained(Tail(s))' /\ \A o \in ObjectsOf(k), v \in Owners \cup {Absent} :
            Says(s, Len(s), o, v) => Says(Tail(s), Len(Tail(s)), o, v)'
      BY <1>2, <1>4, <2>1, ChainAdvances
    <2>3. PICK t : t = Tail(s)
      OBVIOUS
    <2>4. /\ t \in Seq(Event(k)) /\ t = chan'[k] \o f /\ Chained(t)'
          /\ \A o \in ObjectsOf(k), v \in Owners \cup {Absent} :
               Says(Pending(k), Len(Pending(k)), o, v) => Says(t, Len(t), o, v)'
      BY <1>1, <1>4, <1>6, <2>2, <2>3
    <2> QED BY <1>4, <1>6, <2>4
  <1>7. CASE k \notin subscribed /\ lost' = lost \cup Touched(e) /\ UNCHANGED chan
    <2>1. c = <<>>
      BY <1>1, <1>7 DEF LiveInv, ChannelsOwned
    <2>2. Head(a) = e /\ Tail(a) = <<>>
      BY <1>1, <1>2, <2>1, HeadTailAppend
    <2> QED BY <1>1, <1>2, <1>4, <1>6, <1>7, <2>1, <2>2
  <1>8. CASE /\ k \in subscribed /\ ~(Len(chan[k]) < ChannelCap)
             /\ chan' = [chan EXCEPT ![k] = Append(Tail(@), e)]
             /\ lost' = lost \cup Touched(Head(chan[k]))
    <2>1. c # <<>>
      BY <1>1, <1>2, <1>8, LiveAssumption
    <2>2. Head(a) = Head(c) /\ Tail(a) = Append(Tail(c), e)
      BY <1>1, <1>2, <2>1, HeadTailAppend
    <2>3. chan'[k] = Tail(a) /\ chan' = [q \in Kinds |-> chan'[q]]
          /\ \A q \in Kinds : q # k => chan'[q] = chan[q]
      BY <1>1, <1>2, <1>8, <2>2
    <2> QED BY <1>1, <1>4, <1>6, <1>8, <2>2, <2>3
  <1> QED BY <1>5, <1>7, <1>8 DEF Send

LEMMA SessionInitDoneStep ==
  ASSUME LiveInv, NEW k \in Kinds, SessionInitDone(k) PROVE LiveInv'
  <1>1. /\ session[k].pc = "init" /\ Send(k, Restart(k))
        /\ session' = [session EXCEPT ![k].pc = "watch", ![k].buf = {}]
        /\ UNCHANGED <<api, subscribed, feed, slots, wiped, moved>>
    BY DEF SessionInitDone, Restart, sessionUnchanged, storeVars
  <1>2. PICK y, f : y = session[k].client /\ f = feed[k]
    OBVIOUS
  <1>3. session'[k] = [pc |-> "watch", client |-> y, buf |-> {}]
    <2>1. PICK x, c : x = session[k].pc /\ c = session[k].buf
      OBVIOUS
    <2>2. session[k] = [pc |-> x, client |-> y, buf |-> c]
      BY <1>2, <2>1 DEF LiveInv, LiveTypes
    <2>3. PICK u : u = [[pc |-> x, client |-> y, buf |-> c] EXCEPT !.pc = "watch"]
      OBVIOUS
    <2>4. u = [pc |-> "watch", client |-> y, buf |-> c]
      BY <2>3
    <2>5. [u EXCEPT !.buf = {}] = [pc |-> "watch", client |-> y, buf |-> {}]
      BY <2>4
    <2>6. session'[k] = [session[k] EXCEPT !.pc = "watch", !.buf = {}]
      BY <1>1 DEF LiveInv, LiveTypes
    <2> QED BY <2>2, <2>3, <2>5, <2>6
  <1>4. /\ session' = [q \in Kinds |-> session'[q]]
        /\ \A q \in Kinds \ {k} : session'[q] = session[q] /\ feed'[q] = feed[q]
    BY <1>1 DEF LiveInv, LiveTypes
  <1>5. Restart(k) \in Event(k) /\ f \in Seq(Event(k)) /\ Pending(k) = (chan[k] \o <<Restart(k)>>) \o f
    BY <1>1, <1>2, PendingTyped DEF LiveInv, Pending, Relisted
  <1>6. /\ chan' = [q \in Kinds |-> chan'[q]] /\ chan'[k] \in Seq(Event(k))
        /\ \A q \in Kinds : q # k \/ k \notin subscribed => chan'[q] = chan[q]
        /\ lost \subseteq lost'
        /\ \E t \in Seq(Event(k)) :
             /\ t = chan'[k] \o f /\ Chained(t)'
             /\ \A o \in ObjectsOf(k), v \in Owners \cup {Absent} :
                  Says(Pending(k), Len(Pending(k)), o, v) => Says(t, Len(t), o, v)'
    BY <1>1, <1>5, SendKeeps
  <1>7. LiveTypes'
    <2>1. /\ session'[k].pc \in SessionPcs /\ session'[k].buf \in SUBSET ListItem(k)
          /\ session'[k] = [pc |-> session'[k].pc, client |-> session'[k].client, buf |-> session'[k].buf]
      BY <1>3 DEF SessionPcs
    <2>2. \A q \in Kinds \ {k} :
            /\ session'[q] = [pc |-> session'[q].pc, client |-> session'[q].client, buf |-> session'[q].buf]
            /\ session'[q].pc \in SessionPcs /\ session'[q].buf \in SUBSET ListItem(q)
      BY <1>4 DEF LiveInv, LiveTypes
    <2>3. \A q \in Kinds : feed'[q] \in Seq(WatchEvent(q)) /\ chan'[q] \in Seq(Event(q))
      BY <1>1, <1>6 DEF LiveInv, LiveTypes
    <2>4. feed' = [q \in Kinds |-> feed'[q]]
      BY <1>1 DEF LiveInv, LiveTypes
    <2> QED BY <1>1, <1>4, <1>6, <2>1, <2>2, <2>3, <2>4 DEF LiveInv, LiveTypes
  <1>8. ChannelsOwned'
    <2>1. session'[k].pc = "watch" /\ subscribed' = subscribed
      BY <1>1, <1>3
    <2>2. \A q \in Kinds : ~Listed(q)' => q # k /\ ~Listed(q) /\ feed'[q] = feed[q]
      BY <1>4, <2>1 DEF Listed
    <2>3. \A q \in Kinds \ subscribed : chan'[q] = chan[q]
      BY <1>6
    <2> QED BY <2>1, <2>2, <2>3 DEF LiveInv, ChannelsOwned
  <1>9. Chained(Pending(k))' /\ Leads(k, Pending(k))'
    <2>1. PICK t \in Seq(Event(k)) :
             /\ t = chan'[k] \o f /\ Chained(t)'
             /\ \A o \in ObjectsOf(k), v \in Owners \cup {Absent} :
                  Says(Pending(k), Len(Pending(k)), o, v) => Says(t, Len(t), o, v)'
      BY <1>6
    <2>2. Pending(k)' = t
      <3>1. Relisted(k)' = <<>> /\ feed'[k] = f
        BY <1>1, <1>2, <1>3 DEF Relisted
      <3> QED BY <1>5, <1>6, <2>1, <3>1, ConcatEmptySeq DEF Pending
    <2>3. \A o \in ObjectsOf(k) : /\ Says(Pending(k), Len(Pending(k)), o, api[o])
                                  /\ api'[o] = api[o] /\ api[o] \in Owners \cup {Absent}
      BY <1>1 DEF LiveInv, LiveTypes, Leads, Listed, ObjectsOf
    <2>4. Leads(k, t)'
      BY <2>1, <2>3 DEF Leads
    <2> QED BY <2>1, <2>2, <2>4
  <1>10. \A o, v : Agrees(o, v) => Agrees(o, v)'
    BY <1>1, <1>6, StoreUntouched
  <1>11. \A q \in Kinds \ {k} :
           /\ session'[q] = session[q] /\ feed'[q] = feed[q] /\ chan'[q] = chan[q]
           /\ \A o \in ObjectsOf(q) : api'[o] = api[o]
    BY <1>1, <1>4, <1>6
  <1> QED BY <1>7, <1>8, <1>9, <1>10, <1>11, OneKindStep

LEMMA SessionForwardStep ==
  ASSUME LiveInv, NEW k \in Kinds, SessionForward(k) PROVE LiveInv'
  <1>1. PICK e, f : e = Head(feed[k]) /\ f = Tail(feed[k])
    OBVIOUS
  <1>2. /\ session[k].pc = "watch" /\ feed[k] # <<>> /\ Send(k, e)
        /\ feed' = [feed EXCEPT ![k] = f]
        /\ UNCHANGED <<api, subscribed, session, slots, wiped, moved>>
    BY <1>1 DEF SessionForward, sessionUnchanged, storeVars
  <1>3. /\ e \in WatchEvent(k) /\ f \in Seq(WatchEvent(k)) /\ e \in Event(k)
        /\ feed' = [q \in Kinds |-> feed'[q]] /\ feed'[k] = f
        /\ \A q \in Kinds \ {k} : feed'[q] = feed[q]
    <2>1. e \in WatchEvent(k) /\ f \in Seq(WatchEvent(k))
      BY <1>1, <1>2, HeadTailProperties DEF LiveInv, LiveTypes
    <2>2. feed = [q \in Kinds |-> feed[q]]
      BY DEF LiveInv, LiveTypes
    <2> QED BY <1>2, <2>1, <2>2 DEF Event
  <1>4. f \in Seq(Event(k))
    <2>1. WatchEvent(k) \subseteq Event(k)
      BY DEF Event
    <2> QED BY <1>3, <2>1, SeqMonotonic
  <1>5. Pending(k) = (chan[k] \o <<e>>) \o f
    <2>1. PICK c, g : c = chan[k] /\ g = feed[k]
      OBVIOUS
    <2>2. c \in Seq(Event(k)) /\ g \in Seq(Event(k))
      BY <2>1, PendingTyped DEF LiveInv
    <2>3. Pending(k) = (c \o <<>>) \o g
      BY <1>2, <2>1 DEF Pending, Relisted
    <2>4. (c \o <<>>) \o g = c \o g /\ Append(c, Head(g)) \o Tail(g) = c \o g
      <3>1. g # <<>> /\ e \in Event(k)
        BY <1>2, <1>3, <2>1
      <3> QED BY ONLY <2>2, <3>1, PendingShapes
    <2>5. (c \o <<e>>) \o f = Append(c, e) \o f
      BY <1>3, <1>4, <2>2, PendingShapes
    <2> QED BY <1>1, <2>1, <2>3, <2>4, <2>5
  <1>6. /\ chan' = [q \in Kinds |-> chan'[q]] /\ chan'[k] \in Seq(Event(k))
        /\ \A q \in Kinds : q # k \/ k \notin subscribed => chan'[q] = chan[q]
        /\ lost \subseteq lost'
        /\ \E t \in Seq(Event(k)) :
             /\ t = chan'[k] \o f /\ Chained(t)'
             /\ \A o \in ObjectsOf(k), v \in Owners \cup {Absent} :
                  Says(Pending(k), Len(Pending(k)), o, v) => Says(t, Len(t), o, v)'
    BY <1>2, <1>3, <1>4, <1>5, SendKeeps
  <1>7. LiveTypes'
    <2>1. \A q \in Kinds : feed'[q] \in Seq(WatchEvent(q)) /\ chan'[q] \in Seq(Event(q))
      BY <1>3, <1>6 DEF LiveInv, LiveTypes
    <2> QED BY <1>2, <1>3, <1>6, <2>1 DEF LiveInv, LiveTypes
  <1>8. ChannelsOwned'
    <2>1. \A q \in Kinds : ~Listed(q)' => q # k /\ ~Listed(q) /\ feed'[q] = feed[q]
      BY <1>2, <1>3 DEF Listed
    <2>2. \A q \in Kinds \ subscribed : chan'[q] = chan[q]
      BY <1>6
    <2> QED BY <1>2, <2>1, <2>2 DEF LiveInv, ChannelsOwned
  <1>9. Chained(Pending(k))' /\ Leads(k, Pending(k))'
    <2>1. PICK t \in Seq(Event(k)) :
             /\ t = chan'[k] \o f /\ Chained(t)'
             /\ \A o \in ObjectsOf(k), v \in Owners \cup {Absent} :
                  Says(Pending(k), Len(Pending(k)), o, v) => Says(t, Len(t), o, v)'
      BY <1>6
    <2>2. Pending(k)' = t
      <3>1. Relisted(k)' = <<>> /\ feed'[k] = f
        BY <1>2, <1>3 DEF Relisted
      <3> QED BY <1>6, <2>1, <3>1, ConcatEmptySeq DEF Pending
    <2>3. \A o \in ObjectsOf(k) : /\ Says(Pending(k), Len(Pending(k)), o, api[o])
                                  /\ api'[o] = api[o] /\ api[o] \in Owners \cup {Absent}
      BY <1>2 DEF LiveInv, LiveTypes, Leads, Listed, ObjectsOf
    <2>4. Leads(k, t)'
      BY <2>1, <2>3 DEF Leads
    <2> QED BY <2>1, <2>2, <2>4
  <1>10. \A o, v : Agrees(o, v) => Agrees(o, v)'
    BY <1>2, <1>6, StoreUntouched
  <1>11. \A q \in Kinds \ {k} :
           /\ session'[q] = session[q] /\ feed'[q] = feed[q] /\ chan'[q] = chan[q]
           /\ \A o \in ObjectsOf(q) : api'[o] = api[o]
    BY <1>2, <1>3, <1>6
  <1> QED BY <1>7, <1>8, <1>9, <1>10, <1>11, OneKindStep

\* A change of an object is the newest pending event of a listed kind.
LEMMA ChangeStep ==
  ASSUME LiveInv, NEW o \in Objects, NEW a \in Owners \cup {Absent}, Change(o, a)
  PROVE  LiveInv'
  <1>1. PICK k, e : /\ k = KindOf(o)
                    /\ e = (IF a = Absent THEN [type |-> "Deleted", object |-> o, app |-> api[o]]
                            ELSE [type |-> "Applied", object |-> o, app |-> a])
    OBVIOUS
  <1>2. /\ api[o] # a /\ api' = [api EXCEPT ![o] = a]
        /\ feed' = IF Listed(k) THEN [feed EXCEPT ![k] = Append(@, e)] ELSE feed
        /\ UNCHANGED <<subscribed, session, chan, slots, wiped, moved, lost>>
    BY <1>1 DEF Change, storeVars
  <1>3. k \in Kinds /\ o \in ObjectsOf(k) /\ \A q \in Kinds \ {k} : o \notin ObjectsOf(q)
    BY <1>1 DEF Objects, ObjectsOf, KindOf
  <1>4. /\ api' \in [Objects -> Owners \cup {Absent}] /\ api'[o] = a
        /\ \A p \in Objects \ {o} : api'[p] = api[p]
    BY <1>2 DEF LiveInv, LiveTypes
  <1>5. /\ e \in WatchEvent(k) /\ e.object = o /\ Touched(e) = {o} /\ Tells(e, o, a)
        /\ e.type = "Deleted" => e.app = api[o]
    <2>1. CASE a = Absent
      <3>1. api[o] \in Owners
        BY <1>2, <2>1 DEF LiveInv, LiveTypes
      <3>2. e = [type |-> "Deleted", object |-> o, app |-> api[o]]
        BY <1>1, <2>1
      <3> QED BY <1>3, <2>1, <3>1, <3>2 DEF WatchEvent, Touched, Tells
    <2>2. CASE a # Absent
      <3>1. e = [type |-> "Applied", object |-> o, app |-> a] /\ a \in Owners
        BY <1>1, <2>2
      <3> QED BY <1>3, <2>2, <3>1 DEF WatchEvent, Touched, Tells
    <2> QED BY <2>1, <2>2
  <1>6. \A p, v : Agrees(p, v) => Agrees(p, v)'
    BY <1>2, StoreUntouched
  <1>7. \A q \in Kinds \ {k} : \A p \in ObjectsOf(q) : api'[p] = api[p]
    BY <1>3, <1>4 DEF ObjectsOf
  <1>8. PICK s : s = Pending(k) /\ s \in Seq(Event(k)) /\ Chained(s)
    BY <1>3, PendingTyped DEF LiveInv
  <1>9. CASE ~Listed(k)
    <2>1. feed' = feed /\ Pending(k)' = s /\ ~Listed(k)'
      BY <1>2, <1>8, <1>9 DEF Pending, Relisted, Restart, Listed
    <2>2. LiveTypes' /\ ChannelsOwned'
      BY <1>2, <1>4, <2>1 DEF LiveInv, LiveTypes, ChannelsOwned, Listed
    <2>3. Chained(s)'
      BY <1>3, <1>6, <1>8, ChainKept
    <2>4. Chained(Pending(k))' /\ Leads(k, Pending(k))'
      BY <2>1, <2>3 DEF Leads
    <2> QED BY <1>2, <1>3, <1>6, <1>7, <2>1, <2>2, <2>4, OneKindStep
  <1>10. CASE Listed(k)
    <2>1. /\ feed'[k] = Append(feed[k], e) /\ feed' = [q \in Kinds |-> feed'[q]]
          /\ \A q \in Kinds \ {k} : feed'[q] = feed[q]
      BY <1>2, <1>3, <1>10 DEF LiveInv, LiveTypes
    <2>2. e \in Event(k)
      BY <1>5 DEF Event
    <2>3. Pending(k)' = Append(s, e)
      <3>1. PICK c, m, f : c = chan[k] /\ m = Relisted(k) /\ f = feed[k]
        OBVIOUS
      <3>2. c \in Seq(Event(k)) /\ m \in Seq(Event(k)) /\ f \in Seq(Event(k))
        BY <1>3, <3>1, PendingTyped DEF LiveInv
      <3>3. (c \o m) \o Append(f, e) = Append((c \o m) \o f, e)
        BY <2>2, <3>2, PendingShapes
      <3>4. Relisted(k)' = m
        BY <1>2, <3>1 DEF Relisted, Restart
      <3> QED BY <1>2, <1>8, <2>1, <3>1, <3>3, <3>4 DEF Pending
    <2>4. LiveTypes'
      <3>1. \A q \in Kinds : feed'[q] \in Seq(WatchEvent(q))
        <4>1. \A q \in Kinds : feed[q] \in Seq(WatchEvent(q))
          BY DEF LiveInv, LiveTypes
        <4>2. feed'[k] \in Seq(WatchEvent(k))
          BY <1>3, <1>5, <2>1, <4>1, AppendProperties
        <4> QED BY <2>1, <4>1, <4>2
      <3> QED BY <1>2, <1>4, <2>1, <3>1 DEF LiveInv, LiveTypes
    <2>5. ChannelsOwned'
      <3>1. \A q \in Kinds : ~Listed(q)' => q # k /\ ~Listed(q) /\ feed'[q] = feed[q]
        BY <1>2, <1>10, <2>1 DEF Listed
      <3> QED BY <1>2, <3>1 DEF LiveInv, ChannelsOwned
    <2>6. PICK t : t = Append(s, e) /\ t \in Seq(Event(k)) /\ Len(t) = Len(s) + 1
      BY <1>8, <2>2, AppendProperties
    <2>7. \A p \in ObjectsOf(k) : Says(s, Len(s), p, api[p])
      BY <1>3, <1>8, <1>10 DEF LiveInv, Leads
    <2>8. e.type = "Deleted" => Says(s, Len(s), e.object, e.app)
      BY <1>3, <1>5, <2>7
    <2>9. Chained(t) /\ \A p, v : Tells(e, p, v) \/ (p \notin Touched(e) /\ Says(s, Len(s), p, v)) =>
                                    Says(t, Len(t), p, v)
      BY <1>8, <2>2, <2>6, <2>8, ChainGrows
    <2>10. ASSUME NEW p \in ObjectsOf(k) PROVE Says(t, Len(t), p, api'[p]) /\ api'[p] \in Owners \cup {Absent}
      <3>1. CASE p = o
        BY <1>4, <1>5, <2>9, <3>1
      <3>2. CASE p # o
        <4>1. p \notin Touched(e) /\ api'[p] = api[p] /\ api[p] \in Owners \cup {Absent}
          BY <1>4, <1>5, <3>2 DEF ObjectsOf, LiveInv, LiveTypes
        <4> QED BY <2>7, <2>9, <4>1
      <3> QED BY <3>1, <3>2
    <2>11. Chained(t)' /\ Leads(k, t)'
      <3>1. Chained(t)' /\ \A p \in ObjectsOf(k), v \in Owners \cup {Absent} :
                             Says(t, Len(t), p, v) => Says(t, Len(t), p, v)'
        BY <1>3, <1>6, <2>6, <2>9, ChainKept
      <3> QED BY <2>10, <3>1 DEF Leads
    <2>12. Chained(Pending(k))' /\ Leads(k, Pending(k))'
      BY <2>3, <2>6, <2>11
    <2> QED BY <1>2, <1>3, <1>6, <1>7, <2>1, <2>4, <2>5, <2>12, OneKindStep
  <1> QED BY <1>9, <1>10

\* What the updater makes of an event.
LEMMA EventHandled ==
  ASSUME LiveTypes, NEW k \in Kinds, NEW e \in Event(k), e.type = "Deleted" => Agrees(e.object, e.app),
         /\ e.type = "Applied" => UpsertOne(e)
         /\ e.type = "Deleted" => RemoveOne(e)
         /\ e.type = "Restarted" => ReplaceAll(e)
  PROVE  /\ slots' \in [Owners -> SUBSET Objects]
         /\ \A o \in Objects, v \in Owners \cup {Absent} :
              /\ Tells(e, o, v) => Agrees(o, v)'
              /\ o \notin Touched(e) /\ Agrees(o, v) => Agrees(o, v)'
  <1>1. slots \in [Owners -> SUBSET Objects]
    BY DEF LiveTypes
  <1>2. CASE e \in WatchEvent(k) /\ e.type = "Applied"
    <2>1. e.object \in Objects /\ e.app \in Owners /\ Touched(e) = {e.object}
      BY <1>2 DEF WatchEvent, ObjectsOf, Touched
    <2>2. /\ slots' = [slots EXCEPT ![e.app] = @ \cup {e.object}]
          /\ moved' = IF \E a \in Owners \ {e.app} : e.object \in slots[a]
                      THEN moved \cup {e.object} ELSE moved
          /\ wiped' = wiped \ {e.object} /\ lost' = lost
      BY <1>2 DEF UpsertOne
    <2>3. /\ slots' \in [Owners -> SUBSET Objects] /\ slots'[e.app] = slots[e.app] \cup {e.object}
          /\ \A a \in Owners \ {e.app} : slots'[a] = slots[a]
      BY <1>1, <2>1, <2>2
    <2>4. ASSUME NEW o \in Objects, NEW v \in Owners \cup {Absent}, Tells(e, o, v) PROVE Agrees(o, v)'
      <3>1. o = e.object /\ v = e.app
        BY <1>2, <2>1, <2>4 DEF Tells
      <3>2. \A a \in Owners \ {v} : o \in slots'[a] => o \in moved'
        BY <2>2, <2>3, <3>1
      <3> QED BY <2>3, <3>1, <3>2 DEF Agrees
    <2>5. ASSUME NEW o \in Objects, NEW v \in Owners \cup {Absent}, o \notin Touched(e), Agrees(o, v)
          PROVE  Agrees(o, v)'
      <3>1. o # e.object /\ moved \subseteq moved' /\ (o \in wiped => o \in wiped')
        BY <2>1, <2>2, <2>5
      <3>2. \A a \in Owners : o \in slots'[a] <=> o \in slots[a]
        BY <2>3, <3>1
      <3> QED BY <2>2, <2>5, <3>1, <3>2, LiveAssumption DEF Agrees
    <2> QED BY <2>3, <2>4, <2>5
  <1>3. CASE e \in WatchEvent(k) /\ e.type = "Deleted"
    <2>1. e.object \in Objects /\ e.app \in Owners /\ Touched(e) = {e.object}
      BY <1>3 DEF WatchEvent, ObjectsOf, Touched
    <2>2. slots' = [slots EXCEPT ![e.app] = @ \ {e.object}] /\ UNCHANGED <<moved, wiped, lost>>
      BY <1>3 DEF RemoveOne
    <2>3. /\ slots' \in [Owners -> SUBSET Objects] /\ slots'[e.app] = slots[e.app] \ {e.object}
          /\ \A a \in Owners \ {e.app} : slots'[a] = slots[a]
      BY <1>1, <2>1, <2>2
    <2>4. ASSUME NEW o \in Objects, NEW v \in Owners \cup {Absent}, Tells(e, o, v) PROVE Agrees(o, v)'
      <3>1. o = e.object /\ v = Absent /\ Agrees(o, e.app)
        BY <1>3, <2>1, <2>4 DEF Tells
      <3>2. CASE o \in lost
        BY <2>2, <3>2 DEF Agrees
      <3>3. CASE o \notin lost
        <4>1. \A a \in Owners \ {e.app} : o \in slots[a] => o \in moved
          BY <3>1, <3>3 DEF Agrees
        <4>2. \A a \in Owners : o \in slots'[a] => o \in moved'
          BY <2>2, <2>3, <3>1, <4>1
        <4> QED BY <3>1, <4>2 DEF Agrees
      <3> QED BY <3>2, <3>3
    <2>5. ASSUME NEW o \in Objects, NEW v \in Owners \cup {Absent}, o \notin Touched(e), Agrees(o, v)
          PROVE  Agrees(o, v)'
      <3>1. o # e.object /\ \A a \in Owners : o \in slots'[a] <=> o \in slots[a]
        BY <2>1, <2>3, <2>5
      <3> QED BY <2>2, <2>5, <3>1 DEF Agrees
    <2> QED BY <2>3, <2>4, <2>5
  <1>4. CASE e \in RestartEvent(k)
    <2>1. /\ e.type = "Restarted" /\ e.kind = k /\ e.list \in SUBSET ListItem(k)
          /\ Touched(e) = ObjectsOf(k)
      BY <1>4 DEF RestartEvent, Touched, ObjectsOf
    <2>2. /\ slots' = [a \in Owners |-> {m.object : m \in {m \in e.list : m.app = a}}]
          /\ moved' = {}
          /\ wiped' = {o \in wiped \cup Stored \cup lost : KindOf(o) # k}
          /\ lost' = {o \in lost : KindOf(o) # k}
      BY <2>1 DEF ReplaceAll
    <2>3. \A a \in Owners : \A o : o \in slots'[a] <=> \E m \in e.list : m.app = a /\ m.object = o
      BY <2>2
    <2>4. \A m \in e.list : m.object \in ObjectsOf(k) /\ m.app \in Owners
                            /\ m = [object |-> m.object, app |-> m.app]
      BY <2>1 DEF ListItem
    <2>5. slots' \in [Owners -> SUBSET Objects]
      <3>1. \A a \in Owners : slots'[a] \in SUBSET Objects
        BY <2>3, <2>4 DEF ObjectsOf
      <3> QED BY <2>2, <3>1
    <2>6. ASSUME NEW o \in Objects, NEW v \in Owners \cup {Absent}, Tells(e, o, v) PROVE Agrees(o, v)'
      <3>1. /\ \A m \in e.list : m.object = o => m.app = v
            /\ v # Absent => [object |-> o, app |-> v] \in e.list
        BY <2>1, <2>6 DEF Tells
      <3>2. v # Absent => o \in slots'[v]
        <4> SUFFICES ASSUME v # Absent PROVE o \in slots'[v]
          OBVIOUS
        <4>1. PICK m \in e.list : m = [object |-> o, app |-> v]
          BY <3>1
        <4>2. m.object = o /\ m.app = v /\ v \in Owners
          BY <4>1
        <4> QED BY <2>3, <4>2
      <3>3. \A a \in Owners \ {v} : o \notin slots'[a]
        BY <2>3, <3>1
      <3> QED BY <3>2, <3>3 DEF Agrees
    <2>7. ASSUME NEW o \in Objects, NEW v \in Owners \cup {Absent}, o \notin Touched(e), Agrees(o, v)
          PROVE  Agrees(o, v)'
      <3>1. KindOf(o) # k
        BY <2>1, <2>7 DEF ObjectsOf
      <3>2. \A a \in Owners : o \notin slots'[a]
        BY <2>1, <2>3, <2>4, <2>7
      <3>3. o \in lost => o \in lost'
        BY <2>2, <3>1
      <3>4. o \notin lost /\ v # Absent => o \in wiped'
        <4> SUFFICES ASSUME o \notin lost, v # Absent PROVE o \in wiped'
          OBVIOUS
        <4>1. v \in Owners /\ (o \in slots[v] \/ o \in wiped)
          BY <2>7 DEF Agrees
        <4>2. o \in wiped \cup Stored
          BY <4>1 DEF Stored
        <4> QED BY <2>2, <3>1, <4>2
      <3> QED BY <3>2, <3>3, <3>4 DEF Agrees
    <2> QED BY <2>5, <2>6, <2>7
  <1>5. e \in WatchEvent(k) \/ e \in RestartEvent(k)
    BY DEF Event
  <1>6. e \in WatchEvent(k) => e.type = "Applied" \/ e.type = "Deleted"
    BY DEF WatchEvent
  <1> QED BY <1>2, <1>3, <1>4, <1>5, <1>6

LEMMA HandleEventStep ==
  ASSUME LiveInv, NEW k \in Kinds, HandleEvent(k) PROVE LiveInv'
  <1>1. PICK c, e, m, f, s : /\ c = chan[k] /\ e = Head(c) /\ m = Relisted(k) /\ f = feed[k]
                             /\ s = Pending(k)
    OBVIOUS
  <1>2. /\ c # <<>> /\ chan' = [chan EXCEPT ![k] = Tail(c)]
        /\ UNCHANGED <<api, session, feed, subscribed>>
    BY <1>1 DEF HandleEvent, informerVars
  <1>3. /\ c \in Seq(Event(k)) /\ m \in Seq(Event(k)) /\ f \in Seq(Event(k)) /\ s \in Seq(Event(k))
        /\ Chained(s) /\ s = (c \o m) \o f
    BY <1>1, PendingTyped DEF LiveInv, Pending
  <1>4. /\ e \in Event(k) /\ Tail(c) \in Seq(Event(k)) /\ s # <<>> /\ s[1] = e
        /\ Tail(s) = (Tail(c) \o m) \o f
    <2>1. e \in Event(k) /\ Tail(c) \in Seq(Event(k))
      BY <1>1, <1>2, <1>3, HeadTailProperties
    <2>2. PICK d : d = c \o m /\ d \in Seq(Event(k))
      BY <1>3, ConcatProperties
    <2>3. Tail(c) \o m = Tail(d) /\ d[1] = Head(c) /\ d # <<>>
      BY <1>2, <1>3, <2>1, <2>2, PendingShapes
    <2>4. Tail(d) \o f = Tail(d \o f) /\ (d \o f)[1] = Head(d) /\ d \o f # <<>>
      BY <1>3, <2>1, <2>2, <2>3, PendingShapes
    <2>5. Head(d) = d[1]
      OBVIOUS
    <2> QED BY <1>1, <1>3, <2>1, <2>2, <2>3, <2>4, <2>5
  <1>5. /\ e.type = "Applied" => UpsertOne(e)
        /\ e.type = "Deleted" => RemoveOne(e)
        /\ e.type = "Restarted" => ReplaceAll(e)
    BY <1>1, Zenon DEF HandleEvent
  <1>6. e.type = "Deleted" => Agrees(e.object, e.app)
    <2> SUFFICES ASSUME e.type = "Deleted" PROVE Agrees(e.object, e.app)
      OBVIOUS
    <2>1. 1 \in 1 .. Len(s) /\ 1 - 1 = 0
      BY <1>3, <1>4
    <2>2. Says(s, 0, e.object, e.app)
      <3>1. s[1].type = "Deleted" => Says(s, 1 - 1, s[1].object, s[1].app)
        BY <1>3, <2>1 DEF Chained
      <3> QED BY <1>4, <2>1, <3>1
    <2> QED BY <2>2 DEF Says
  <1>7. /\ slots' \in [Owners -> SUBSET Objects]
        /\ \A o \in Objects, v \in Owners \cup {Absent} :
             /\ Tells(e, o, v) => Agrees(o, v)'
             /\ o \notin Touched(e) /\ Agrees(o, v) => Agrees(o, v)'
    BY <1>4, <1>5, <1>6, EventHandled DEF LiveInv
  <1>8. /\ chan'[k] = Tail(c) /\ chan' = [q \in Kinds |-> chan'[q]]
        /\ \A q \in Kinds \ {k} : chan'[q] = chan[q]
    <2>1. chan = [q \in Kinds |-> chan[q]]
      BY DEF LiveInv, LiveTypes
    <2> QED BY <1>2, <2>1
  <1>9. LiveTypes'
    <2>1. \A q \in Kinds : chan'[q] \in Seq(Event(q))
      BY <1>4, <1>8 DEF LiveInv, LiveTypes
    <2> QED BY <1>2, <1>7, <1>8, <2>1 DEF LiveInv, LiveTypes
  <1>10. ChannelsOwned'
    <2>1. k \in subscribed
      BY <1>1, <1>2 DEF LiveInv, ChannelsOwned
    <2> QED BY <1>2, <1>8, <2>1 DEF LiveInv, ChannelsOwned, Listed
  <1>11. PICK t : t = Tail(s)
    OBVIOUS
  <1>12. Pending(k)' = t
    <2>1. Relisted(k)' = m
      BY <1>1, <1>2 DEF Relisted, Restart
    <2> QED BY <1>1, <1>2, <1>4, <1>8, <1>11, <2>1 DEF Pending
  <1>13. Chained(t)' /\ \A o \in ObjectsOf(k), v \in Owners \cup {Absent} :
                          Says(s, Len(s), o, v) => Says(t, Len(t), o, v)'
    <2>1. \A o \in ObjectsOf(k), v \in Owners \cup {Absent} :
             /\ Tells(s[1], o, v) => Agrees(o, v)'
             /\ o \notin Touched(s[1]) /\ Agrees(o, v) => Agrees(o, v)'
      BY <1>4, <1>7 DEF ObjectsOf
    <2> QED BY <1>3, <1>4, <1>11, <2>1, ChainAdvances
  <1>14. Leads(k, t)'
    <2>1. Listed(k)' => Listed(k)
      BY <1>2 DEF Listed
    <2>2. \A o \in ObjectsOf(k) : api'[o] = api[o] /\ api[o] \in Owners \cup {Absent}
      BY <1>2 DEF LiveInv, LiveTypes, ObjectsOf
    <2>3. Leads(k, s)
      BY <1>1 DEF LiveInv
    <2> QED BY <1>13, <2>1, <2>2, <2>3 DEF Leads
  <1>15. Chained(Pending(k))' /\ Leads(k, Pending(k))'
    BY <1>12, <1>13, <1>14
  <1>16. \A q \in Kinds \ {k} : \A o \in ObjectsOf(q) : o \in Objects /\ o \notin Touched(e)
    BY <1>4 DEF Event, WatchEvent, RestartEvent, ObjectsOf, Touched
  <1>17. \A q \in Kinds \ {k} :
           /\ session'[q] = session[q] /\ feed'[q] = feed[q] /\ chan'[q] = chan[q]
           /\ \A o \in ObjectsOf(q) :
                /\ api'[o] = api[o]
                /\ \A v \in Owners \cup {Absent} : Agrees(o, v) => Agrees(o, v)'
    BY <1>2, <1>7, <1>8, <1>16
  <1> QED BY <1>9, <1>10, <1>15, <1>17, OneKindStep

LEMMA LiveStep == LiveInv /\ [LiveNext]_liveVars => LiveInv'
  <1> SUFFICES ASSUME LiveInv, [LiveNext]_liveVars PROVE LiveInv'
    OBVIOUS
  <1>0. subscribed \subseteq Kinds
    BY DEF LiveInv, LiveTypes
  <1>1. CASE \E o \in Objects, a \in Owners \cup {Absent} : Change(o, a)
    BY <1>1, ChangeStep
  <1>2. CASE GoesDown \/ ComesBack \/ Rotate \/ Reconnect \/ ReconnectFails
    BY <1>0, <1>2, ConnectionStep DEF GoesDown, ComesBack, Rotate, Reconnect, ReconnectFails,
       informerVars, storeVars
  <1>3. CASE Probe \/ ProbeTimesOut
    <2>1. \E t : Publish(t)
      BY <1>3 DEF Probe, ProbeTimesOut
    <2> QED BY <1>0, <2>1, ConnectionStep DEF Publish, storeVars
  <1>4. ASSUME NEW k \in Kinds,
               Supervise(k) \/ Session(k) \/ WatchBreaks(k) \/ RouterSubscribe(k) \/ HandleEvent(k)
        PROVE  LiveInv'
    <2>1. CASE Supervise(k)
      BY <2>1, SuperviseStep
    <2>2. CASE SessionClient(k) \/ SessionList(k) \/ SessionInitDone(k) \/ SessionForward(k)
      BY <2>2, SessionClientStep, SessionListStep, SessionInitDoneStep, SessionForwardStep
    <2>3. CASE ListFails(k) \/ WatchBreaks(k)
      BY <2>3, SessionEndsStep DEF ListFails, WatchBreaks
    <2>4. CASE RouterSubscribe(k)
      BY <1>0, <2>4, ConnectionStep DEF RouterSubscribe, informerVars, storeVars
    <2>5. CASE HandleEvent(k)
      BY <2>5, HandleEventStep
    <2> QED BY <1>4, <2>1, <2>2, <2>3, <2>4, <2>5 DEF Session
  <1>5. CASE UNCHANGED liveVars
    BY <1>0, <1>5, ConnectionStep DEF liveVars, informerVars, storeVars
  <1> QED BY <1>1, <1>2, <1>3, <1>4, <1>5 DEF LiveNext

\* Whatever the informers of a cluster have sent and not yet delivered leads the LiveStore to
\* the objects of the kinds that are watched (LiveStoreUpdater::handle_event).
THEOREM LiveInvariant == LiveSpec => []LiveInv
  BY LiveStart, LiveStep, PTL DEF LiveSpec

\* A kind that has settled is in the LiveStore as the cluster holds it, except for what
\* another kind's resync removed, what a former label left and what the channel lost.
THEOREM StoreFollowsCluster == LiveSpec => []StoreTracksCluster
  <1>1. LiveInv => StoreTracksCluster
    <2> SUFFICES ASSUME LiveInv, NEW o \in Objects, Settled(KindOf(o))
                 PROVE  /\ api[o] # Absent => o \in slots[api[o]] \/ o \in wiped \cup lost
                        /\ \A a \in Owners \ {api[o]} : o \in slots[a] => o \in moved \cup lost
      BY DEF StoreTracksCluster
    <2>1. PICK k : k = KindOf(o) /\ k \in Kinds /\ o \in ObjectsOf(k)
      BY DEF Objects, ObjectsOf, KindOf
    <2>2. Pending(k) = <<>>
      <3>1. chan[k] = <<>> /\ feed[k] = <<>> /\ Relisted(k) = <<>>
        BY <2>1 DEF Settled, Relisted
      <3> QED BY <3>1, ConcatEmptySeq DEF Pending
    <2>3. Says(<<>>, 0, o, api[o])
      <3>1. Listed(k)
        BY <2>1 DEF Settled, Listed
      <3>2. Leads(k, <<>>) /\ Len(<<>>) = 0
        BY <2>1, <2>2 DEF LiveInv
      <3> QED BY <2>1, <3>1, <3>2 DEF Leads
    <2>4. Agrees(o, api[o])
      BY <2>3 DEF Says
    <2> QED BY <2>4 DEF Agrees
  <1> QED BY <1>1, LiveInvariant, PTL
=============================================================================
