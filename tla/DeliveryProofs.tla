--------------------------- MODULE DeliveryProofs ---------------------------
(***************************************************************************)
(* Proofs about Delivery for every set of apps, every ring and pool size,  *)
(* and any number of commits, creations and faults: what the event bus and *)
(* the coalescing pool may lose, and what they may not.                    *)
(*                                                                         *)
(* Two chains of custody are followed.  A sync request goes from the render*)
(* call's announcement through the trigger's queue to a queued job         *)
(* (RequestsKept).  A moved head goes from the poller through the render   *)
(* loop's queue to a render call (RenderedOrComing); a call or an event    *)
(* that carries a former head is harmless because the current head is still*)
(* behind it in the queue (StaleCallFollowed, StaleEventFollowed).         *)
(***************************************************************************)
EXTENDS Delivery, TLAPS

Event ==
  {RepoChanged(h) : h \in Revision} \cup {AppChanged(a) : a \in Apps}
    \cup {ManualSyncRequested(a, by) : a \in Apps, by \in {"operator", "render"}}
    \cup {SyncOutcome(a, ok, rev) : a \in Apps, ok \in BOOLEAN, rev \in Revision \cup {None}}

Job ==
  [pc : {"idle", "queued", "plan", "done"}]
    \cup [pc : {"revision"}, change : BOOLEAN]
    \cup [pc : {"refetch"}, change : BOOLEAN, revision : Revision \cup {None}]
    \cup [pc : {"apply"}, change : BOOLEAN, revision : Revision \cup {None},
          manifests : Revision \cup {None}]

BusTypes ==
  /\ bus \in [Receivers -> Seq(Event)]
  /\ \A r \in Receivers : Len(bus[r]) <= BusCapacity
  /\ subscribed \in BOOLEAN
  /\ dropped \subseteq Receivers
DbTypes ==
  /\ apps \subseteq Apps /\ creating \subseteq Apps
  /\ row \in [Apps -> [sync : {"Unknown", "Synced", "SyncFailed"},
                       revision : Revision \cup {None}]]
RenderTypes ==
  /\ desired \in [Apps -> Revision \cup {None}]
  /\ rendering \in Call \cup {None}
  /\ unrendered \subseteq Apps
PoolTypes ==
  /\ run \in [Apps -> Job]
  /\ planned \in [Apps -> Revision \cup {None}]
  /\ forfeited \subseteq Apps
ClusterTypes ==
  /\ live \in [Apps -> Revision \cup {None}]
  /\ cluster \in [Apps -> Revision \cup {None}]
  /\ executor \in BOOLEAN
Types ==
  /\ origin \in Revision /\ bare \in Revision \cup {None}
  /\ BusTypes /\ DbTypes /\ RenderTypes /\ PoolTypes /\ ClusterTypes

\* An app is announced only by a call whose workspace is materialized.
AnnounceLast == rendering # None /\ ~rendering.ready => rendering.announce = None

\* Before the first clone there is nothing to render.
NothingCloned ==
  bare = None => /\ rendering = None
                 /\ \A a \in Apps : desired[a] = None
                 /\ \A i \in DOMAIN bus["render"] : bus["render"][i].type # "RepoChanged"

HeadPending == InSeq(RepoChanged(bare), bus["render"]) \/ "render" \in dropped
\* A call that renders a former head has the current one behind it in the queue,
StaleCallFollowed == rendering # None /\ rendering.head # bare => HeadPending
\* and so has an event that carries a former head.
StaleEventFollowed ==
  \/ "render" \in dropped
  \/ \A i \in DOMAIN bus["render"] : bus["render"][i].type = "RepoChanged" =>
       \E j \in DOMAIN bus["render"] : j >= i /\ bus["render"][j] = RepoChanged(bare)

RequestInv == AnnounceLast /\ RequestsKept
RenderInv == NothingCloned /\ StaleCallFollowed /\ StaleEventFollowed /\ RenderedOrComing
DeliveryInv == Types /\ RequestInv /\ RenderInv

-----------------------------------------------------------------------------
(* Sequences.                                                              *)
LEMMA AppendFacts ==
  ASSUME NEW S, NEW s \in Seq(S), NEW e \in S
  PROVE  /\ Append(s, e) \in Seq(S) /\ Len(Append(s, e)) = Len(s) + 1
         /\ Len(s) \in Nat /\ DOMAIN s = 1 .. Len(s)
         /\ DOMAIN Append(s, e) = 1 .. (Len(s) + 1)
         /\ \A i \in 1 .. Len(s) : Append(s, e)[i] = s[i]
         /\ Append(s, e)[Len(s) + 1] = e
  OBVIOUS

LEMMA TailFacts ==
  ASSUME NEW S, NEW s \in Seq(S), s # <<>>
  PROVE  /\ Head(s) \in S /\ Head(s) = s[1]
         /\ Tail(s) \in Seq(S) /\ Len(Tail(s)) = Len(s) - 1
         /\ Len(s) \in Nat \ {0} /\ DOMAIN s = 1 .. Len(s)
         /\ DOMAIN Tail(s) = 1 .. (Len(s) - 1)
         /\ \A i \in 1 .. (Len(s) - 1) : Tail(s)[i] = s[i + 1]
  OBVIOUS

LEMMA AppendIn ==
  ASSUME NEW S, NEW s \in Seq(S), NEW e \in S
  PROVE  \A f : InSeq(f, Append(s, e)) <=> InSeq(f, s) \/ f = e
  BY AppendFacts DEF InSeq

LEMMA TailIn ==
  ASSUME NEW S, NEW s \in Seq(S), s # <<>>
  PROVE  \A f : InSeq(f, s) => f = Head(s) \/ InSeq(f, Tail(s))
  <1> SUFFICES ASSUME NEW f, InSeq(f, s), f # Head(s) PROVE InSeq(f, Tail(s))
    OBVIOUS
  <1>1. PICK i \in DOMAIN s : s[i] = f
    BY DEF InSeq
  <1>2. i - 1 \in DOMAIN Tail(s) /\ Tail(s)[i - 1] = f
    BY <1>1, TailFacts
  <1> QED
    BY <1>2 DEF InSeq

(* The events.                                                             *)
LEMMA EventCases ==
  ASSUME NEW e \in Event
  PROVE  \/ \E h \in Revision : e = RepoChanged(h)
         \/ \E a \in Apps : e = AppChanged(a)
         \/ \E a \in Apps : \E by \in {"operator", "render"} : e = ManualSyncRequested(a, by)
         \/ \E a \in Apps : \E ok \in BOOLEAN : \E rev \in Revision \cup {None} :
              e = SyncOutcome(a, ok, rev)
  BY DEF Event

LEMMA EventTypes ==
  /\ \A h : RepoChanged(h).type = "RepoChanged" /\ RepoChanged(h).head = h
  /\ \A a : AppChanged(a).type = "AppChanged" /\ AppChanged(a).app = a
  /\ \A a, by : /\ ManualSyncRequested(a, by).type = "ManualSyncRequested"
                /\ ManualSyncRequested(a, by).app = a
  /\ \A a, ok, rev : /\ SyncOutcome(a, ok, rev).type = "SyncOutcome"
                     /\ SyncOutcome(a, ok, rev).app = a
                     /\ SyncOutcome(a, ok, rev).success = ok
                     /\ SyncOutcome(a, ok, rev).revision = rev
  BY DEF RepoChanged, AppChanged, ManualSyncRequested, SyncOutcome

-----------------------------------------------------------------------------
(* The event bus: what a publication does to a receiver's queue.           *)
LEMMA PublishQueue ==
  ASSUME BusTypes, NEW e \in Event, Publish(e), NEW r \in Receivers
  PROVE  \/ /\ e.type \notin ActsOn[r] \/ ~Listens(r)
            /\ bus'[r] = bus[r]
         \/ e.type \in ActsOn[r] /\ Len(bus[r]) < BusCapacity /\ bus'[r] = Append(bus[r], e)
         \/ /\ e.type \in ActsOn[r] /\ Full(r) /\ bus[r] # <<>>
            /\ bus'[r] = Append(Tail(bus[r]), e)
  <1>1. bus[r] \in Seq(Event) /\ Len(bus[r]) \in Nat /\ BusCapacity \in Nat \ {0}
    BY DeliveryAssumption DEF BusTypes
  <1>2. Full(r) => bus[r] # <<>>
    BY <1>1 DEF Full
  <1>3. ~Full(r) => Len(bus[r]) < BusCapacity
    BY <1>1 DEF Full, BusTypes
  <1>4. bus'[r] = IF e.type \notin ActsOn[r] \/ ~Listens(r) THEN bus[r]
                  ELSE Append(IF Full(r) THEN Tail(bus[r]) ELSE bus[r], e)
    BY DEF Publish
  <1> QED
    BY <1>2, <1>3, <1>4

LEMMA PublishDropped ==
  ASSUME NEW e, Publish(e), NEW r \in Receivers \ {"status"}
  PROVE  /\ dropped \subseteq dropped'
         /\ e.type \in ActsOn[r] /\ (~Listens(r) \/ Full(r)) => r \in dropped'
         /\ e.type \notin ActsOn[r] => (r \in dropped' <=> r \in dropped)
  BY DEF Publish

LEMMA PublishTypes ==
  ASSUME BusTypes, NEW e \in Event, Publish(e)
  PROVE  BusTypes'
  <1>1. bus' = [r \in Receivers |-> bus'[r]]
    BY DEF Publish
  <1>2. ASSUME NEW r \in Receivers
        PROVE  bus'[r] \in Seq(Event) /\ Len(bus'[r]) <= BusCapacity
    <2>1. bus[r] \in Seq(Event) /\ Len(bus[r]) \in Nat /\ BusCapacity \in Nat
          /\ Len(bus[r]) <= BusCapacity
      BY DeliveryAssumption DEF BusTypes
    <2>2. CASE bus'[r] = bus[r]
      BY <2>1, <2>2
    <2>3. CASE Len(bus[r]) < BusCapacity /\ bus'[r] = Append(bus[r], e)
      BY <2>1, <2>3, AppendFacts
    <2>4. CASE bus[r] # <<>> /\ bus'[r] = Append(Tail(bus[r]), e)
      <3>1. Tail(bus[r]) \in Seq(Event) /\ Len(Tail(bus[r])) = Len(bus[r]) - 1
        BY <2>1, <2>4, TailFacts
      <3> QED
        BY <2>1, <2>4, <3>1, AppendFacts
    <2> QED
      BY <2>2, <2>3, <2>4, PublishQueue
  <1>3. subscribed' \in BOOLEAN /\ dropped' \subseteq Receivers
    BY DEF Publish, BusTypes
  <1> QED
    BY <1>1, <1>2, <1>3 DEF BusTypes

(* Nothing leaves a queue by a publication, and what the receiver acts on  *)
(* enters it, unless the receiver is marked as having missed something.    *)
LEMMA PublishKeeps ==
  ASSUME BusTypes, NEW e \in Event, Publish(e), NEW r \in Receivers \ {"status"}
  PROVE  \/ r \in dropped'
         \/ /\ \A f : InSeq(f, bus[r]) => InSeq(f, bus'[r])
            /\ e.type \in ActsOn[r] => InSeq(e, bus'[r])
  <1>1. bus[r] \in Seq(Event)
    BY DEF BusTypes
  <1>2. CASE e.type \in ActsOn[r] /\ bus'[r] = Append(bus[r], e)
    BY <1>1, <1>2, AppendIn
  <1> QED
    BY <1>2, PublishQueue, PublishDropped

(* Taking the first event off a queue.                                     *)
LEMMA TakeTypes ==
  ASSUME BusTypes, NEW r \in Receivers, bus[r] # <<>>, bus' = [bus EXCEPT ![r] = Tail(@)]
  PROVE  /\ bus' \in [Receivers -> Seq(Event)]
         /\ \A s \in Receivers : Len(bus'[s]) <= BusCapacity
         /\ bus'[r] = Tail(bus[r]) /\ Head(bus[r]) \in Event
         /\ \A s \in Receivers \ {r} : bus'[s] = bus[s]
         /\ \A f : InSeq(f, bus[r]) => f = Head(bus[r]) \/ InSeq(f, bus'[r])
  <1>1. bus[r] \in Seq(Event) /\ bus'[r] = Tail(bus[r])
    BY DEF BusTypes
  <1>2. \A s \in Receivers \ {r} : bus'[s] = bus[s]
    BY DEF BusTypes
  <1>3. /\ Tail(bus[r]) \in Seq(Event) /\ Head(bus[r]) \in Event
        /\ Len(bus[r]) \in Nat /\ Len(Tail(bus[r])) = Len(bus[r]) - 1
    BY <1>1, TailFacts
  <1>4. BusCapacity \in Nat /\ \A s \in Receivers : Len(bus[s]) <= BusCapacity
    BY DeliveryAssumption DEF BusTypes
  <1>5. bus' \in [Receivers -> Seq(Event)]
    BY <1>3 DEF BusTypes
  <1>6. \A s \in Receivers : Len(bus'[s]) <= BusCapacity
    BY <1>1, <1>2, <1>3, <1>4
  <1> QED
    BY <1>1, <1>2, <1>3, <1>5, <1>6, TailIn
-----------------------------------------------------------------------------
(* Types.                                                                  *)
LEMMA EmptyQueues ==
  ASSUME NEW q, q = [r \in Receivers |-> <<>>]
  PROVE  /\ q \in [Receivers -> Seq(Event)]
         /\ \A r \in Receivers : q[r] = <<>> /\ Len(q[r]) <= BusCapacity
  <1>1. <<>> \in Seq(Event) /\ Len(<<>>) = 0
    OBVIOUS
  <1>2. 0 <= BusCapacity
    BY DeliveryAssumption
  <1>3. \A r \in Receivers : q[r] = <<>>
    OBVIOUS
  <1>4. \A r \in Receivers : Len(q[r]) <= BusCapacity
    BY <1>1, <1>2, <1>3
  <1> QED
    BY <1>1, <1>3, <1>4

LEMMA InitTypes == Init => Types
  <1> SUFFICES ASSUME Init PROVE Types
    OBVIOUS
  <1>1. 0 \in Revision
    BY DeliveryAssumption DEF Revision
  <1>2. BusTypes
    BY EmptyQueues DEF Init, BusTypes
  <1>3. DbTypes
    BY DEF Init, DbTypes, NewRow
  <1>4. RenderTypes /\ ClusterTypes
    BY DEF Init, RenderTypes, ClusterTypes
  <1>5. PoolTypes
    BY DEF Init, PoolTypes, Idle, Job
  <1> QED
    BY <1>1, <1>2, <1>3, <1>4, <1>5 DEF Init, Types

LEMMA TypesUnmoved ==
  /\ BusTypes /\ UNCHANGED busVars => BusTypes'
  /\ DbTypes /\ UNCHANGED dbVars => DbTypes'
  /\ RenderTypes /\ UNCHANGED renderVars => RenderTypes'
  /\ PoolTypes /\ UNCHANGED poolVars => PoolTypes'
  /\ ClusterTypes /\ UNCHANGED clusterVars => ClusterTypes'
  /\ origin \in Revision /\ bare \in Revision \cup {None} /\ UNCHANGED gitVars
       => origin' \in Revision /\ bare' \in Revision \cup {None}
  BY DEF BusTypes, busVars, DbTypes, dbVars, RenderTypes, renderVars, PoolTypes, poolVars,
         ClusterTypes, clusterVars, gitVars

LEMMA EventMembers ==
  /\ \A h \in Revision : RepoChanged(h) \in Event
  /\ \A a \in Apps : AppChanged(a) \in Event
  /\ \A a \in Apps : ManualSyncRequested(a, "operator") \in Event
  /\ \A a \in Apps : ManualSyncRequested(a, "render") \in Event
  /\ \A a \in Apps : \A ok \in BOOLEAN : \A rev \in Revision \cup {None} :
       SyncOutcome(a, ok, rev) \in Event
  BY DEF Event

(* What a job carries in each of its states.                               *)
LEMMA JobFields ==
  ASSUME NEW j \in Job
  PROVE  /\ j.pc \in {"idle", "queued", "plan", "revision", "refetch", "apply", "done"}
         /\ j.pc \in {"revision", "refetch", "apply"} => j.change \in BOOLEAN
         /\ j.pc \in {"refetch", "apply"} => j.revision \in Revision \cup {None}
         /\ j.pc = "apply" => j.manifests \in Revision \cup {None}
  BY DEF Job

(* A call in progress, and what a step of it leaves.                       *)
LEMMA CallFields ==
  ASSUME RenderTypes, rendering # None
  PROVE  /\ rendering \in Call
         /\ rendering.head \in Revision /\ rendering.todo \subseteq Apps
         /\ rendering.ready \in BOOLEAN /\ rendering.announce \in Apps \cup {None}
         /\ \A T \in SUBSET Apps : \A n \in Apps \cup {None} : \A b \in BOOLEAN :
              [rendering EXCEPT !.todo = T, !.announce = n] \in Call
                /\ [rendering EXCEPT !.todo = T] \in Call
                /\ [rendering EXCEPT !.announce = n] \in Call
                /\ [rendering EXCEPT !.ready = b] \in Call
  BY DEF RenderTypes, Call

(* One step of the git and database parts.                                 *)
LEMMA OuterTypes ==
  ASSUME Types,
         \/ Push \/ Clone \/ Fetch \/ Subscribe \/ StatusReceive \/ Restart
         \/ \E r \in Receivers : Lag(r)
         \/ \E a \in Apps : \/ CreateApp(a) \/ CreateAppPublish(a) \/ DeleteApp(a)
                            \/ SyncApp(a) \/ RollbackApp(a) \/ Inform(a) \/ Drift(a)
         \/ UNCHANGED vars
  PROVE  Types'
  <1>1. /\ origin \in Revision /\ bare \in Revision \cup {None}
        /\ BusTypes /\ DbTypes /\ RenderTypes /\ PoolTypes /\ ClusterTypes
    BY DEF Types
  <1>2. CASE Push
    <2>1. origin' \in Revision
      BY <1>1, <1>2, DeliveryAssumption DEF Push, Revision
    <2> QED
      BY <1>1, <1>2, <2>1, TypesUnmoved DEF Types, Push
  <1>3. CASE Clone
    BY <1>1, <1>3, TypesUnmoved DEF Types, Clone
  <1>4. CASE Fetch
    <2>1. BusTypes'
      BY <1>1, <1>4, EventMembers, PublishTypes, TypesUnmoved DEF Fetch
    <2> QED
      BY <1>1, <1>4, <2>1, TypesUnmoved DEF Types, Fetch
  <1>5. CASE Subscribe
    <2>1. BusTypes'
      BY <1>1, <1>5 DEF Subscribe, BusTypes
    <2> QED
      BY <1>1, <1>5, <2>1, TypesUnmoved DEF Types, Subscribe
  <1>6. CASE StatusReceive
    <2> DEFINE e == Head(bus["status"])
    <2>1. "status" \in Receivers /\ bus["status"] # <<>>
          /\ bus' = [bus EXCEPT !["status"] = Tail(@)] /\ UNCHANGED <<subscribed, dropped>>
      BY <1>6 DEF StatusReceive, Receive, Receivers
    <2>2. BusTypes' /\ e \in Event
      BY <1>1, <2>1, TakeTypes DEF BusTypes
    <2> HIDE DEF e
    <2>3. e.type = "SyncOutcome" => e.revision \in Revision \cup {None}
      BY <2>2, EventCases, EventTypes
    <2>4. row' = IF e.type = "SyncOutcome" /\ e.app \in apps
                 THEN [row EXCEPT ![e.app] =
                        [sync |-> IF e.success THEN "Synced" ELSE "SyncFailed",
                         revision |-> Coalesce(e.revision, @.revision)]]
                 ELSE row
      BY <1>6 DEF StatusReceive, NextEvent, e
    <2>5. row' \in [Apps -> [sync : {"Unknown", "Synced", "SyncFailed"},
                             revision : Revision \cup {None}]]
      <3>1. CASE e.type = "SyncOutcome" /\ e.app \in apps
        <4>1. e.app \in Apps /\ row[e.app].revision \in Revision \cup {None}
          BY <1>1, <3>1 DEF DbTypes
        <4>2. Coalesce(e.revision, row[e.app].revision) \in Revision \cup {None}
          BY <2>3, <3>1, <4>1 DEF Coalesce
        <4> QED
          BY <1>1, <2>4, <3>1, <4>1, <4>2 DEF DbTypes
      <3> QED
        BY <1>1, <2>4, <3>1 DEF DbTypes
    <2>6. DbTypes'
      BY <1>1, <1>6, <2>5 DEF DbTypes, StatusReceive
    <2> QED
      BY <1>1, <1>6, <2>2, <2>6, TypesUnmoved DEF Types, StatusReceive
  <1>7. CASE Restart
    <2>1. BusTypes'
      BY <1>7, EmptyQueues DEF Restart, BusTypes
    <2>2. DbTypes' /\ RenderTypes' /\ ClusterTypes'
      BY <1>1, <1>7 DEF Restart, DbTypes, RenderTypes, ClusterTypes
    <2>3. PoolTypes'
      BY <1>7 DEF Restart, PoolTypes, Idle, Job
    <2> QED
      BY <1>1, <1>7, <2>1, <2>2, <2>3 DEF Types, Restart
  <1>8. CASE \E r \in Receivers : Lag(r)
    <2>1. PICK r \in Receivers : Lag(r)
      BY <1>8
    <2>2. BusTypes'
      BY <1>1, <2>1, TakeTypes DEF Lag, BusTypes
    <2> QED
      BY <1>1, <2>1, <2>2, TypesUnmoved DEF Types, Lag
  <1>9. ASSUME NEW a \in Apps, CreateApp(a) PROVE Types'
    <2>1. DbTypes'
      BY <1>1, <1>9 DEF CreateApp, DbTypes, NewRow
    <2> QED
      BY <1>1, <1>9, <2>1, TypesUnmoved DEF Types, CreateApp
  <1>10. ASSUME NEW a \in Apps, CreateAppPublish(a) PROVE Types'
    <2>1. BusTypes'
      BY <1>1, <1>10, EventMembers, PublishTypes DEF CreateAppPublish
    <2>2. DbTypes'
      BY <1>1, <1>10 DEF CreateAppPublish, DbTypes
    <2> QED
      BY <1>1, <1>10, <2>1, <2>2, TypesUnmoved DEF Types, CreateAppPublish
  <1>11. ASSUME NEW a \in Apps, DeleteApp(a) PROVE Types'
    <2>1. DbTypes'
      BY <1>1, <1>11 DEF DeleteApp, DbTypes, NewRow
    <2> QED
      BY <1>1, <1>11, <2>1, TypesUnmoved DEF Types, DeleteApp
  <1>12. ASSUME NEW a \in Apps, SyncApp(a) PROVE Types'
    <2>1. BusTypes'
      BY <1>1, <1>12, EventMembers, PublishTypes DEF SyncApp
    <2> QED
      BY <1>1, <1>12, <2>1, TypesUnmoved DEF Types, SyncApp
  <1>13. ASSUME NEW a \in Apps, Inform(a) \/ Drift(a) PROVE Types'
    <2>1. ClusterTypes'
      BY <1>1, <1>13 DEF Inform, Drift, ClusterTypes
    <2> QED
      BY <1>1, <1>13, <2>1, TypesUnmoved DEF Types, Inform, Drift
  <1>14. CASE UNCHANGED vars
    BY <1>1, <1>14, TypesUnmoved DEF Types, vars
  <1> QED
    BY <1>2, <1>3, <1>4, <1>5, <1>6, <1>7, <1>8, <1>9, <1>10, <1>11, <1>12, <1>13, <1>14
       DEF RollbackApp

(* One step of the render loop.                                            *)
LEMMA RenderLoopTypes ==
  ASSUME Types,
         \/ RenderReceive \/ Materialize \/ MaterializeFails \/ RenderAnnounce
         \/ \E a \in Apps : RenderOk(a) \/ RenderFails(a)
  PROVE  Types'
  <1>1. /\ origin \in Revision /\ bare \in Revision \cup {None}
        /\ BusTypes /\ DbTypes /\ RenderTypes /\ PoolTypes /\ ClusterTypes
    BY DEF Types
  <1>2. CASE RenderReceive
    <2> DEFINE e == Head(bus["render"])
    <2>1. "render" \in Receivers /\ bus["render"] # <<>>
          /\ bus' = [bus EXCEPT !["render"] = Tail(@)] /\ UNCHANGED <<subscribed, dropped>>
      BY <1>2 DEF RenderReceive, Receive, Receivers
    <2>2. BusTypes' /\ e \in Event
      BY <1>1, <2>1, TakeTypes DEF BusTypes
    <2> HIDE DEF e
    <2>3. RenderHead(e) \in Revision \cup {None}
      BY <1>1, <2>2, EventCases, EventTypes DEF RenderHead
    <2>4. rendering' = IF RenderHead(e) = None \/ apps = {} THEN None
                       ELSE [head |-> RenderHead(e), todo |-> apps, ready |-> FALSE,
                             announce |-> None]
      BY <1>2 DEF RenderReceive, NextEvent, e
    <2>5. RenderTypes'
      BY <1>1, <1>2, <2>3, <2>4 DEF RenderReceive, RenderTypes, DbTypes, Call
    <2> QED
      BY <1>1, <1>2, <2>2, <2>5, TypesUnmoved DEF Types, RenderReceive
  <1>3. CASE Materialize
    <2>1. RenderTypes'
      BY <1>1, <1>3, CallFields DEF Materialize, RenderTypes
    <2> QED
      BY <1>1, <1>3, <2>1, TypesUnmoved DEF Types, Materialize
  <1>4. CASE MaterializeFails
    <2>1. RenderTypes'
      BY <1>1, <1>4, CallFields DEF MaterializeFails, RenderTypes
    <2> QED
      BY <1>1, <1>4, <2>1, TypesUnmoved DEF Types, MaterializeFails
  <1>5. CASE RenderAnnounce
    <2>1. rendering \in Call /\ rendering.announce \in Apps
      BY <1>1, <1>5, CallFields DEF RenderAnnounce
    <2>2. BusTypes'
      BY <1>1, <1>5, <2>1, EventMembers, PublishTypes DEF RenderAnnounce
    <2>3. [rendering EXCEPT !.announce = None] \in Call
      BY <1>1, <1>5, CallFields DEF RenderAnnounce
    <2>4. RenderTypes'
      BY <1>1, <1>5, <2>3 DEF RenderAnnounce, RenderTypes, Step
    <2> QED
      BY <1>1, <1>5, <2>2, <2>4, TypesUnmoved DEF Types, RenderAnnounce
  <1>6. ASSUME NEW a \in Apps, RenderOk(a) PROVE Types'
    <2>1. rendering # None
      BY <1>6 DEF RenderOk, RenderBusy
    <2>2. /\ [rendering EXCEPT !.todo = rendering.todo \ {a}, !.announce = a] \in Call
          /\ rendering.head \in Revision
      BY <1>1, <2>1, CallFields
    <2>3. RenderTypes'
      BY <1>1, <1>6, <2>2 DEF RenderOk, RenderTypes, StorePut
    <2> QED
      BY <1>1, <1>6, <2>3, TypesUnmoved DEF Types, RenderOk
  <1>7. ASSUME NEW a \in Apps, RenderFails(a) PROVE Types'
    <2>1. rendering # None
      BY <1>7 DEF RenderFails, RenderBusy
    <2>2. [rendering EXCEPT !.todo = rendering.todo \ {a}] \in Call /\ rendering.head \in Revision
      BY <1>1, <2>1, CallFields
    <2>3. RenderTypes'
      BY <1>1, <1>7, <2>2 DEF RenderFails, RenderTypes, Step
    <2>4. BusTypes'
      BY <1>1, <1>7, <2>2, EventMembers, PublishTypes DEF RenderFails
    <2> QED
      BY <1>1, <1>7, <2>3, <2>4, TypesUnmoved DEF Types, RenderFails
  <1> QED
    BY <1>2, <1>3, <1>4, <1>5, <1>6, <1>7

(* One step of the trigger, the scheduler and the pool.                    *)
LEMMA PoolStepTypes ==
  ASSUME Types,
         \/ TriggerReceive \/ ResolverFails
         \/ \E a \in Apps : \/ Heal(a) \/ Dispatch(a) \/ DispatchFails(a) \/ PlanOnly(a)
                            \/ ReadRevision(a) \/ NoExecutor(a) \/ Refetch(a) \/ ExecuteWaves(a) \/ ExecuteFails(a) \/ Complete(a)
  PROVE  Types'
  <1>1. /\ origin \in Revision /\ bare \in Revision \cup {None}
        /\ BusTypes /\ DbTypes /\ RenderTypes /\ PoolTypes /\ ClusterTypes
    BY DEF Types
  <1>2. [pc |-> "queued"] \in Job /\ [pc |-> "plan"] \in Job /\ [pc |-> "done"] \in Job
        /\ Idle \in Job
    BY DEF Job, Idle
  <1>3. \A S : EnqueueCoalesce(S) \in [Apps -> Job]
    BY <1>1, <1>2 DEF EnqueueCoalesce, PoolTypes
  <1>4. CASE TriggerReceive
    <2>1. "trigger" \in Receivers /\ bus["trigger"] # <<>>
          /\ bus' = [bus EXCEPT !["trigger"] = Tail(@)] /\ UNCHANGED <<subscribed, dropped>>
      BY <1>4 DEF TriggerReceive, Receive, Receivers
    <2>2. BusTypes'
      BY <1>1, <2>1, TakeTypes DEF BusTypes
    <2>3. PoolTypes'
      BY <1>1, <1>3, <1>4 DEF TriggerReceive, PoolTypes, Planned
    <2> QED
      BY <1>1, <1>4, <2>2, <2>3, TypesUnmoved DEF Types, TriggerReceive
  <1>5. CASE ResolverFails
    <2>1. "trigger" \in Receivers /\ bus["trigger"] # <<>>
          /\ bus' = [bus EXCEPT !["trigger"] = Tail(@)] /\ UNCHANGED <<subscribed, dropped>>
      BY <1>5 DEF ResolverFails, Receive, Receivers
    <2>2. BusTypes'
      BY <1>1, <2>1, TakeTypes DEF BusTypes
    <2> QED
      BY <1>1, <1>5, <2>2, TypesUnmoved DEF Types, ResolverFails
  <1>6. ASSUME NEW a \in Apps, Heal(a) PROVE Types'
    <2>1. PoolTypes'
      BY <1>1, <1>3, <1>6 DEF Heal, PoolTypes
    <2> QED
      BY <1>1, <1>6, <2>1, TypesUnmoved DEF Types, Heal
  <1>7. ASSUME NEW a \in Apps, Dispatch(a) \/ DispatchFails(a) \/ Complete(a) PROVE Types'
    <2>1. PoolTypes'
      BY <1>1, <1>2, <1>7 DEF Dispatch, DispatchFails, Complete, PoolTypes
    <2> QED
      BY <1>1, <1>7, <2>1, TypesUnmoved DEF Types, Dispatch, DispatchFails, Complete
  <1>8. ASSUME NEW a \in Apps, PlanOnly(a) PROVE Types'
    <2>1. BusTypes'
      BY <1>1, <1>8, EventMembers, PublishTypes, TypesUnmoved DEF PlanOnly
    <2>2. [pc |-> "revision", change |-> desired[a] # live[a]] \in Job
      BY DEF Job
    <2>3. desired[a] \in Revision \cup {None}
      BY <1>1 DEF RenderTypes
    <2>4. PoolTypes'
      BY <1>1, <1>2, <1>8, <2>2, <2>3 DEF PlanOnly, PoolTypes
    <2> QED
      BY <1>1, <1>8, <2>1, <2>4, TypesUnmoved DEF Types, PlanOnly
  <1>9. ASSUME NEW a \in Apps, ReadRevision(a) \/ Refetch(a) PROVE Types'
    <2>1. run[a] \in Job /\ desired[a] \in Revision \cup {None}
      BY <1>1 DEF PoolTypes, RenderTypes
    <2>2. CASE ReadRevision(a)
      <3>1. [pc |-> "refetch", change |-> run[a].change, revision |-> desired[a]] \in Job
        BY <2>1, <2>2, JobFields DEF Job, ReadRevision
      <3>2. PoolTypes'
        BY <1>1, <2>2, <3>1 DEF ReadRevision, PoolTypes
      <3> QED
        BY <1>1, <2>2, <3>2, TypesUnmoved DEF Types, ReadRevision
    <2>3. CASE Refetch(a)
      <3>1. [pc |-> "apply", change |-> run[a].change, revision |-> run[a].revision,
             manifests |-> desired[a]] \in Job
        BY <2>1, <2>3, JobFields DEF Job, Refetch
      <3>2. PoolTypes'
        BY <1>1, <2>3, <3>1 DEF Refetch, PoolTypes
      <3> QED
        BY <1>1, <2>3, <3>2, TypesUnmoved DEF Types, Refetch
    <2> QED
      BY <1>9, <2>2, <2>3
  <1>10. ASSUME NEW a \in Apps, NoExecutor(a) PROVE Types'
    <2>1. run[a].revision \in Revision \cup {None}
      BY <1>1, <1>10, JobFields DEF NoExecutor, PoolTypes
    <2>2. BusTypes'
      BY <1>1, <1>10, <2>1, EventMembers, PublishTypes DEF NoExecutor
    <2>3. PoolTypes'
      BY <1>1, <1>2, <1>10 DEF NoExecutor, PoolTypes
    <2> QED
      BY <1>1, <1>10, <2>2, <2>3, TypesUnmoved DEF Types, NoExecutor
  <1>11. ASSUME NEW a \in Apps, ExecuteWaves(a) \/ ExecuteFails(a) PROVE Types'
    <2>1. run[a].pc = "apply" /\ run[a] \in Job
      BY <1>1, <1>11 DEF ExecuteWaves, ExecuteFails, PoolTypes
    <2>2. run[a].revision \in Revision \cup {None} /\ run[a].manifests \in Revision \cup {None}
      BY <2>1, JobFields
    <2>3. BusTypes'
      BY <1>1, <1>11, <2>2, EventMembers, PublishTypes DEF ExecuteWaves, ExecuteFails
    <2>4. PoolTypes'
      BY <1>1, <1>2, <1>11 DEF ExecuteWaves, ExecuteFails, PoolTypes
    <2>5. ClusterTypes'
      <3>1. CASE ExecuteWaves(a)
        BY <1>1, <2>2, <3>1 DEF ExecuteWaves, Applied, ClusterTypes
      <3>2. CASE ExecuteFails(a)
        BY <1>1, <3>2, TypesUnmoved DEF ExecuteFails
      <3> QED
        BY <1>11, <3>1, <3>2
    <2> QED
      BY <1>1, <1>11, <2>3, <2>4, <2>5, TypesUnmoved DEF Types, ExecuteWaves, ExecuteFails
  <1> QED
    BY <1>4, <1>6, <1>7, <1>8, <1>9, <1>11, <1>5, <1>10

LEMMA NextTypes ==
  ASSUME Types, [Next]_vars
  PROVE  Types'
  BY OuterTypes, RenderLoopTypes, PoolStepTypes DEF Next
-----------------------------------------------------------------------------
(* The first chain: sync requests.                                         *)

(* A step that takes nothing from the chain.                               *)
LEMMA RequestsUnmoved ==
  ASSUME RequestsKept, UNCHANGED <<desired, planned>>,
         forfeited \subseteq forfeited', dropped \subseteq dropped',
         \/ "trigger" \in dropped'
         \/ \A f : InSeq(f, bus["trigger"]) => InSeq(f, bus'["trigger"]),
         \A a \in Apps : rendering # None /\ rendering.announce = a
                           => rendering' # None /\ rendering'.announce = a,
         \A a \in Apps : run[a].pc \in {"queued", "plan"}
                           => run'[a].pc \in {"queued", "plan"} \/ a \in forfeited'
  PROVE  RequestsKept'
  <1> SUFFICES ASSUME NEW a \in Apps, desired'[a] # None, desired'[a] # planned'[a]
               PROVE  \/ rendering' # None /\ rendering'.announce = a
                      \/ InSeq(ManualSyncRequested(a, "render"), bus'["trigger"])
                      \/ run'[a].pc \in {"queued", "plan"}
                      \/ a \in forfeited'
                      \/ "trigger" \in dropped'
    BY DEF RequestsKept, InSeq, ManualSyncRequested
  <1>1. \/ rendering # None /\ rendering.announce = a
        \/ InSeq(ManualSyncRequested(a, "render"), bus["trigger"])
        \/ run[a].pc \in {"queued", "plan"}
        \/ a \in forfeited
        \/ "trigger" \in dropped
    BY DEF RequestsKept
  <1> QED
    BY <1>1

(* The queues keep what is in them when an event is published, when another*)
(* receiver takes one, or when nothing happens.                            *)
LEMMA BusKeeps ==
  ASSUME BusTypes, NEW r \in {"render", "trigger"},
         \/ UNCHANGED <<bus, dropped>>
         \/ \E e \in Event : Publish(e)
         \/ \E s \in Receivers \ {r} : Receive(s)
  PROVE  /\ dropped \subseteq dropped'
         /\ \/ r \in dropped'
            \/ \A f : InSeq(f, bus[r]) => InSeq(f, bus'[r])
  <1>1. r \in Receivers \ {"status"}
    BY DEF Receivers
  <1>2. CASE UNCHANGED <<bus, dropped>>
    BY <1>2 DEF InSeq
  <1>3. CASE \E e \in Event : Publish(e)
    BY <1>1, <1>3, PublishKeeps, PublishDropped
  <1>4. ASSUME NEW s \in Receivers \ {r}, Receive(s)
        PROVE  bus'[r] = bus[r] /\ dropped' = dropped
    BY <1>1, <1>4 DEF Receive, BusTypes
  <1> QED
    BY <1>2, <1>3, <1>4

(* Every step publishes at most one event of Event, or takes one.          *)
LEMMA BusSteps ==
  ASSUME Types
  PROVE  /\ Fetch => UNCHANGED <<bus, dropped>> \/ \E e \in Event : Publish(e)
         /\ RenderAnnounce => \E e \in Event : Publish(e)
         /\ \A a \in Apps :
              /\ CreateAppPublish(a) \/ SyncApp(a) \/ RollbackApp(a) \/ RenderFails(a)
                   \/ NoExecutor(a) \/ ExecuteWaves(a) \/ ExecuteFails(a)
                   => \E e \in Event : Publish(e)
              /\ PlanOnly(a) => UNCHANGED <<bus, dropped>> \/ \E e \in Event : Publish(e)
  <1>1. /\ origin \in Revision /\ RenderTypes /\ PoolTypes
    BY DEF Types
  <1>2. Fetch => UNCHANGED <<bus, dropped>> \/ \E e \in Event : Publish(e)
    BY <1>1, EventMembers DEF Fetch, busVars
  <1>3. RenderAnnounce => \E e \in Event : Publish(e)
    <2> SUFFICES ASSUME RenderAnnounce PROVE \E e \in Event : Publish(e)
      OBVIOUS
    <2>1. rendering.announce \in Apps
      BY <1>1, CallFields DEF RenderAnnounce
    <2> QED
      BY <2>1, EventMembers DEF RenderAnnounce
  <1>4. ASSUME NEW a \in Apps, CreateAppPublish(a) \/ SyncApp(a) \/ RollbackApp(a)
        PROVE  \E e \in Event : Publish(e)
    BY <1>4, EventMembers DEF CreateAppPublish, SyncApp, RollbackApp
  <1>5. ASSUME NEW a \in Apps, RenderFails(a)
        PROVE  \E e \in Event : Publish(e)
    <2>1. rendering.head \in Revision
      BY <1>1, <1>5, CallFields DEF RenderFails, RenderBusy
    <2> QED
      BY <1>5, <2>1, EventMembers DEF RenderFails
  <1>6. ASSUME NEW a \in Apps, NoExecutor(a) \/ ExecuteWaves(a) \/ ExecuteFails(a)
        PROVE  \E e \in Event : Publish(e)
    <2>1. run[a].revision \in Revision \cup {None}
      BY <1>1, <1>6, JobFields DEF NoExecutor, ExecuteWaves, ExecuteFails, PoolTypes
    <2> QED
      BY <1>6, <2>1, EventMembers DEF NoExecutor, ExecuteWaves, ExecuteFails
  <1>7. ASSUME NEW a \in Apps, PlanOnly(a)
        PROVE  UNCHANGED <<bus, dropped>> \/ \E e \in Event : Publish(e)
    BY <1>7, EventMembers DEF PlanOnly, busVars
  <1> QED
    BY <1>2, <1>3, <1>4, <1>5, <1>6, <1>7

LEMMA RequestInit == Init => RequestInv
  BY DEF Init, RequestInv, AnnounceLast, RequestsKept

LEMMA OuterRequests ==
  ASSUME Types, RequestInv,
         \/ Push \/ Clone \/ Fetch \/ Subscribe \/ StatusReceive
         \/ \E r \in Receivers : Lag(r)
         \/ \E a \in Apps : \/ CreateApp(a) \/ CreateAppPublish(a) \/ DeleteApp(a)
                            \/ SyncApp(a) \/ RollbackApp(a) \/ Inform(a) \/ Drift(a)
         \/ UNCHANGED vars
  PROVE  RequestInv'
  <1>1. RequestsKept /\ AnnounceLast /\ BusTypes
    BY DEF RequestInv, Types
  <1>2. UNCHANGED <<renderVars, poolVars>>
    BY DEF Push, Clone, Fetch, Subscribe, StatusReceive, Lag, CreateApp, CreateAppPublish,
           DeleteApp, SyncApp, RollbackApp, Inform, Drift, vars
  <1>3. UNCHANGED <<desired, planned, rendering, run, forfeited>>
    BY <1>2 DEF renderVars, poolVars
  <1>4. /\ dropped \subseteq dropped'
        /\ \/ "trigger" \in dropped'
           \/ \A f : InSeq(f, bus["trigger"]) => InSeq(f, bus'["trigger"])
    <2>1. CASE \E r \in Receivers : Lag(r)
      BY <1>1, <2>1 DEF Lag, BusTypes, InSeq
    <2>2. CASE StatusReceive
      <3>1. Receive("status") /\ "status" \in Receivers \ {"trigger"}
        BY <2>2 DEF StatusReceive, Receivers
      <3> QED
        BY <1>1, <3>1, BusKeeps
    <2>3. CASE \/ Push \/ Clone \/ Subscribe \/ UNCHANGED vars
               \/ \E a \in Apps : CreateApp(a) \/ DeleteApp(a) \/ Inform(a) \/ Drift(a)
      <3>1. UNCHANGED <<bus, dropped>>
        BY <2>3 DEF Push, Clone, Subscribe, CreateApp, DeleteApp, Inform, Drift, vars, busVars
      <3> QED
        BY <1>1, <3>1, BusKeeps
    <2>4. CASE \/ Fetch
               \/ \E a \in Apps : CreateAppPublish(a) \/ SyncApp(a) \/ RollbackApp(a)
      <3>1. UNCHANGED <<bus, dropped>> \/ \E e \in Event : Publish(e)
        BY <2>4, BusSteps
      <3> QED
        BY <1>1, <3>1, BusKeeps
    <2> QED
      BY <2>1, <2>2, <2>3, <2>4
  <1>5. RequestsKept'
    BY <1>1, <1>3, <1>4, RequestsUnmoved
  <1>6. AnnounceLast'
    BY <1>1, <1>3 DEF AnnounceLast
  <1> QED
    BY <1>5, <1>6 DEF RequestInv

LEMMA RenderLoopRequests ==
  ASSUME Types, RequestInv,
         \/ RenderReceive \/ Materialize \/ MaterializeFails \/ RenderAnnounce
         \/ \E a \in Apps : RenderOk(a) \/ RenderFails(a)
  PROVE  RequestInv'
  <1>1. RequestsKept /\ AnnounceLast /\ BusTypes /\ RenderTypes
    BY DEF RequestInv, Types
  <1>2. UNCHANGED <<planned, run, forfeited>>
    BY DEF RenderReceive, Materialize, MaterializeFails, RenderAnnounce, RenderOk, RenderFails,
           poolVars
  <1>3. None \notin Apps /\ None \notin Call
    BY DeliveryAssumption
  <1>4. CASE RenderReceive \/ Materialize \/ MaterializeFails \/ \E a \in Apps : RenderFails(a)
    <2>1. /\ dropped \subseteq dropped'
          /\ \/ "trigger" \in dropped'
             \/ \A f : InSeq(f, bus["trigger"]) => InSeq(f, bus'["trigger"])
      <3>1. CASE RenderReceive
        <4>1. Receive("render") /\ "render" \in Receivers \ {"trigger"}
          BY <3>1 DEF RenderReceive, Receivers
        <4> QED
          BY <1>1, <4>1, BusKeeps
      <3>2. CASE Materialize \/ MaterializeFails
        <4>1. UNCHANGED <<bus, dropped>>
          BY <3>2 DEF Materialize, MaterializeFails, busVars
        <4> QED
          BY <1>1, <4>1, BusKeeps
      <3>3. CASE \E a \in Apps : RenderFails(a)
        BY <1>1, <3>3, BusKeeps, BusSteps
      <3> QED
        BY <1>4, <3>1, <3>2, <3>3
    <2>2. desired' = desired
      BY <1>4 DEF RenderReceive, Materialize, MaterializeFails, RenderFails
    <2>3. \A a \in Apps : rendering # None /\ rendering.announce = a
                            => rendering' # None /\ rendering'.announce = a
      <3>1. CASE RenderReceive
        BY <3>1 DEF RenderReceive
      <3>2. CASE Materialize
        BY <1>1, <1>3, <3>2 DEF Materialize, AnnounceLast
      <3>3. CASE MaterializeFails
        BY <1>1, <1>3, <3>3 DEF MaterializeFails, AnnounceLast
      <3>4. CASE \E a \in Apps : RenderFails(a)
        BY <1>3, <3>4 DEF RenderFails, RenderBusy
      <3> QED
        BY <1>4, <3>1, <3>2, <3>3, <3>4
    <2>4. RequestsKept'
      BY <1>1, <1>2, <2>1, <2>2, <2>3, RequestsUnmoved
    <2>5. AnnounceLast'
      <3>1. CASE RenderReceive
        BY <3>1 DEF RenderReceive, AnnounceLast
      <3>2. CASE Materialize
        <4>1. rendering \in Call
          BY <1>1, <3>2, CallFields DEF Materialize
        <4> QED
          BY <3>2, <4>1 DEF Materialize, AnnounceLast, Call
      <3>3. CASE MaterializeFails
        BY <3>3 DEF MaterializeFails, AnnounceLast
      <3>4. ASSUME NEW a \in Apps, RenderFails(a) PROVE AnnounceLast'
        <4>1. rendering \in Call /\ rendering.announce = None
          BY <1>1, <3>4, CallFields DEF RenderFails, RenderBusy
        <4> QED
          BY <3>4, <4>1 DEF RenderFails, AnnounceLast, Step, Call
      <3> QED
        BY <1>4, <3>1, <3>2, <3>3, <3>4
    <2> QED
      BY <2>4, <2>5 DEF RequestInv
  <1>5. CASE RenderAnnounce
    <2> DEFINE b == rendering.announce
    <2>1. rendering \in Call /\ b \in Apps
      BY <1>1, <1>5, CallFields DEF RenderAnnounce
    <2>2. ManualSyncRequested(b, "render") \in Event /\ Publish(ManualSyncRequested(b, "render"))
      BY <1>5, <2>1, EventMembers DEF RenderAnnounce
    <2>3. "trigger" \in Receivers \ {"status"} /\ "ManualSyncRequested" \in ActsOn["trigger"]
      BY DEF Receivers, ActsOn
    <2>4. /\ dropped \subseteq dropped'
          /\ \/ "trigger" \in dropped'
             \/ /\ \A f : InSeq(f, bus["trigger"]) => InSeq(f, bus'["trigger"])
                /\ InSeq(ManualSyncRequested(b, "render"), bus'["trigger"])
      BY <1>1, <2>2, <2>3, PublishKeeps, PublishDropped, EventTypes
    <2>5. desired' = desired
      BY <1>5 DEF RenderAnnounce
    <2>6. RequestsKept'
      <3> SUFFICES ASSUME NEW a \in Apps, desired[a] # None, desired[a] # planned[a]
                   PROVE  \/ InSeq(ManualSyncRequested(a, "render"), bus'["trigger"])
                          \/ run[a].pc \in {"queued", "plan"}
                          \/ a \in forfeited
                          \/ "trigger" \in dropped'
        BY <1>2, <2>5 DEF RequestsKept, InSeq, ManualSyncRequested
      <3>1. \/ b = a
            \/ InSeq(ManualSyncRequested(a, "render"), bus["trigger"])
            \/ run[a].pc \in {"queued", "plan"}
            \/ a \in forfeited
            \/ "trigger" \in dropped
        BY <1>1 DEF RequestsKept
      <3> QED
        BY <2>4, <3>1
    <2>7. AnnounceLast'
      BY <1>5, <2>1 DEF RenderAnnounce, AnnounceLast, Step, Call
    <2> QED
      BY <2>6, <2>7 DEF RequestInv
  <1>6. ASSUME NEW b \in Apps, RenderOk(b) PROVE RequestInv'
    <2>1. rendering \in Call /\ rendering.ready /\ rendering.announce = None
      BY <1>1, <1>6, CallFields DEF RenderOk, RenderBusy
    <2>2. rendering' \in Call /\ rendering'.announce = b /\ rendering'.ready
      BY <1>6, <2>1 DEF RenderOk, Call
    <2>3. rendering' # None
      BY <1>3, <2>2
    <2>4. UNCHANGED <<bus, dropped>> /\ \A a \in Apps \ {b} : desired'[a] = desired[a]
      BY <1>1, <1>6 DEF RenderOk, busVars, StorePut, RenderTypes
    <2>5. RequestsKept'
      <3> SUFFICES ASSUME NEW a \in Apps, desired'[a] # None, desired'[a] # planned[a], a # b
                   PROVE  \/ InSeq(ManualSyncRequested(a, "render"), bus["trigger"])
                          \/ run[a].pc \in {"queued", "plan"}
                          \/ a \in forfeited
                          \/ "trigger" \in dropped
        BY <1>2, <2>2, <2>3, <2>4 DEF RequestsKept, InSeq, ManualSyncRequested
      <3> QED
        BY <1>1, <1>3, <2>1, <2>4 DEF RequestsKept
    <2>6. AnnounceLast'
      BY <2>2 DEF AnnounceLast
    <2> QED
      BY <2>5, <2>6 DEF RequestInv
  <1> QED
    BY <1>4, <1>5, <1>6

LEMMA PoolRequests ==
  ASSUME Types, RequestInv,
         \/ TriggerReceive \/ ResolverFails
         \/ \E a \in Apps : \/ Heal(a) \/ Dispatch(a) \/ DispatchFails(a) \/ PlanOnly(a)
                            \/ ReadRevision(a) \/ NoExecutor(a) \/ Refetch(a) \/ ExecuteWaves(a) \/ ExecuteFails(a) \/ Complete(a)
  PROVE  RequestInv'
  <1>1. RequestsKept /\ AnnounceLast /\ BusTypes /\ PoolTypes
    BY DEF RequestInv, Types
  <1>2. UNCHANGED <<desired, rendering>>
    BY DEF TriggerReceive, ResolverFails, Heal, Dispatch, DispatchFails, PlanOnly, ReadRevision,
           NoExecutor, Refetch, ExecuteWaves, ExecuteFails, Complete, renderVars
  <1>3. AnnounceLast'
    BY <1>1, <1>2 DEF AnnounceLast
  <1>4. CASE TriggerReceive
    <2> DEFINE e == Head(bus["trigger"])
    <2>1. /\ bus["trigger"] # <<>> /\ "trigger" \in Receivers
          /\ bus' = [bus EXCEPT !["trigger"] = Tail(@)] /\ dropped' = dropped
          /\ planned' = planned
          /\ run' = EnqueueCoalesce(Targets(e))
          /\ forfeited' = forfeited \cup (Targets(e) \cap Planned)
      BY <1>4 DEF TriggerReceive, Receive, Receivers, NextEvent
    <2>2. \A f : InSeq(f, bus["trigger"]) => f = e \/ InSeq(f, bus'["trigger"])
      BY <1>1, <2>1, TakeTypes
    <2> HIDE DEF e
    <2> SUFFICES ASSUME NEW a \in Apps, desired[a] # None, desired[a] # planned[a]
                 PROVE  \/ rendering # None /\ rendering.announce = a
                        \/ InSeq(ManualSyncRequested(a, "render"), bus'["trigger"])
                        \/ run'[a].pc \in {"queued", "plan"}
                        \/ a \in forfeited'
                        \/ "trigger" \in dropped
      BY <1>2, <1>3, <2>1 DEF RequestInv, RequestsKept, InSeq, ManualSyncRequested
    <2>3. run'[a] = IF a \in Targets(e) /\ run[a].pc = "idle" THEN [pc |-> "queued"] ELSE run[a]
      BY <2>1 DEF EnqueueCoalesce
    <2>4. CASE e = ManualSyncRequested(a, "render")
      <3>1. a \in Targets(e)
        BY <2>4, EventTypes DEF Targets
      <3>2. CASE run[a].pc \in {"idle", "queued", "plan"}
        BY <2>3, <3>1, <3>2
      <3>3. CASE run[a].pc \notin {"idle", "queued", "plan"}
        BY <2>1, <3>1, <3>3 DEF Planned
      <3> QED
        BY <3>2, <3>3
    <2>5. CASE e # ManualSyncRequested(a, "render")
      BY <1>1, <2>1, <2>2, <2>3, <2>5 DEF RequestsKept
    <2> QED
      BY <2>4, <2>5
  <1>5. CASE ResolverFails
    <2> DEFINE e == Head(bus["trigger"])
    <2>1. /\ bus["trigger"] # <<>> /\ "trigger" \in Receivers /\ e.type = "RepoChanged"
          /\ bus' = [bus EXCEPT !["trigger"] = Tail(@)] /\ UNCHANGED <<dropped, poolVars>>
      BY <1>5 DEF ResolverFails, Receive, Receivers, NextEvent
    <2>2. \A f : InSeq(f, bus["trigger"]) => f = e \/ InSeq(f, bus'["trigger"])
      BY <1>1, <2>1, TakeTypes
    <2> HIDE DEF e
    <2>3. \A a \in Apps : e # ManualSyncRequested(a, "render")
      BY <2>1, EventTypes
    <2>4. UNCHANGED <<run, planned, forfeited>>
      BY <2>1 DEF poolVars
    <2> SUFFICES ASSUME NEW a \in Apps, desired[a] # None, desired[a] # planned[a]
                 PROVE  \/ rendering # None /\ rendering.announce = a
                        \/ InSeq(ManualSyncRequested(a, "render"), bus'["trigger"])
                        \/ run[a].pc \in {"queued", "plan"}
                        \/ a \in forfeited
                        \/ "trigger" \in dropped
      BY <1>2, <1>3, <2>1, <2>4 DEF RequestInv, RequestsKept, InSeq, ManualSyncRequested
    <2> QED
      BY <1>1, <2>2, <2>3 DEF RequestsKept
  <1>6. ASSUME NEW b \in Apps, PlanOnly(b) PROVE RequestInv'
    <2>1. /\ dropped \subseteq dropped'
          /\ \/ "trigger" \in dropped'
             \/ \A f : InSeq(f, bus["trigger"]) => InSeq(f, bus'["trigger"])
      BY <1>1, <1>6, BusKeeps, BusSteps
    <2>2. /\ planned'[b] = desired[b] /\ forfeited' = forfeited \ {b}
          /\ \A a \in Apps \ {b} : planned'[a] = planned[a] /\ run'[a] = run[a]
      BY <1>1, <1>6 DEF PlanOnly, PoolTypes
    <2> SUFFICES ASSUME NEW a \in Apps \ {b}, desired[a] # None, desired[a] # planned[a]
                 PROVE  \/ rendering # None /\ rendering.announce = a
                        \/ InSeq(ManualSyncRequested(a, "render"), bus'["trigger"])
                        \/ run[a].pc \in {"queued", "plan"}
                        \/ a \in forfeited
                        \/ "trigger" \in dropped'
      BY <1>2, <1>3, <2>2 DEF RequestInv, RequestsKept, InSeq, ManualSyncRequested
    <2> QED
      BY <1>1, <2>1 DEF RequestsKept
  <1>7. ASSUME NEW b \in Apps,
               \/ Heal(b) \/ Dispatch(b) \/ DispatchFails(b) \/ ReadRevision(b) \/ Refetch(b)
               \/ NoExecutor(b) \/ ExecuteWaves(b) \/ ExecuteFails(b) \/ Complete(b)
        PROVE RequestInv'
    <2>1. /\ dropped \subseteq dropped'
          /\ \/ "trigger" \in dropped'
             \/ \A f : InSeq(f, bus["trigger"]) => InSeq(f, bus'["trigger"])
      <3>1. CASE NoExecutor(b) \/ ExecuteWaves(b) \/ ExecuteFails(b)
        BY <1>1, <3>1, BusKeeps, BusSteps
      <3>2. CASE Heal(b) \/ Dispatch(b) \/ DispatchFails(b) \/ ReadRevision(b) \/ Refetch(b)
                   \/ Complete(b)
        <4>1. UNCHANGED <<bus, dropped>>
          BY <3>2 DEF Heal, Dispatch, DispatchFails, ReadRevision, Refetch, Complete, busVars
        <4> QED
          BY <1>1, <4>1, BusKeeps
      <3> QED
        BY <1>7, <3>1, <3>2
    <2>2. planned' = planned /\ forfeited \subseteq forfeited'
      BY <1>7 DEF Heal, Dispatch, DispatchFails, ReadRevision, NoExecutor, Refetch, ExecuteWaves,
                  ExecuteFails, Complete
    <2>3. ASSUME NEW a \in Apps, run[a].pc \in {"queued", "plan"}
          PROVE  run'[a].pc \in {"queued", "plan"} \/ a \in forfeited'
      <3>1. CASE Heal(b)
        BY <2>3, <3>1 DEF Heal, EnqueueCoalesce
      <3>2. CASE Dispatch(b) \/ DispatchFails(b)
        BY <1>1, <2>3, <3>2 DEF Dispatch, DispatchFails, PoolTypes
      <3>3. CASE ReadRevision(b) \/ NoExecutor(b) \/ Refetch(b) \/ ExecuteWaves(b)
                   \/ ExecuteFails(b) \/ Complete(b)
        <4>1. a # b /\ run'[a] = run[a]
          BY <1>1, <2>3, <3>3 DEF ReadRevision, NoExecutor, Refetch, ExecuteWaves, ExecuteFails,
                                   Complete, PoolTypes
        <4> QED
          BY <2>3, <4>1
      <3> QED
        BY <1>7, <3>1, <3>2, <3>3
    <2>4. RequestsKept'
      BY <1>1, <1>2, <2>1, <2>2, <2>3, RequestsUnmoved
    <2> QED
      BY <1>3, <2>4 DEF RequestInv
  <1> QED
    BY <1>4, <1>6, <1>7, <1>5

LEMMA NextRequests ==
  ASSUME Types, RequestInv, [Next]_vars
  PROVE  RequestInv'
  <1>1. CASE Restart
    BY <1>1 DEF Restart, RequestInv, AnnounceLast, RequestsKept
  <1> QED
    BY <1>1, OuterRequests, RenderLoopRequests, PoolRequests DEF Next

-----------------------------------------------------------------------------
(* The second chain: moved heads.                                          *)

\* What RenderedOrComing says of an app whose manifests are not the head's.
Coming(a) ==
  \/ InSeq(RepoChanged(bare), bus["render"])
  \/ \E b \in Apps : b \in creating \/ InSeq(AppChanged(b), bus["render"])
  \/ rendering # None /\ rendering.head = bare /\ a \in rendering.todo
  \/ a \in unrendered
  \/ "render" \in dropped

(* The render loop missed an event: nothing is promised but what holds     *)
(* before the first clone.                                                 *)
LEMMA MissedExcuses ==
  ASSUME NothingCloned', "render" \in dropped'
  PROVE  RenderInv'
  BY DEF RenderInv, StaleCallFollowed, StaleEventFollowed, RenderedOrComing, HeadPending

LEMMA RenderInit == Init => RenderInv
  BY DEF Init, RenderInv, NothingCloned, StaleCallFollowed, StaleEventFollowed,
         RenderedOrComing, Receivers

(* A step that leaves the render loop, its queue and the clone alone; a new*)
(* row is an app being created.                                            *)
LEMMA HeadsUnmoved ==
  ASSUME RenderInv, UNCHANGED <<bare, desired, rendering, unrendered>>,
         bus'["render"] = bus["render"], "render" \in dropped => "render" \in dropped',
         apps' \subseteq apps \/ \E b \in Apps : b \in creating', creating \subseteq creating'
  PROVE  RenderInv'
  <1>1. NothingCloned' /\ StaleCallFollowed' /\ StaleEventFollowed'
    BY DEF RenderInv, NothingCloned, StaleCallFollowed, StaleEventFollowed, HeadPending, InSeq,
           RepoChanged
  <1>2. RenderedOrComing'
    <2> SUFFICES ASSUME NEW a \in apps', desired[a] # None, desired[a] # bare
                 PROVE  Coming(a)'
      BY DEF RenderedOrComing, Coming
    <2>1. CASE a \in apps
      BY <2>1 DEF RenderInv, RenderedOrComing, Coming, InSeq, RepoChanged, AppChanged
    <2>2. CASE a \notin apps
      BY <2>2 DEF Coming
    <2> QED
      BY <2>1, <2>2
  <1> QED
    BY <1>1, <1>2 DEF RenderInv

LEMMA QuietHeads ==
  ASSUME Types, RenderInv,
         \/ Push \/ Subscribe \/ StatusReceive \/ TriggerReceive \/ ResolverFails
         \/ \E r \in Receivers \ {"render"} : Lag(r)
         \/ \E a \in Apps : \/ CreateApp(a) \/ DeleteApp(a) \/ SyncApp(a) \/ RollbackApp(a)
                            \/ Inform(a) \/ Drift(a)
                            \/ Heal(a) \/ Dispatch(a) \/ DispatchFails(a) \/ PlanOnly(a)
                            \/ ReadRevision(a) \/ NoExecutor(a) \/ Refetch(a) \/ ExecuteWaves(a) \/ ExecuteFails(a) \/ Complete(a)
         \/ UNCHANGED vars
  PROVE  RenderInv'
  <1>1. BusTypes /\ PoolTypes /\ "render" \in Receivers \ {"status"}
    BY DEF Types, Receivers
  <1>2. UNCHANGED <<bare, renderVars>>
    BY DEF Push, Subscribe, StatusReceive, TriggerReceive, ResolverFails, Lag, CreateApp, DeleteApp,
           SyncApp, RollbackApp, Inform, Drift, Heal, Dispatch, DispatchFails, PlanOnly,
           ReadRevision, NoExecutor, Refetch,
           ExecuteWaves, ExecuteFails, Complete, vars, gitVars
  <1>3. UNCHANGED <<bare, desired, rendering, unrendered>>
    BY <1>2 DEF renderVars
  <1>4. /\ creating \subseteq creating'
        /\ apps' \subseteq apps \/ \E b \in Apps : b \in creating'
    <2>1. CASE \E a \in Apps : CreateApp(a)
      BY <2>1 DEF CreateApp
    <2>2. CASE \E a \in Apps : DeleteApp(a)
      BY <2>2 DEF DeleteApp
    <2>3. CASE StatusReceive
      BY <2>3 DEF StatusReceive
    <2>4. CASE \/ Push \/ Subscribe \/ TriggerReceive \/ ResolverFails
               \/ \E r \in Receivers \ {"render"} : Lag(r)
               \/ \E a \in Apps : \/ SyncApp(a) \/ RollbackApp(a)
                            \/ Inform(a) \/ Drift(a)
                            \/ Heal(a) \/ Dispatch(a) \/ DispatchFails(a) \/ PlanOnly(a)
                            \/ ReadRevision(a) \/ NoExecutor(a) \/ Refetch(a) \/ ExecuteWaves(a) \/ ExecuteFails(a) \/ Complete(a)
               \/ UNCHANGED vars
      <3>1. UNCHANGED dbVars
        BY <2>4 DEF Push, Subscribe, TriggerReceive, ResolverFails, Lag, SyncApp, RollbackApp,
             Inform, Drift, Heal, Dispatch, DispatchFails, PlanOnly, ReadRevision, NoExecutor,
             Refetch, ExecuteWaves, ExecuteFails, Complete, vars
      <3> QED
        BY <3>1 DEF dbVars
    <2> QED
      BY <2>1, <2>2, <2>3, <2>4
  <1>5. ASSUME NEW e, Publish(e), e.type \in {"ManualSyncRequested", "SyncOutcome"}
        PROVE  bus'["render"] = bus["render"] /\ dropped \subseteq dropped'
    <2>1. e.type \notin ActsOn["render"]
      BY <1>5 DEF ActsOn
    <2> QED
      BY <1>1, <1>5, <2>1 DEF Publish
  <1>6. bus'["render"] = bus["render"] /\ dropped \subseteq dropped'
    <2>1. CASE StatusReceive \/ TriggerReceive \/ ResolverFails
      BY <1>1, <2>1 DEF StatusReceive, TriggerReceive, ResolverFails, Receive, BusTypes
    <2>2. CASE \E r \in Receivers \ {"render"} : Lag(r)
      BY <1>1, <2>2 DEF Lag, BusTypes
    <2>3. CASE \E a \in Apps : SyncApp(a) \/ RollbackApp(a)
      BY <1>5, <2>3, EventTypes DEF SyncApp, RollbackApp
    <2>4. CASE \E a \in Apps : NoExecutor(a) \/ ExecuteWaves(a) \/ ExecuteFails(a)
      <3>1. PICK a \in Apps : NoExecutor(a) \/ ExecuteWaves(a) \/ ExecuteFails(a)
        BY <2>4
      <3>2. \/ Publish(SyncOutcome(a, TRUE, desired[a]))
            \/ Publish(SyncOutcome(a, TRUE, run[a].revision))
            \/ Publish(SyncOutcome(a, FALSE, run[a].revision))
        BY <3>1 DEF NoExecutor, ExecuteWaves, ExecuteFails
      <3> QED
        BY <1>5, <3>2 DEF SyncOutcome
    <2>5. CASE \E a \in Apps : PlanOnly(a)
      <3>1. PICK a \in Apps : PlanOnly(a)
        BY <2>5
      <3>2. Publish(SyncOutcome(a, FALSE, None)) \/ UNCHANGED <<bus, dropped>>
        BY <3>1 DEF PlanOnly, busVars
      <3> QED
        BY <1>5, <3>2 DEF SyncOutcome
    <2>6. CASE \/ Push \/ Subscribe
               \/ \E a \in Apps : \/ CreateApp(a) \/ DeleteApp(a) \/ Inform(a) \/ Drift(a)
                      \/ Heal(a) \/ Dispatch(a) \/ DispatchFails(a) \/ ReadRevision(a) \/ Refetch(a)
                      \/ Complete(a)
               \/ UNCHANGED vars
      BY <2>6 DEF Push, Subscribe, CreateApp, DeleteApp, Inform, Drift, Heal, Dispatch,
                  DispatchFails, ReadRevision, Refetch, Complete, vars, busVars
    <2> QED
      BY <2>1, <2>2, <2>3, <2>4, <2>5, <2>6
  <1> QED
    BY <1>3, <1>4, <1>6, HeadsUnmoved

(* The first clone: nothing was rendered and no head was announced before. *)
LEMMA CloneHeads ==
  ASSUME Types, RenderInv, Clone
  PROVE  RenderInv'
  <1>1. /\ rendering = None /\ \A a \in Apps : desired[a] = None
        /\ \A i \in DOMAIN bus["render"] : bus["render"][i].type # "RepoChanged"
    BY DEF RenderInv, NothingCloned, Clone
  <1>2. UNCHANGED <<rendering, desired, bus, dropped, apps>> /\ bare' = origin
    BY DEF Clone, renderVars, busVars, dbVars
  <1>3. bare' # None
    BY <1>2, DeliveryAssumption DEF Types, Revision
  <1> QED
    BY <1>1, <1>2, <1>3 DEF RenderInv, NothingCloned, StaleCallFollowed, StaleEventFollowed,
                            RenderedOrComing, Types, DbTypes

(* A moved head enters the queue behind every former one.                  *)
LEMMA FetchHeads ==
  ASSUME Types, RenderInv, Fetch
  PROVE  RenderInv'
  <1>1. BusTypes /\ "render" \in Receivers \ {"status"} /\ bus["render"] \in Seq(Event)
    BY DEF Types, BusTypes, Receivers
  <1>2. bare' = origin /\ origin \in Revision /\ bare' # None
    BY DeliveryAssumption DEF Fetch, Types, Revision
  <1>3. UNCHANGED <<desired, rendering, unrendered, apps, creating>>
    BY DEF Fetch, renderVars, dbVars
  <1>4. NothingCloned'
    BY <1>2 DEF NothingCloned
  <1>5. CASE ~Moved(bare, origin)
    BY <1>2, <1>3, <1>5, HeadsUnmoved DEF Fetch, Moved, busVars
  <1>6. CASE Moved(bare, origin) /\ "render" \in dropped'
    BY <1>4, <1>6, MissedExcuses
  <1>7. CASE Moved(bare, origin) /\ "render" \notin dropped'
    <2> DEFINE e == RepoChanged(origin)
               q == bus["render"]
               p == bus'["render"]
    <2>1. Publish(e) /\ e \in Event /\ e.type = "RepoChanged" /\ e = RepoChanged(bare')
      BY <1>2, <1>7, EventMembers, EventTypes DEF Fetch
    <2>2. "RepoChanged" \in ActsOn["render"]
      BY DEF ActsOn
    <2>3. Listens("render") /\ ~Full("render")
      BY <1>1, <1>7, <2>1, <2>2, PublishDropped
    <2>4. p = Append(q, e)
      BY <1>1, <2>1, <2>2, <2>3, PublishQueue
    <2> HIDE DEF e, q, p
    <2>5. /\ Len(q) \in Nat /\ DOMAIN q = 1 .. Len(q) /\ DOMAIN p = 1 .. (Len(q) + 1)
          /\ p[Len(q) + 1] = e
      BY <1>1, <2>1, <2>4, AppendFacts DEF q
    <2>6. \A i \in DOMAIN p : \E j \in DOMAIN p : j >= i /\ p[j] = e
      BY <2>5
    <2>7. StaleEventFollowed'
      BY <2>1, <2>6 DEF StaleEventFollowed, p, e
    <2>8. InSeq(RepoChanged(bare'), bus'["render"])
      BY <2>1, <2>5 DEF InSeq, p, e
    <2>9. StaleCallFollowed' /\ RenderedOrComing'
      BY <2>8 DEF StaleCallFollowed, HeadPending, RenderedOrComing, InSeq, RepoChanged
    <2> QED
      BY <1>4, <2>7, <2>9 DEF RenderInv
  <1> QED
    BY <1>5, <1>6, <1>7

(* A created app's event enters the queue; no head moves.                  *)
LEMMA CreateHeads ==
  ASSUME Types, RenderInv, NEW b \in Apps, CreateAppPublish(b)
  PROVE  RenderInv'
  <1> DEFINE e == AppChanged(b)
             q == bus["render"]
             p == bus'["render"]
  <1>1. BusTypes /\ "render" \in Receivers \ {"status"} /\ q \in Seq(Event)
    BY DEF Types, BusTypes, Receivers
  <1>2. Publish(e) /\ e \in Event /\ e.type = "AppChanged"
    BY EventMembers, EventTypes DEF CreateAppPublish
  <1>3. UNCHANGED <<bare, desired, rendering, unrendered, apps>> /\ creating' = creating \ {b}
    BY DEF CreateAppPublish, renderVars, gitVars
  <1>4. "AppChanged" \in ActsOn["render"]
    BY DEF ActsOn
  <1>5. /\ \/ p = q
           \/ p = Append(q, e)
           \/ q # <<>> /\ p = Append(Tail(q), e)
        /\ "render" \in dropped' \/ p = Append(q, e)
    BY <1>1, <1>2, <1>4, PublishQueue, PublishDropped
  <1> HIDE DEF e, q, p
  <1>6. /\ \A t \in Seq(Event) : \A i \in DOMAIN Append(t, e) :
               Append(t, e)[i] = e \/ (i \in DOMAIN t /\ Append(t, e)[i] = t[i])
    BY <1>2, AppendFacts
  <1>7. q # <<>> => Tail(q) \in Seq(Event) /\
            \A i \in DOMAIN Tail(q) : \E j \in DOMAIN q : Tail(q)[i] = q[j]
    <2>1. ASSUME q # <<>>, NEW i \in DOMAIN Tail(q) PROVE i + 1 \in DOMAIN q /\ Tail(q)[i] = q[i + 1]
      BY <1>1, <2>1, TailFacts
    <2> QED
      BY <1>1, <2>1, TailFacts
  <1>8. NothingCloned'
    <2>1. \A i \in DOMAIN p : p[i] = e \/ \E j \in DOMAIN q : p[i] = q[j]
      <3>1. CASE p = q
        BY <3>1
      <3>2. CASE p = Append(q, e)
        BY <1>1, <1>6, <3>2
      <3>3. CASE q # <<>> /\ p = Append(Tail(q), e)
        BY <1>6, <1>7, <3>3
      <3> QED
        BY <1>5, <3>1, <3>2, <3>3
    <2> QED
      BY <1>2, <1>3, <2>1 DEF NothingCloned, RenderInv, p, q
  <1>9. CASE "render" \in dropped'
    BY <1>8, <1>9, MissedExcuses
  <1>10. CASE "render" \notin dropped'
    <2>1. p = Append(q, e) /\ "render" \notin dropped
      BY <1>1, <1>2, <1>5, <1>10, PublishDropped
    <2>2. \A f : InSeq(f, p) <=> InSeq(f, q) \/ f = e
      BY <1>1, <1>2, <2>1, AppendIn
    <2>3. StaleCallFollowed'
      BY <1>3, <2>1, <2>2 DEF RenderInv, StaleCallFollowed, HeadPending, InSeq, RepoChanged, p, q
    <2>4. StaleEventFollowed'
      <3>1. \A i \in DOMAIN q : q[i].type = "RepoChanged" =>
              \E j \in DOMAIN q : j >= i /\ q[j] = RepoChanged(bare)
        BY <2>1 DEF RenderInv, StaleEventFollowed, q
      <3>2. /\ \A i \in DOMAIN p : p[i] = e \/ (i \in DOMAIN q /\ p[i] = q[i])
            /\ \A i \in DOMAIN q : i \in DOMAIN p /\ p[i] = q[i]
        BY <1>1, <1>2, <2>1, AppendFacts
      <3>3. \A i \in DOMAIN p : p[i].type = "RepoChanged" =>
              \E j \in DOMAIN p : j >= i /\ p[j] = RepoChanged(bare)
        BY <1>2, <3>1, <3>2
      <3> QED
        BY <1>3, <3>3 DEF StaleEventFollowed, p
    <2>5. RenderedOrComing'
      <3> SUFFICES ASSUME NEW a \in apps, desired[a] # None, desired[a] # bare
                   PROVE  Coming(a)'
        BY <1>3 DEF RenderedOrComing, Coming
      <3>1. Coming(a)
        BY <1>3 DEF RenderInv, RenderedOrComing, Coming
      <3>2. CASE InSeq(RepoChanged(bare), q)
        BY <1>3, <2>2, <3>2 DEF Coming, p, q, InSeq, RepoChanged
      <3>3. CASE \E c \in Apps : InSeq(AppChanged(c), q)
        BY <2>2, <3>3 DEF Coming, p, q, InSeq, AppChanged
      <3>4. CASE \E c \in Apps : c \in creating
        <4>1. InSeq(AppChanged(b), p)
          BY <2>2 DEF e
        <4> QED
          BY <1>3, <3>4, <4>1 DEF Coming, p, InSeq, AppChanged
      <3>5. CASE \/ rendering # None /\ rendering.head = bare /\ a \in rendering.todo
                 \/ a \in unrendered
        BY <1>3, <3>5 DEF Coming
      <3> QED
        BY <2>1, <3>1, <3>2, <3>3, <3>4, <3>5 DEF Coming, q
    <2> QED
      BY <1>8, <2>3, <2>4, <2>5 DEF RenderInv
  <1> QED
    BY <1>9, <1>10

(* The ring pushes an event of the render loop out.                        *)
LEMMA LagHeads ==
  ASSUME Types, RenderInv, Lag("render")
  PROVE  RenderInv'
  <1> DEFINE q == bus["render"]
  <1>1. q \in Seq(Event) /\ q # <<>> /\ bus'["render"] = Tail(q) /\ "render" \in dropped'
    BY DEF Lag, Types, BusTypes, Receivers
  <1>2. UNCHANGED <<bare, rendering, desired>>
    BY DEF Lag, gitVars, renderVars
  <1> HIDE DEF q
  <1>3. \A i \in DOMAIN Tail(q) : i + 1 \in DOMAIN q /\ Tail(q)[i] = q[i + 1]
    BY <1>1, TailFacts
  <1>4. NothingCloned'
    BY <1>1, <1>2, <1>3 DEF RenderInv, NothingCloned, q
  <1> QED
    BY <1>1, <1>4, MissedExcuses

(* The loop takes an event.  If it carries a former head, the current one  *)
(* is behind it; if it stands for the current head, every app is in the    *)
(* call it starts.                                                         *)
LEMMA ReceiveHeads ==
  ASSUME Types, RenderInv, RenderReceive
  PROVE  RenderInv'
  <1> DEFINE q == bus["render"]
             p == bus'["render"]
             e == Head(q)
             h == RenderHead(e)
  <1>1. BusTypes /\ DbTypes /\ q \in Seq(Event) /\ "render" \in Receivers
    BY DEF Types, BusTypes, Receivers
  <1>2. /\ q # <<>> /\ p = Tail(q) /\ dropped' = dropped
        /\ rendering = None
        /\ rendering' = IF h = None \/ apps = {} THEN None
                        ELSE [head |-> h, todo |-> apps, ready |-> FALSE, announce |-> None]
        /\ UNCHANGED <<bare, desired, unrendered, apps, creating>>
    BY <1>1 DEF RenderReceive, Receive, NextEvent, gitVars, dbVars, BusTypes
  <1>3. h = IF e.type = "RepoChanged" THEN e.head
            ELSE IF e.type = "AppChanged" THEN bare ELSE None
    BY DEF RenderHead
  <1> HIDE DEF q, p, h, e
  <1>4. /\ e \in Event /\ e = q[1]
        /\ Len(q) \in Nat \ {0} /\ DOMAIN q = 1 .. Len(q) /\ DOMAIN p = 1 .. (Len(q) - 1)
        /\ \A i \in 1 .. (Len(q) - 1) : p[i] = q[i + 1]
    BY <1>1, <1>2, TailFacts DEF e
  <1>5. \A f : InSeq(f, q) => f = e \/ InSeq(f, p)
    BY <1>1, <1>2, TailIn DEF e
  <1>6. e.type = "RepoChanged" => e.head \in Revision /\ e = RepoChanged(e.head)
    BY <1>4, EventCases, EventTypes
  <1>7. None \notin Call /\ None \notin Revision /\ bare \in Revision \cup {None}
    BY DeliveryAssumption DEF Types, Revision
  <1>8. NothingCloned'
    <2> SUFFICES ASSUME bare = None
                 PROVE  rendering' = None /\ \A i \in DOMAIN p : p[i].type # "RepoChanged"
      BY <1>2 DEF RenderInv, NothingCloned, p
    <2>1. \A i \in DOMAIN q : q[i].type # "RepoChanged"
      BY DEF RenderInv, NothingCloned, q
    <2>2. 1 \in DOMAIN q /\ \A i \in DOMAIN p : i + 1 \in DOMAIN q /\ p[i] = q[i + 1]
      BY <1>4
    <2>3. h = None
      BY <1>3, <1>4, <2>1, <2>2
    <2> QED
      BY <1>2, <2>1, <2>2, <2>3
  <1>9. CASE "render" \in dropped
    BY <1>2, <1>8, <1>9, MissedExcuses
  <1>10. CASE "render" \notin dropped
    <2>1. \A i \in DOMAIN q : q[i].type = "RepoChanged" =>
            \E j \in DOMAIN q : j >= i /\ q[j] = RepoChanged(bare)
      BY <1>10 DEF RenderInv, StaleEventFollowed, q
    <2>2. StaleEventFollowed'
      <3> SUFFICES ASSUME NEW i \in DOMAIN p, p[i].type = "RepoChanged"
                   PROVE  \E j \in DOMAIN p : j >= i /\ p[j] = RepoChanged(bare)
        BY <1>2 DEF StaleEventFollowed, p
      <3>1. i \in Nat /\ i + 1 \in DOMAIN q /\ q[i + 1].type = "RepoChanged"
        BY <1>4
      <3>2. PICK j \in DOMAIN q : j >= i + 1 /\ q[j] = RepoChanged(bare)
        BY <2>1, <3>1
      <3>3. j - 1 \in DOMAIN p /\ j - 1 >= i /\ p[j - 1] = RepoChanged(bare)
        BY <1>4, <3>1, <3>2
      <3> QED
        BY <3>3
    <2>3. e.type = "RepoChanged" /\ e.head # bare => InSeq(RepoChanged(bare), p)
      <3> SUFFICES ASSUME e.type = "RepoChanged", e.head # bare
                   PROVE  InSeq(RepoChanged(bare), p)
        OBVIOUS
      <3>1. 1 \in DOMAIN q /\ e # RepoChanged(bare)
        BY <1>4, EventTypes
      <3>2. \E j \in DOMAIN q : q[j] = RepoChanged(bare)
        BY <1>4, <2>1, <3>1
      <3> QED
        BY <1>5, <3>1, <3>2 DEF InSeq
    <2>4. StaleCallFollowed'
      <3> SUFFICES ASSUME rendering' # None, rendering'.head # bare
                   PROVE  InSeq(RepoChanged(bare), p)
        BY <1>2 DEF StaleCallFollowed, HeadPending, InSeq, RepoChanged, p
      <3>1. h # None /\ rendering'.head = h
        BY <1>2
      <3> QED
        BY <1>3, <2>3, <3>1
    <2>5. RenderedOrComing'
      <3> SUFFICES ASSUME NEW a \in apps, desired[a] # None, desired[a] # bare
                   PROVE  Coming(a)'
        BY <1>2 DEF RenderedOrComing, Coming
      <3>1. bare # None /\ a \in Apps
        BY <1>1 DEF RenderInv, NothingCloned, DbTypes
      <3>2. Coming(a)
        BY DEF RenderInv, RenderedOrComing, Coming
      <3>3. CASE InSeq(RepoChanged(bare), p) \/ \E c \in Apps : InSeq(AppChanged(c), p)
        BY <1>2, <3>3 DEF Coming, InSeq, RepoChanged, AppChanged, p
      <3>4. CASE e = RepoChanged(bare) \/ \E c \in Apps : e = AppChanged(c)
        <4>1. h = bare /\ h \in Revision
          BY <1>3, <1>7, <3>1, <3>4, EventTypes
        <4>2. rendering' = [head |-> h, todo |-> apps, ready |-> FALSE, announce |-> None]
          BY <1>2, <1>7, <4>1
        <4>3. rendering' \in Call
          BY <1>1, <4>1, <4>2 DEF Call, DbTypes
        <4>4. rendering'.head = bare /\ a \in rendering'.todo /\ rendering' # None
          BY <1>7, <4>1, <4>2, <4>3
        <4> QED
          BY <1>2, <4>4 DEF Coming
      <3>5. CASE a \in unrendered \/ \E c \in Apps : c \in creating
        BY <1>2, <3>5 DEF Coming
      <3> QED
        BY <1>2, <1>5, <1>10, <3>2, <3>3, <3>4, <3>5 DEF Coming, q
    <2> QED
      BY <1>8, <2>2, <2>4, <2>5 DEF RenderInv
  <1> QED
    BY <1>9, <1>10

(* A step of a render call.  A former head that is stored is followed by   *)
(* the current one.                                                        *)
LEMMA CallHeads ==
  ASSUME Types, RenderInv,
         \/ Materialize \/ MaterializeFails \/ RenderAnnounce
         \/ \E a \in Apps : RenderOk(a) \/ RenderFails(a)
  PROVE  RenderInv'
  <1>1. BusTypes /\ RenderTypes /\ DbTypes /\ "render" \in Receivers
    BY DEF Types, Receivers
  <1>2. rendering # None /\ rendering \in Call /\ bare # None
    BY <1>1, CallFields DEF Materialize, MaterializeFails, RenderAnnounce, RenderOk, RenderFails,
           RenderBusy, RenderInv, NothingCloned
  <1>3. UNCHANGED <<bare, apps, creating>>
    BY DEF Materialize, MaterializeFails, RenderAnnounce, RenderOk, RenderFails, gitVars, dbVars
  <1>4. bus'["render"] = bus["render"] /\ dropped \subseteq dropped'
    <2>1. CASE Materialize \/ MaterializeFails \/ \E a \in Apps : RenderOk(a)
      BY <2>1 DEF Materialize, MaterializeFails, RenderOk, busVars
    <2>2. ASSUME NEW e, Publish(e), e.type \in {"ManualSyncRequested", "SyncOutcome"}
          PROVE  bus'["render"] = bus["render"] /\ dropped \subseteq dropped'
      <3>1. e.type \notin ActsOn["render"]
        BY <2>2 DEF ActsOn
      <3> QED
        BY <1>1, <2>2, <3>1 DEF Publish
    <2>3. CASE RenderAnnounce
      BY <2>2, <2>3 DEF RenderAnnounce, ManualSyncRequested
    <2>4. CASE \E a \in Apps : RenderFails(a)
      <3>1. PICK a \in Apps : RenderFails(a)
        BY <2>4
      <3>2. Publish(SyncOutcome(a, FALSE, rendering.head))
        BY <3>1 DEF RenderFails
      <3> QED
        BY <2>2, <3>2 DEF SyncOutcome
    <2> QED
      BY <2>1, <2>3, <2>4
  <1>5. NothingCloned'
    BY <1>2, <1>3 DEF NothingCloned
  <1>6. StaleEventFollowed'
    BY <1>3, <1>4 DEF RenderInv, StaleEventFollowed, RepoChanged
  <1>7. rendering' = None \/ rendering'.head = rendering.head
    BY <1>2 DEF Materialize, MaterializeFails, RenderAnnounce, RenderOk, RenderFails, Step, Call
  <1>8. StaleCallFollowed'
    BY <1>2, <1>3, <1>4, <1>7 DEF RenderInv, StaleCallFollowed, HeadPending, InSeq, RepoChanged
  <1>9. RenderedOrComing'
    <2> SUFFICES ASSUME NEW a \in apps, desired'[a] # None, desired'[a] # bare
                 PROVE  Coming(a)'
      BY <1>3 DEF RenderedOrComing, Coming
    <2>1. a \in Apps /\ None \notin Call
      BY <1>1, DeliveryAssumption DEF DbTypes
    <2>2. CASE rendering.head # bare /\ RenderOk(a)
      <3>1. HeadPending
        BY <1>2, <2>2 DEF RenderInv, StaleCallFollowed
      <3> QED
        BY <1>3, <1>4, <3>1 DEF HeadPending, Coming, InSeq, RepoChanged
    <2>3. CASE rendering.head = bare /\ RenderOk(a)
      <3>1. desired'[a] = bare
        BY <1>1, <2>1, <2>3 DEF RenderOk, StorePut, RenderTypes
      <3> QED
        BY <3>1
    <2>4. CASE ~RenderOk(a)
      <3>1. desired'[a] = desired[a] /\ (a \in unrendered => a \in unrendered')
        BY <1>1, <2>1, <2>4 DEF Materialize, MaterializeFails, RenderAnnounce, RenderOk,
                                 RenderFails, StorePut, RenderTypes
      <3>2. Coming(a)
        BY <3>1 DEF RenderInv, RenderedOrComing, Coming
      <3>3. CASE rendering.head = bare /\ a \in rendering.todo
        <4>1. CASE Materialize
          <5>1. rendering' \in Call /\ rendering'.head = bare /\ a \in rendering'.todo
            BY <1>2, <3>3, <4>1 DEF Materialize, Call
          <5> QED
            BY <1>3, <2>1, <5>1 DEF Coming
        <4>2. CASE MaterializeFails
          BY <3>3, <4>2 DEF MaterializeFails, Coming
        <4>3. CASE RenderAnnounce
          <5>1. /\ [rendering EXCEPT !.announce = None] \in Call
                /\ [rendering EXCEPT !.announce = None].todo = rendering.todo
                /\ [rendering EXCEPT !.announce = None].head = rendering.head
            BY <1>2 DEF Call
          <5>2. rendering' = [rendering EXCEPT !.announce = None]
            BY <3>3, <4>3, <5>1 DEF RenderAnnounce, Step
          <5> QED
            BY <1>3, <2>1, <3>3, <5>1, <5>2 DEF Coming
        <4>4. ASSUME NEW b \in Apps, RenderOk(b) PROVE Coming(a)'
          <5>1. a # b
            BY <2>4, <4>4
          <5>2. rendering' \in Call /\ rendering'.head = bare /\ a \in rendering'.todo
            BY <1>2, <3>3, <4>4, <5>1 DEF RenderOk, Call
          <5> QED
            BY <1>3, <2>1, <5>2 DEF Coming
        <4>5. ASSUME NEW b \in Apps, RenderFails(b) PROVE Coming(a)'
          <5>1. CASE a = b
            BY <4>5, <5>1 DEF RenderFails, Coming
          <5>2. CASE a # b
            <6> DEFINE c == [rendering EXCEPT !.todo = @ \ {b}]
            <6>1. c \in Call /\ c.head = bare /\ a \in c.todo
              BY <1>2, <3>3, <5>2 DEF Call
            <6>2. rendering' = c
              BY <4>5, <6>1 DEF RenderFails, Step
            <6> QED
              BY <1>3, <2>1, <6>1, <6>2 DEF Coming
          <5> QED
            BY <5>1, <5>2
        <4> QED
          BY <4>1, <4>2, <4>3, <4>4, <4>5
      <3>4. CASE a \in unrendered
        BY <3>1, <3>4 DEF Coming
      <3>5. CASE \/ InSeq(RepoChanged(bare), bus["render"])
                 \/ \E b \in Apps : b \in creating \/ InSeq(AppChanged(b), bus["render"])
                 \/ "render" \in dropped
        BY <1>3, <1>4, <3>5 DEF Coming, InSeq, RepoChanged, AppChanged
      <3> QED
        BY <3>2, <3>3, <3>4, <3>5 DEF Coming
    <2> QED
      BY <2>2, <2>3, <2>4
  <1> QED
    BY <1>5, <1>6, <1>8, <1>9 DEF RenderInv

LEMMA NextHeads ==
  ASSUME Types, RenderInv, [Next]_vars
  PROVE  RenderInv'
  <1>1. CASE Restart
    <2>1. bus'["render"] = <<>>
      BY <1>1 DEF Restart, Receivers
    <2>2. rendering' = None /\ \A a \in Apps : desired'[a] = None
      BY <1>1 DEF Restart
    <2>3. apps' \subseteq Apps
      BY <1>1 DEF Restart, Types, DbTypes
    <2> QED
      BY <2>1, <2>2, <2>3 DEF RenderInv, NothingCloned, StaleCallFollowed, StaleEventFollowed,
                              RenderedOrComing
  <1>2. CASE \E r \in Receivers : Lag(r)
    BY <1>2, LagHeads, QuietHeads
  <1> QED
    BY <1>1, <1>2, QuietHeads, CloneHeads, FetchHeads, CreateHeads, ReceiveHeads, CallHeads
       DEF Next

-----------------------------------------------------------------------------
(* The inductive invariant holds of every run of the pipeline.             *)
THEOREM DeliveryInvariant == Spec => []DeliveryInv
  <1>1. Init => DeliveryInv
    BY InitTypes, RequestInit, RenderInit DEF DeliveryInv
  <1>2. DeliveryInv /\ [Next]_vars => DeliveryInv'
    BY NextTypes, NextRequests, NextHeads DEF DeliveryInv
  <1> QED
    BY <1>1, <1>2, PTL DEF Spec

(* Every variable keeps its type; no receiver's queue outgrows the ring.   *)
THEOREM DeliveryTypes == Spec => []TypeOK
  <1>1. DeliveryInv => TypeOK
    BY DEF DeliveryInv, Types, BusTypes, DbTypes, RenderTypes, PoolTypes, ClusterTypes, TypeOK
  <1> QED
    BY <1>1, DeliveryInvariant, PTL

(* Coalescing loses no sync request while its job is queued or planning,   *)
(* through restarts, lag and failures.                                     *)
THEOREM RequestsNotLost == Spec => []RequestsKept
  <1>1. DeliveryInv => RequestsKept
    BY DEF DeliveryInv, RequestInv
  <1> QED
    BY <1>1, DeliveryInvariant, PTL

(* A head that moved is rendered or on its way to every app.               *)
THEOREM HeadsReachApps == Spec => []RenderedOrComing
  <1>1. DeliveryInv => RenderedOrComing
    BY DEF DeliveryInv, RenderInv
  <1> QED
    BY <1>1, DeliveryInvariant, PTL
=============================================================================
