----------------------------- MODULE LiveStore -----------------------------
(***************************************************************************)
(* The view of one cluster that the reconciler plans from: a health        *)
(* monitor (synchrotron-kube/src/health), one informer per kind            *)
(* (informer/runner.rs, informer_setup.rs) and the LiveStore their routers *)
(* write (live_source.rs).                                                 *)
(*                                                                         *)
(* Two wirings.  "monitor": informers follow a HealthMonitor and fetch its *)
(* current client, which is what the crate is built for.  "static":        *)
(* spawn_informers_for_gvks, which main.rs uses, with a health channel that*)
(* says Up for ever and a client that is never replaced.                   *)
(*                                                                         *)
(* Abstractions.  An object is its kind and name; all that is told apart of*)
(* its body is the app label.  Credentials are numbered: a client made from*)
(* older ones is refused, a watch already open goes on.  Sleeps, and the   *)
(* backoff that sets their length, are left out.                           *)
(***************************************************************************)
EXTENDS Naturals, Sequences, FiniteSets

CONSTANTS
  Kinds, Names,    \* watched kinds, object names
  Owners,          \* values of the app label
  FirstOwner,      \* the app all objects belong to at first
  Absent,          \* the object does not exist, or has no app label
  ChannelCap,      \* places of an informer's broadcast channel
  ReconnectAfter,  \* HealthConfig::reconnect_after
  MaxFailures,     \* where consecutive_failures saturates, u32::MAX in the code
  MaxDisturbances  \* bound: changes of objects, and outages, rotations and broken watches

ASSUME LiveAssumption ==
  /\ ChannelCap \in Nat \ {0}
  /\ ReconnectAfter \in Nat \ {0}
  /\ MaxFailures \in Nat /\ MaxFailures >= ReconnectAfter
  /\ MaxDisturbances \in Nat
  /\ FirstOwner \in Owners /\ Absent \notin Owners

Objects == Kinds \X Names
KindOf(o) == o[1]

VARIABLES
  wiring,      \* "monitor" or "static"
  api,         \* the API server's objects: object -> app label
  reachable,   \* whether it answers
  cred,        \* number of the credentials it accepts
  probing,     \* the monitor loop is about to "probe" or to "reconnect"
  tracker,     \* Tracker: state and consecutive_failures
  client,      \* credentials the monitor's KubeClient was made from
  news,        \* kinds whose supervisor has not seen the latest health
  wasUp,       \* kind -> supervisor's last_state was Up
  session,     \* kind -> the watch session
  feed,        \* kind -> watch events the session has still to read
  chan,        \* kind -> InformerEvents the router has still to read
  subscribed,  \* kinds whose router has subscribed
  slots,       \* LiveStore: app -> objects
  disturbances,  \* bound
  \* History: objects another kind's resync removed, objects stored under a former
  \* label, objects an event of which was lost.
  wiped, moved, lost

monitorVars == <<probing, tracker, client>>
informerVars == <<news, wasUp, session, feed>>
storeVars == <<slots, wiped, moved>>
liveVars == <<wiring, api, reachable, cred, monitorVars, informerVars, chan, subscribed,
              storeVars, lost, disturbances>>

NoSession == [pc |-> "none", client |-> 0, buf |-> {}]
Labelled(k) == {o \in Objects : KindOf(o) = k /\ api[o] # Absent}
Objs(S) == {[object |-> o, app |-> api[o]] : o \in S}

LiveInit ==
  /\ wiring \in {"monitor", "static"}
  /\ api = [o \in Objects |-> FirstOwner]
  /\ reachable = TRUE /\ cred = 0 /\ client = 0
  /\ probing = "probe"
  /\ tracker = [state |-> IF wiring = "static" THEN "Up" ELSE "Unknown", failures |-> 0]
  /\ news = Kinds
  /\ wasUp = [k \in Kinds |-> FALSE]
  /\ session = [k \in Kinds |-> NoSession]
  /\ feed = [k \in Kinds |-> <<>>] /\ chan = [k \in Kinds |-> <<>>]
  /\ subscribed = {}
  /\ slots = [a \in Owners |-> {}]
  /\ disturbances = [objects |-> 0, connection |-> 0]
  /\ wiped = {} /\ moved = {} /\ lost = {}

(***************************************************************************)
(* The cluster.  A session that has listed its kind is told every later    *)
(* change; an object that loses its label leaves the watched selection,    *)
(* which a watch reports as a deletion of the former object.               *)
(***************************************************************************)
Disturb(sort) ==
  /\ disturbances[sort] < MaxDisturbances
  /\ disturbances' = [disturbances EXCEPT ![sort] = @ + 1]

Listed(k) == session[k].pc \in {"init", "watch"}

Change(o, a) ==
  LET k == KindOf(o)
      e == IF a = Absent THEN [type |-> "Deleted", object |-> o, app |-> api[o]]
           ELSE [type |-> "Applied", object |-> o, app |-> a]
  IN
  /\ Disturb("objects") /\ api[o] # a
  /\ api' = [api EXCEPT ![o] = a]
  /\ feed' = IF Listed(k) THEN [feed EXCEPT ![k] = Append(@, e)] ELSE feed
  /\ UNCHANGED <<wiring, reachable, cred, monitorVars, news, wasUp, session, chan,
                 subscribed, storeVars, lost>>

GoesDown ==
  /\ Disturb("connection") /\ reachable
  /\ reachable' = FALSE
  /\ UNCHANGED <<wiring, api, cred, monitorVars, informerVars, chan, subscribed,
                 storeVars, lost>>

ComesBack ==
  /\ ~reachable
  /\ reachable' = TRUE
  /\ UNCHANGED <<wiring, api, cred, monitorVars, informerVars, chan, subscribed,
                 storeVars, lost, disturbances>>

Rotate ==
  /\ Disturb("connection")
  /\ cred' = cred + 1
  /\ UNCHANGED <<wiring, api, reachable, monitorVars, informerVars, chan, subscribed,
                 storeVars, lost>>

Accepted(c) == reachable /\ c = cred

(***************************************************************************)
(* HealthMonitor: probe, publish, reconnect after every ReconnectAfter-th  *)
(* failure in a row.  watch::Sender::send marks the value unseen even when *)
(* it is the same.                                                         *)
(***************************************************************************)
RecordSuccess == [state |-> "Up", failures |-> 0]
RecordFailure ==
  LET prev == IF tracker.state = "Down" THEN tracker.failures ELSE 0 IN
  [state |-> "Down", failures |-> IF prev = MaxFailures THEN prev ELSE prev + 1]

\* mutant: reconnect only once the count has passed the threshold
ShouldReconnectLate(t) == t.state = "Down" /\ t.failures = MaxFailures + 1
ShouldReconnect(t) ==
  t.state = "Down" /\ t.failures > 0 /\ t.failures % ReconnectAfter = 0

Publish(t) ==
  /\ tracker' = t
  /\ news' = Kinds
  /\ probing' = IF ShouldReconnect(t) THEN "reconnect" ELSE "probe"
  /\ UNCHANGED <<wiring, api, reachable, cred, client, wasUp, session, feed, chan,
                 subscribed, storeVars, lost>>

Probe ==
  /\ wiring = "monitor" /\ probing = "probe"
  /\ Publish(IF Accepted(client) THEN RecordSuccess ELSE RecordFailure)
  /\ UNCHANGED disturbances

ProbeTimesOut ==
  /\ wiring = "monitor" /\ probing = "probe" /\ Disturb("connection")
  /\ Publish(RecordFailure)

\* KubeClient::connect reads the credentials again and asks the cluster nothing.
Reconnect ==
  /\ probing = "reconnect"
  /\ client' = cred
  /\ probing' = "probe"
  /\ UNCHANGED <<wiring, api, reachable, cred, tracker, informerVars, chan, subscribed,
                 storeVars, lost, disturbances>>

ReconnectFails ==
  /\ probing = "reconnect" /\ Disturb("connection")
  /\ probing' = "probe"
  /\ UNCHANGED <<wiring, api, reachable, cred, client, tracker, informerVars, chan,
                 subscribed, storeVars, lost>>

(***************************************************************************)
(* The supervisor of a kind: one round of its loop.                        *)
(***************************************************************************)
Supervise(k) ==
  LET isUp == tracker.state = "Up" IN
  /\ k \in news
  /\ news' = news \ {k}
  /\ wasUp' = [wasUp EXCEPT ![k] = isUp]
  /\ IF wasUp[k] = isUp THEN UNCHANGED <<session, feed>>
     ELSE /\ session' = [session EXCEPT ![k] =
               IF isUp THEN [NoSession EXCEPT !.pc = "start"] ELSE NoSession]
          /\ feed' = [feed EXCEPT ![k] = <<>>]
  /\ UNCHANGED <<wiring, api, reachable, cred, monitorVars, chan, subscribed,
                 storeVars, lost, disturbances>>

sessionUnchanged == <<wiring, api, reachable, cred, monitorVars, news, wasUp, subscribed,
                      storeVars>>

\* spawn_session: client_provider().await
SessionClient(k) ==
  /\ session[k].pc = "start"
  /\ session' = [session EXCEPT ![k].pc = "list", ![k].client = client]
  /\ UNCHANGED <<sessionUnchanged, feed, chan, lost, disturbances>>

\* The stream's Init and InitApply items: the list is buffered.
SessionList(k) ==
  /\ session[k].pc = "list" /\ Accepted(session[k].client)
  /\ session' = [session EXCEPT ![k].pc = "init", ![k].buf = Objs(Labelled(k))]
  /\ UNCHANGED <<sessionUnchanged, feed, chan, lost, disturbances>>

\* broadcast::Sender::send: nobody subscribed, or a full ring, loses an event.
Touched(e) == IF e.type = "Restarted" THEN {o \in Objects : KindOf(o) = e.kind} ELSE {e.object}
Send(k, e) ==
  IF k \notin subscribed
  THEN lost' = lost \cup Touched(e) /\ UNCHANGED chan
  ELSE IF Len(chan[k]) < ChannelCap
  THEN chan' = [chan EXCEPT ![k] = Append(@, e)] /\ UNCHANGED lost
  ELSE /\ chan' = [chan EXCEPT ![k] = Append(Tail(@), e)]
       /\ lost' = lost \cup Touched(Head(chan[k]))

SessionInitDone(k) ==
  /\ session[k].pc = "init" /\ reachable
  /\ Send(k, [type |-> "Restarted", kind |-> k, list |-> session[k].buf])
  /\ session' = [session EXCEPT ![k].pc = "watch", ![k].buf = {}]
  /\ UNCHANGED <<sessionUnchanged, feed, disturbances>>

SessionForward(k) ==
  /\ session[k].pc = "watch" /\ reachable /\ feed[k] # <<>>
  /\ Send(k, Head(feed[k]))
  /\ feed' = [feed EXCEPT ![k] = Tail(@)]
  /\ UNCHANGED <<sessionUnchanged, session, disturbances>>

\* Any Err of the stream ends the session, and the supervisor is not told.
SessionEnds(k) ==
  /\ session' = [session EXCEPT ![k] = [NoSession EXCEPT !.pc = "ended"]]
  /\ feed' = [feed EXCEPT ![k] = <<>>]
  /\ UNCHANGED <<sessionUnchanged, chan, lost>>

ListFails(k) ==
  /\ session[k].pc = "list" /\ ~Accepted(session[k].client)
  /\ SessionEnds(k)
  /\ UNCHANGED disturbances

WatchBreaks(k) ==
  /\ session[k].pc \in {"init", "watch"}
  /\ IF Accepted(session[k].client) THEN Disturb("connection") ELSE UNCHANGED disturbances
  /\ SessionEnds(k)

(***************************************************************************)
(* The router of a kind and LiveStoreUpdater::handle_event.                *)
(***************************************************************************)
RouterSubscribe(k) ==
  /\ k \notin subscribed
  /\ subscribed' = subscribed \cup {k}
  /\ UNCHANGED <<wiring, api, reachable, cred, monitorVars, informerVars, chan,
                 storeVars, lost, disturbances>>

Stored == UNION {slots[a] : a \in Owners}

UpsertOne(e) ==
  /\ slots' = [slots EXCEPT ![e.app] = @ \cup {e.object}]
  /\ moved' = IF \E a \in Owners \ {e.app} : e.object \in slots[a]
              THEN moved \cup {e.object} ELSE moved
  /\ wiped' = wiped \ {e.object}
  /\ UNCHANGED lost

\* mutant: a deletion of a labelled object is ignored
RemoveNone(e) == UNCHANGED <<slots, moved, wiped, lost>>
RemoveOne(e) ==
  /\ slots' = [slots EXCEPT ![e.app] = @ \ {e.object}]
  /\ UNCHANGED <<moved, wiped, lost>>

\* Clears every app of the cluster, whatever kinds it holds.
ReplaceAll(e) ==
  /\ slots' = [a \in Owners |-> {m.object : m \in {m \in e.list : m.app = a}}]
  /\ moved' = {}
  /\ wiped' = {o \in wiped \cup Stored \cup lost : KindOf(o) # e.kind}
  /\ lost' = {o \in lost : KindOf(o) # e.kind}

HandleEvent(k) ==
  LET e == Head(chan[k]) IN
  /\ chan[k] # <<>>
  /\ chan' = [chan EXCEPT ![k] = Tail(@)]
  /\ CASE e.type = "Applied" -> UpsertOne(e)
       [] e.type = "Deleted" -> RemoveOne(e)
       [] e.type = "Restarted" -> ReplaceAll(e)
  /\ UNCHANGED <<wiring, api, reachable, cred, monitorVars, informerVars, subscribed,
                 disturbances>>

Session(k) ==
  \/ SessionClient(k) \/ SessionList(k) \/ SessionInitDone(k) \/ SessionForward(k)
  \/ ListFails(k)

LiveNext ==
  \/ \E o \in Objects, a \in Owners \cup {Absent} : Change(o, a)
  \/ GoesDown \/ ComesBack \/ Rotate
  \/ Probe \/ ProbeTimesOut \/ Reconnect \/ ReconnectFails
  \/ \E k \in Kinds :
       \/ Supervise(k) \/ Session(k) \/ WatchBreaks(k)
       \/ RouterSubscribe(k) \/ HandleEvent(k)

LiveSpec == LiveInit /\ [][LiveNext]_liveVars

(***************************************************************************)
(* Tasks keep running and requests return; outages end.  A connection need *)
(* not break, and nobody has to change an object.                          *)
(***************************************************************************)
LiveFairness ==
  /\ WF_liveVars(Probe) /\ WF_liveVars(Reconnect) /\ WF_liveVars(ComesBack)
  /\ \A k \in Kinds :
       /\ WF_liveVars(Supervise(k)) /\ WF_liveVars(Session(k))
       /\ WF_liveVars(RouterSubscribe(k)) /\ WF_liveVars(HandleEvent(k))

-----------------------------------------------------------------------------
\* Every variable has the type of the state it stands for.
LiveTypeOK ==
  /\ wiring \in {"monitor", "static"} /\ api \in [Objects -> Owners \cup {Absent}]
  /\ reachable \in BOOLEAN /\ cred \in Nat /\ client \in 0 .. cred
  /\ probing \in {"probe", "reconnect"}
  /\ tracker \in [state : {"Unknown", "Up", "Down"}, failures : 0 .. MaxFailures]
  /\ news \subseteq Kinds /\ wasUp \in [Kinds -> BOOLEAN] /\ subscribed \subseteq Kinds
  /\ slots \in [Owners -> SUBSET Objects]
  /\ wiped \subseteq Objects /\ moved \subseteq Objects /\ lost \subseteq Objects

\* The routers have nothing left to do for kind k.
Settled(k) == session[k].pc = "watch" /\ feed[k] = <<>> /\ chan[k] = <<>>

\* Once a watched kind has settled, the store holds its objects under their apps and no
\* others, except for what a resync of another kind removed, what is left under a former
\* label, and what the channel lost (live_source.rs: "here is the world").
StoreTracksCluster ==
  \A o \in Objects : Settled(KindOf(o)) =>
    /\ api[o] # Absent => o \in slots[api[o]] \/ o \in wiped \cup lost
    /\ \A a \in Owners \ {api[o]} : o \in slots[a] => o \in moved \cup lost

\* "keeps the store in sync" (live_source.rs): once every kind has settled and no event was
\* lost, the store holds the labelled objects of the cluster.
StoreInSync ==
  (\A k \in Kinds : Settled(k)) /\ lost = {} =>
    slots = [a \in Owners |-> {o \in Objects : api[o] = a}]

\* "On Down->Up transitions, tears down the session and starts a fresh one": when the
\* cluster is well again every kind has a watch, be it one opened before the credentials were
\* rotated, except kinds whose session broke while the supervisor saw Up all the time, which
\* nothing restarts.
SessionsRecover ==
  <>[](\A k \in Kinds : session[k].pc = "watch" \/ (session[k].pc = "ended" /\ wasUp[k]))

\* A monitor always ends up with a client the cluster accepts and says so.
MonitorRecovers ==
  <>[](wiring = "monitor" => tracker.state = "Up" /\ client = cred)
=============================================================================
