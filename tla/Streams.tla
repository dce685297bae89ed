------------------------------ MODULE Streams -------------------------------
(***************************************************************************)
(* What leaves the server about an app: the event bus (core/events.rs) as  *)
(* its two outward consumers see it, AppWatcher with the SSE handler       *)
(* (api/watch.rs) and the outcome Notifier (synchrotron-notifier).         *)
(*                                                                         *)
(* Bus events are numbered by their place in `published`; a receiver is the*)
(* number of the next event it will read, and one that is more than BusCap *)
(* behind is moved to the oldest event kept.  Watch events are numbered by *)
(* next_id, so the ids appended are 1 .. Len(watched) and the ids sent a   *)
(* prefix of them.  The sink of the notifier and the SSE clients are       *)
(* external.                                                               *)
(***************************************************************************)
EXTENDS Naturals, Sequences, FiniteSets

CONSTANTS
  StreamApps,     \* apps that exist; events name one of them
  NotifyApps,     \* the apps ConfigSource::lookup has a configuration for
  Clients,        \* SSE clients
  BusCap,         \* capacity of the event bus
  WatchCap,       \* capacity of AppWatcher's broadcast channel
  PerAppCap,      \* per_app_capacity: replay window of an app
  MaxDeliveries,  \* NotificationConfig::max_attempts
  MaxEvents,      \* bound: events published
  MaxReconnects   \* bound: disconnections of clients and restarts of the server

ASSUME StreamsAssumption ==
  /\ NotifyApps \subseteq StreamApps
  /\ {BusCap, WatchCap, PerAppCap, MaxDeliveries} \subseteq Nat \ {0}
  /\ MaxEvents \in Nat /\ MaxReconnects \in Nat

VARIABLES
  published,   \* bus events: the app they name and their kind
  fanNext,     \* fan-in task's receiver
  watched,     \* the app of each watch event, by id
  sentTop,     \* watch events sent so far
  watchLog,    \* app -> ids in its replay buffer, oldest first
  client,      \* client -> where its connection is
  got,         \* client -> ids it received on this connection, in order
  excused,     \* history: client -> ids lost for a reason the code documents
  notNext,     \* notifier's receiver
  posting,     \* event being delivered and the attempt, or NoPost
  sinkGot,     \* events the sink took, in order
  settled,     \* history: events delivered or given up
  overrun,     \* history: events the notifier's receiver lagged past
  reconnects

streamVars == <<published, fanNext, watched, sentTop, watchLog, client, got, excused,
                notNext, posting, sinkGot, settled, overrun, reconnects>>
watcherVars == <<fanNext, watched, sentTop, watchLog>>
clientVars == <<client, got, excused>>
notifierVars == <<notNext, posting, sinkGot, settled, overrun>>

NoPost == [evt |-> 0, attempt |-> 0]
Offline == [pc |-> "off", app |-> "none", since |-> 0, top |-> 0, backlog |-> <<>>, next |-> 0]

\* SystemEvent: an outcome or another event of one app, or one of a repository.
BusEvents == [app : StreamApps, kind : {"outcome", "app"}] \cup {[app |-> "none", kind |-> "repo"]}

StreamsInit ==
  /\ published = <<>> /\ fanNext = 1 /\ watched = <<>> /\ sentTop = 0
  /\ watchLog = [a \in StreamApps |-> <<>>]
  /\ client = [c \in Clients |-> Offline] /\ got = [c \in Clients |-> <<>>]
  /\ excused = [c \in Clients |-> {}]
  /\ notNext = 1 /\ posting = NoPost /\ sinkGot = <<>> /\ settled = {} /\ overrun = {}
  /\ reconnects = 0

\* broadcast::Receiver::recv: the next event a receiver reads, lagging included.
Recv(next, top, cap) == IF next + cap <= top THEN top - cap + 1 ELSE next

EventPublish(e) ==
  /\ Len(published) < MaxEvents
  /\ published' = Append(published, e)
  /\ UNCHANGED <<watcherVars, clientVars, notifierVars, reconnects>>

(***************************************************************************)
(* AppWatcher's fan-in task: convert_event takes an id, append stores it in*)
(* the app's buffer, then the event is sent.                               *)
(***************************************************************************)
\* Inner::append: drop the oldest on overflow.
AppendWatch(log, id) ==
  LET all == Append(log, id)
  IN SubSeq(all, IF Len(all) > PerAppCap THEN Len(all) - PerAppCap + 1 ELSE 1, Len(all))

FanInAppend ==
  LET n == Recv(fanNext, Len(published), BusCap)
  IN /\ fanNext <= Len(published) /\ sentTop = Len(watched)
     /\ fanNext' = n + 1
     /\ IF published[n].kind = "repo"
        THEN UNCHANGED <<watched, watchLog>>
        ELSE /\ watched' = Append(watched, published[n].app)
             /\ watchLog' = [watchLog EXCEPT ![published[n].app]
                               = AppendWatch(@, Len(watched) + 1)]
     /\ UNCHANGED <<published, sentTop, clientVars, notifierVars, reconnects>>

FanInSend ==
  /\ sentTop < Len(watched)
  /\ sentTop' = sentTop + 1
  /\ UNCHANGED <<published, fanNext, watched, watchLog, clientVars, notifierVars, reconnects>>

\* mutant: replay skips one id too many
ReplayOffByOne(a, since) ==
  LET kept == {i \in DOMAIN watchLog[a] : watchLog[a][i] > since + 1}
  IN SubSeq(watchLog[a], Len(watchLog[a]) - Cardinality(kept) + 1, Len(watchLog[a]))

(***************************************************************************)
(* watch_app: replay the buffer from Last-Event-ID on, subscribe, yield the*)
(* backlog, then forward what the channel brings.                          *)
(***************************************************************************)
\* AppWatcher::replay.  Ids ascend in a buffer, so those the filter keeps are its last ones.
Replay(a, since) ==
  LET kept == {i \in DOMAIN watchLog[a] : watchLog[a][i] > since}
  IN SubSeq(watchLog[a], Len(watchLog[a]) - Cardinality(kept) + 1, Len(watchLog[a]))

\* Watch events of a that follow id `since`.
EventsAfter(a, since) == {i \in 1 .. Len(watched) : watched[i] = a /\ i > since}

\* Those that fell out of the replay window.
FellOut(a, since) ==
  {i \in EventsAfter(a, since) : Cardinality(EventsAfter(a, i)) >= PerAppCap}

\* Last-Event-ID is whatever the client saw last, on any connection.
WatchOpen(c, a) ==
  LET since == client[c].since
  IN /\ client[c].pc = "off"
     /\ client' = [client EXCEPT ![c] = [Offline EXCEPT !.pc = "replayed", !.app = a,
                                           !.since = since, !.top = Len(watched),
                                           !.backlog = Replay(a, since)]]
     /\ got' = [got EXCEPT ![c] = <<>>]
     /\ excused' = [excused EXCEPT ![c] = FellOut(a, since)]
     /\ UNCHANGED <<published, watcherVars, notifierVars, reconnects>>

\* An event appended after the replay and sent before this is in neither.
WatchSubscribe(c) ==
  /\ client[c].pc = "replayed"
  /\ client' = [client EXCEPT ![c].pc = "live", ![c].next = sentTop + 1]
  /\ excused' = [excused EXCEPT ![c] = @ \cup (client[c].top + 1 .. sentTop)]
  /\ UNCHANGED <<published, watcherVars, got, notifierVars, reconnects>>

WatchBacklog(c) ==
  /\ client[c].pc = "live" /\ client[c].backlog # <<>>
  /\ got' = [got EXCEPT ![c] = Append(@, Head(client[c].backlog))]
  /\ client' = [client EXCEPT ![c].backlog = Tail(@)]
  /\ UNCHANGED <<published, watcherVars, excused, notifierVars, reconnects>>

WatchRecv(c) ==
  LET n == Recv(client[c].next, sentTop, WatchCap)
  IN /\ client[c].pc = "live" /\ client[c].backlog = <<>> /\ client[c].next <= sentTop
     /\ client' = [client EXCEPT ![c].next = n + 1]
     /\ got' = [got EXCEPT ![c] = IF watched[n] = client[c].app THEN Append(@, n) ELSE @]
     /\ excused' = [excused EXCEPT ![c] = @ \cup (client[c].next .. n - 1)]
     /\ UNCHANGED <<published, watcherVars, notifierVars, reconnects>>

\* The id the client will send as Last-Event-ID.
LastSeen(c) == IF got[c] = <<>> THEN client[c].since ELSE got[c][Len(got[c])]

WatchDrop(c) ==
  /\ client[c].pc # "off" /\ reconnects < MaxReconnects
  /\ client' = [client EXCEPT ![c] = [Offline EXCEPT !.since = LastSeen(c)]]
  /\ reconnects' = reconnects + 1
  /\ UNCHANGED <<published, watcherVars, got, excused, notifierVars>>

(***************************************************************************)
(* Notifier::run and deliver.  A post reaches the sink or does not, and its*)
(* answer is a success, a client error, or anything else (a 5xx, a lost    *)
(* answer): only the last is retried, after a sleep.                       *)
(***************************************************************************)
Wanted(n) == published[n].kind = "outcome" /\ published[n].app \in NotifyApps

NotifierTake ==
  LET n == Recv(notNext, Len(published), BusCap)
  IN /\ posting = NoPost /\ notNext <= Len(published)
     /\ notNext' = n + 1
     /\ posting' = IF Wanted(n) THEN [evt |-> n, attempt |-> 1] ELSE NoPost
     /\ overrun' = overrun \cup (notNext .. n - 1)
     /\ UNCHANGED <<published, watcherVars, clientVars, sinkGot, settled, reconnects>>

\* mutant: one attempt more than max_attempts
SettlesLate(answer) == answer # "transient" \/ posting.attempt > MaxDeliveries

\* The attempt that was the last one settles the event whatever its answer.
Settles(answer) == answer # "transient" \/ posting.attempt = MaxDeliveries

NotifierPost(reached, answer) ==
  /\ posting # NoPost
  /\ answer # "transient" => reached
  /\ sinkGot' = IF reached /\ answer # "refused" THEN Append(sinkGot, posting.evt) ELSE sinkGot
  /\ posting' = IF Settles(answer) THEN NoPost ELSE [posting EXCEPT !.attempt = @ + 1]
  /\ settled' = IF Settles(answer) THEN settled \cup {posting.evt} ELSE settled
  /\ UNCHANGED <<published, watcherVars, clientVars, notNext, overrun, reconnects>>

(***************************************************************************)
(* A restart of the server: the bus, the watcher and the notifier start    *)
(* again, ids from 1, and clients come back with the id they saw last.     *)
(***************************************************************************)
StreamsRestart ==
  /\ reconnects < MaxReconnects /\ published # <<>>
  /\ reconnects' = reconnects + 1
  /\ published' = <<>> /\ fanNext' = 1 /\ watched' = <<>> /\ sentTop' = 0
  /\ watchLog' = [a \in StreamApps |-> <<>>]
  /\ client' = [c \in Clients |-> [Offline EXCEPT !.since = LastSeen(c)]]
  /\ notNext' = 1 /\ posting' = NoPost /\ sinkGot' = <<>> /\ settled' = {} /\ overrun' = {}
  /\ got' = [c \in Clients |-> <<>>] /\ excused' = [c \in Clients |-> {}]

StreamsNext ==
  \/ \E e \in BusEvents : EventPublish(e)
  \/ FanInAppend \/ FanInSend
  \/ \E c \in Clients : \/ \E a \in StreamApps : WatchOpen(c, a)
                        \/ WatchSubscribe(c) \/ WatchBacklog(c) \/ WatchRecv(c) \/ WatchDrop(c)
  \/ NotifierTake
  \/ \E reached \in BOOLEAN, answer \in {"taken", "refused", "transient"} :
       NotifierPost(reached, answer)
  \/ StreamsRestart

StreamsSpec == StreamsInit /\ [][StreamsNext]_streamVars

(***************************************************************************)
(* Properties.                                                             *)
(***************************************************************************)
NonDecreasing(s) == \A i, j \in DOMAIN s : i <= j => s[i] <= s[j]

\* A connected client gets its app's events in order (api/watch.rs): the ids
\* never go back, the only id that can come twice is one that was appended
\* but not yet sent when the client replayed, and every event after
\* Last-Event-ID and before its place in the channel has come, is in the
\* backlog, or was lost for one of three reasons: it had left the replay
\* window, the receiver lagged, or it was both appended and sent between the
\* replay and the subscription.
WatchGapless ==
  \A c \in Clients : client[c].pc = "live" =>
    LET stream == got[c] \o client[c].backlog
    IN /\ NonDecreasing(stream)
       /\ \A i, j \in DOMAIN stream : i < j /\ stream[i] = stream[j] => stream[i] = client[c].top
       /\ \A id \in EventsAfter(client[c].app, client[c].since) :
            id < client[c].next => \/ \E i \in DOMAIN stream : stream[i] = id
                                   \/ id \in excused[c]

\* "on reconnect we replay every buffered event with `id > last_event_id` before switching to
\* live broadcast" (api/watch.rs): as long as every buffer holds all there is, a client that
\* comes back misses nothing.
ReplayThenLive ==
  \A c \in Clients :
    LET stream == got[c] \o client[c].backlog IN
    /\ client[c].pc = "live" /\ client[c].since > 0
    /\ \A cap \in {BusCap, WatchCap, PerAppCap} : Len(published) <= cap
    => \A id \in EventsAfter(client[c].app, client[c].since) :
         id < client[c].next => \E i \in DOMAIN stream : stream[i] = id

\* The notifier delivers outcomes in the order they were published, posts
\* each at most max_attempts times, and settles every outcome it is
\* configured for before it reads on, except those its receiver lagged past
\* while an earlier delivery was being retried (notifier/src/lib.rs).
NotifiedInOrder ==
  /\ NonDecreasing(sinkGot)
  /\ \A n \in 1 .. Len(published) :
       Cardinality({i \in DOMAIN sinkGot : sinkGot[i] = n}) <= MaxDeliveries
  /\ \A n \in 1 .. notNext - 1 :
       Wanted(n) => n \in settled \cup overrun \/ n = posting.evt
=============================================================================
