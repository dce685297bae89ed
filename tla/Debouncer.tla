----------------------------- MODULE Debouncer -----------------------------
(***************************************************************************)
(* The trailing debouncer in front of the worker pool (debounce.rs).       *)
(*                                                                         *)
(* Every event bumps its app's generation and spawns a timer task that     *)
(* sleeps for Window and then fires only if the entry still carries its    *)
(* generation; flush_now drains all entries at once.  Both take an entry   *)
(* out under the lock and call the pool after unlocking, so the hand-over  *)
(* is a step of its own.  The pool is the SerialScheduler that WorkerPool  *)
(* implements: all a caller sees of it is whether the app is scheduled.    *)
(*                                                                         *)
(* A sleep ends no earlier than its deadline and possibly later.  `last`   *)
(* and `era` are history: the code has no such fields.                     *)
(***************************************************************************)
EXTENDS Naturals, Sequences, FiniteSets

CONSTANTS
  Apps, Triggers,
  Window,         \* DebounceConfig::window, in clock ticks
  MaxConcurrent, PerAppQueueCap,   \* the pool's configuration
  None,           \* no entry in the map
  MaxEvents,      \* bound: Debouncer::enqueue calls
  MaxFlushes,     \* bound: flush_now calls
  MaxTime         \* bound: clock ticks

ASSUME DebounceAssumption ==
  /\ Window \in Nat /\ MaxEvents \in Nat /\ MaxFlushes \in Nat /\ MaxTime \in Nat
  /\ MaxConcurrent \in Nat \ {0} /\ PerAppQueueCap \in Nat \ {0}
  /\ None \notin [trigger : Triggers, generation : Nat]
  /\ IsFiniteSet(Apps)

VARIABLES
  pending,      \* app -> PendingEntry, or None
  timers,       \* spawned timer tasks that are still asleep
  handoff,      \* entries taken out of pending, enqueue_coalesce still owed
  accepted, fired,                 \* struct Counters
  now,          \* the clock
  flushes,      \* flush_now calls so far
  queued, active, closed, jobs,    \* the worker pool
  last,         \* time of the app's latest event
  era           \* how often the app's entry has been taken out of pending

poolVars == <<queued, active, closed, jobs>>
history == <<last, era>>
vars == <<pending, timers, handoff, accepted, fired, now, flushes, poolVars, history>>

Pool == INSTANCE SerialScheduler WITH
  pending <- queued, accepted <- jobs

PendingEntry == [trigger : Triggers, generation : Nat]
Timer == [app : Apps, generation : Nat, due : Nat, era : Nat, id : Nat]
Handoff == [app : Apps, trigger : Triggers, id : Nat]

Init ==
  /\ pending = [a \in Apps |-> None]
  /\ timers = {}
  /\ handoff = {}
  /\ accepted = 0 /\ fired = 0
  /\ now = 0
  /\ flushes = 0
  /\ Pool!Init
  /\ last = [a \in Apps |-> 0]
  /\ era = [a \in Apps |-> 0]

\* mutant: the generation is not bumped when the entry exists already
NextGenerationStuck(a) == 1
\* or_insert(generation 0) followed by += 1
NextGeneration(a) == IF pending[a] = None THEN 1 ELSE pending[a].generation + 1

\* Debouncer::enqueue.  The second bound leaves time for every timer to end.
Enqueue(a, trigger) ==
  /\ accepted < MaxEvents
  /\ now + Window <= MaxTime
  /\ accepted' = accepted + 1
  /\ pending' = [pending EXCEPT ![a] =
       [trigger |-> trigger, generation |-> NextGeneration(a)]]
  /\ timers' = timers \cup
       {[app |-> a, generation |-> NextGeneration(a), due |-> now + Window,
         era |-> era[a], id |-> accepted']}
  /\ last' = [last EXCEPT ![a] = now]
  /\ UNCHANGED <<handoff, fired, now, flushes, poolVars, era>>

\* mutant: a timer fires whatever generation the entry has
AnyGeneration(t) == pending[t.app] # None
Current(t) == pending[t.app] # None /\ pending[t.app].generation = t.generation

\* mutant: the entry stays in the map when its timer fires
TimerFiresKeeping(t) ==
  /\ t \in timers /\ t.due <= now
  /\ Current(t)
  /\ timers' = timers \ {t}
  /\ handoff' = handoff \cup
       {[app |-> t.app, trigger |-> pending[t.app].trigger, id |-> t.id]}
  /\ UNCHANGED <<pending, accepted, fired, now, flushes, poolVars, history>>

\* A timer wakes in fire_if_current and its entry is still its own.
TimerFires(t) ==
  /\ t \in timers /\ t.due <= now
  /\ Current(t)
  /\ timers' = timers \ {t}
  /\ pending' = [pending EXCEPT ![t.app] = None]
  /\ handoff' = handoff \cup
       {[app |-> t.app, trigger |-> pending[t.app].trigger, id |-> t.id]}
  /\ era' = [era EXCEPT ![t.app] = @ + 1]
  /\ UNCHANGED <<accepted, fired, now, flushes, poolVars, last>>

\* A timer wakes and finds its entry gone or a newer generation in it.
TimerStale(t) ==
  /\ t \in timers /\ t.due <= now
  /\ ~Current(t)
  /\ timers' = timers \ {t}
  /\ UNCHANGED <<pending, handoff, accepted, fired, now, flushes, poolVars, history>>

Pending == {a \in Apps : pending[a] # None}

\* flush_now: the whole map is drained under one lock.  A drained entry is named
\* by the call, beyond the events' numbers.
FlushNow ==
  /\ flushes < MaxFlushes
  /\ flushes' = flushes + 1
  /\ pending' = [a \in Apps |-> None]
  /\ handoff' = handoff \cup
       {[app |-> a, trigger |-> pending[a].trigger, id |-> MaxEvents + flushes'] :
          a \in Pending}
  /\ era' = [a \in Apps |-> IF a \in Pending THEN era[a] + 1 ELSE era[a]]
  /\ UNCHANGED <<timers, accepted, fired, now, poolVars, last>>

\* PoolHandle::enqueue_coalesce as its callers see it.
Scheduled(a) == queued[a] # <<>> \/ \E j \in active : j.app = a

EnqueueCoalesce(a) ==
  IF closed \/ Scheduled(a) THEN UNCHANGED poolVars ELSE Pool!Accept(a)

\* mutant: the entry is dropped without a call to the pool
HandOverDropped(h) ==
  /\ h \in handoff
  /\ handoff' = handoff \ {h}
  /\ fired' = fired + 1
  /\ UNCHANGED <<pending, timers, accepted, now, flushes, poolVars, history>>

\* The tail of fire_if_current and the loop body of flush_now: count, then call.
HandOver(h) ==
  /\ h \in handoff
  /\ handoff' = handoff \ {h}
  /\ fired' = fired + 1
  /\ EnqueueCoalesce(h.app)
  /\ UNCHANGED <<pending, timers, accepted, now, flushes, history>>

\* The pool moves on its own: jobs start and finish, and it may be shut down.
PoolStep ==
  /\ \/ \E a \in Apps : Pool!Start(a)
     \/ \E j \in active : Pool!Finish(j)
     \/ Pool!Close
  /\ UNCHANGED <<pending, timers, handoff, accepted, fired, now, flushes, history>>

Tick ==
  /\ now < MaxTime
  /\ now' = now + 1
  /\ UNCHANGED <<pending, timers, handoff, accepted, fired, flushes, poolVars, history>>

Next ==
  \/ \E a \in Apps, trigger \in Triggers : Enqueue(a, trigger)
  \/ \E t \in timers : TimerFires(t) \/ TimerStale(t)
  \/ FlushNow
  \/ \E h \in handoff : HandOver(h)
  \/ PoolStep
  \/ Tick

Spec == Init /\ [][Next]_vars

(***************************************************************************)
(* Fairness: the runtime wakes a timer whose deadline has passed and runs  *)
(* what follows; time passes.  Nobody is obliged to send events.           *)
(***************************************************************************)
Fairness ==
  /\ WF_vars(\E t \in timers : TimerFires(t) \/ TimerStale(t))
  /\ WF_vars(\E h \in handoff : HandOver(h))
  /\ WF_vars(Tick)

FairSpec == Spec /\ Fairness

-----------------------------------------------------------------------------
\* Every variable has the type of the field it stands for.
TypeOK ==
  /\ pending \in [Apps -> PendingEntry \cup {None}]
  /\ timers \subseteq Timer
  /\ handoff \subseteq Handoff
  /\ accepted \in Nat /\ fired \in Nat
  /\ now \in Nat /\ flushes \in Nat
  /\ queued \in [Apps -> Seq(Nat)]
  /\ active \subseteq Pool!Job
  /\ closed \in BOOLEAN /\ jobs \in Nat
  /\ last \in [Apps -> Nat]
  /\ era \in [Apps -> Nat]

\* No burst is stranded: an entry waits only while a timer that will match its
\* generation is asleep, whatever superseded timers and flushes did before.
NoStrandedBurst ==
  \A a \in Pending : \E t \in timers :
    t.app = a /\ t.generation = pending[a].generation /\ t.due <= last[a] + Window

\* Within one life of an entry the generation does its job: the only timer that
\* can take the entry out is the one the latest event armed, so that the app has
\* been quiet for Window when it does.
QuietWithinEra ==
  \A t \in timers :
    (t.era = era[t.app] /\ Current(t)) => t.due = last[t.app] + Window

\* Every hand-over takes one entry out of the map, and every entry had an event:
\* a burst never fires more often than it has events, two timers and a flush
\* racing for the same entry included.
OneFirePerBurst == fired + Cardinality(handoff) + Cardinality(Pending) <= accepted

\* An event is never forgotten: its app ends up scheduled in the pool, by this
\* event or by a job that was there already, unless the pool is closed.
EventReachesPool ==
  \A a \in Apps : (pending[a] # None) ~> (Scheduled(a) \/ closed)

\* "the reconcile will be enqueued onto the pool after DebounceConfig::window of
\* quiet" (enqueue) and "superseded timers just no-op when they wake" (header):
\* a timer that takes an entry out finds its app quiet for the whole window.
FiresAfterQuiet ==
  [][\A t \in timers : TimerFires(t) => now >= last[t.app] + Window]_vars
=============================================================================
