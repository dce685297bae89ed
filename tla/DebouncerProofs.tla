-------------------------- MODULE DebouncerProofs --------------------------
(***************************************************************************)
(* Proofs about Debouncer for every set of apps and triggers, every window *)
(* and every number of events and flushes.                                 *)
(***************************************************************************)
EXTENDS Debouncer, FiniteSetTheorems, TLAPS

\* The timers armed in the current life of an entry carry its generations in
\* order, and only the latest of them is due Window after the latest event.
GenerationsGrow ==
  \A t \in timers :
    /\ t.era <= era[t.app]
    /\ t.era = era[t.app] =>
         /\ pending[t.app] # None
         /\ t.generation <= pending[t.app].generation
         /\ t.generation = pending[t.app].generation => t.due = last[t.app] + Window

FiniteHandoff == IsFiniteSet(handoff)

DebounceInv ==
  /\ TypeOK
  /\ NoStrandedBurst
  /\ GenerationsGrow
  /\ FiniteHandoff
  /\ OneFirePerBurst

-----------------------------------------------------------------------------
LEMMA InitEstablishes == Init => DebounceInv
  <1> SUFFICES ASSUME Init PROVE DebounceInv
    OBVIOUS
  <1> USE DebounceAssumption
  <1>1. TypeOK
    <2>1. queued = [a \in Apps |-> <<>>] /\ active = {} /\ closed = FALSE /\ jobs = 0
      BY DEF Init, Pool!Init
    <2>2. queued \in [Apps -> Seq(Nat)]
      BY <2>1
    <2> QED
      BY <2>1, <2>2 DEF Init, TypeOK
  <1>2. Pending = {}
    BY DEF Init, Pending
  <1>3. NoStrandedBurst /\ GenerationsGrow
    BY <1>2 DEF Init, NoStrandedBurst, GenerationsGrow
  <1>4. FiniteHandoff
    BY FS_EmptySet DEF Init, FiniteHandoff
  <1>5. OneFirePerBurst
    BY <1>2, FS_EmptySet DEF Init, OneFirePerBurst
  <1> QED
    BY <1>1, <1>3, <1>4, <1>5 DEF DebounceInv

LEMMA PendingFinite == IsFiniteSet(Pending)
  <1>1. Pending \subseteq Apps
    BY DEF Pending
  <1> QED
    BY <1>1, FS_Subset, DebounceAssumption

(* What an entry of the map is.                                            *)
LEMMA EntryTyped ==
  ASSUME TypeOK, NEW a \in Pending
  PROVE  a \in Apps /\ pending[a] \in PendingEntry
  BY DEF TypeOK, Pending

-----------------------------------------------------------------------------
(* The pool's own steps, and a call of enqueue_coalesce, keep its types.   *)
LEMMA PoolTyped ==
  ASSUME TypeOK,
         \/ UNCHANGED poolVars
         \/ \E a \in Apps : Pool!Accept(a) \/ Pool!Start(a)
         \/ \E j \in active : Pool!Finish(j)
         \/ Pool!Close
  PROVE  /\ queued' \in [Apps -> Seq(Nat)]
         /\ active' \subseteq Pool!Job
         /\ closed' \in BOOLEAN /\ jobs' \in Nat
  <1>1. CASE UNCHANGED poolVars
    BY <1>1 DEF TypeOK, poolVars
  <1>2. ASSUME NEW a \in Apps, Pool!Accept(a)
        PROVE  /\ queued' \in [Apps -> Seq(Nat)] /\ active' = active /\ closed' = closed
               /\ jobs' \in Nat
    <2>1. jobs' \in Nat /\ queued[a] \in Seq(Nat)
      BY <1>2 DEF TypeOK, Pool!Accept
    <2>2. Append(queued[a], jobs') \in Seq(Nat)
      BY <2>1
    <2> QED
      BY <1>2, <2>1, <2>2 DEF TypeOK, Pool!Accept
  <1>3. ASSUME NEW a \in Apps, Pool!Start(a)
        PROVE  /\ queued' \in [Apps -> Seq(Nat)] /\ active' \subseteq Pool!Job
               /\ closed' = closed /\ jobs' = jobs
    <2>1. queued[a] \in Seq(Nat) /\ queued[a] # <<>>
      BY <1>3 DEF TypeOK, Pool!Start
    <2>2. Tail(queued[a]) \in Seq(Nat) /\ Head(queued[a]) \in Nat
      BY <2>1
    <2>3. [app |-> a, job |-> Head(queued[a])] \in Pool!Job
      BY <2>2 DEF Pool!Job
    <2> QED
      BY <1>3, <2>2, <2>3 DEF TypeOK, Pool!Start
  <1>4. ASSUME NEW j \in active, Pool!Finish(j)
        PROVE  /\ queued' = queued /\ active' \subseteq Pool!Job
               /\ closed' = closed /\ jobs' = jobs
    BY <1>4 DEF TypeOK, Pool!Finish
  <1>5. CASE Pool!Close
    BY <1>5 DEF TypeOK, Pool!Close
  <1> QED
    BY <1>1, <1>2, <1>3, <1>4, <1>5 DEF TypeOK

-----------------------------------------------------------------------------
(* Debouncer::enqueue.                                                     *)
LEMMA EnqueuePreserves ==
  ASSUME DebounceInv, NEW a \in Apps, NEW trigger \in Triggers, Enqueue(a, trigger)
  PROVE  DebounceInv'
  <1> USE DebounceAssumption
  <1> DEFINE g == NextGeneration(a)
             e == [trigger |-> trigger, generation |-> g]
             t0 == [app |-> a, generation |-> g, due |-> now + Window,
                    era |-> era[a], id |-> accepted']
  <1>1. TypeOK /\ NoStrandedBurst /\ GenerationsGrow /\ FiniteHandoff
          /\ OneFirePerBurst
    BY DEF DebounceInv
  <1>2. /\ pending' = [pending EXCEPT ![a] = e] /\ timers' = timers \cup {t0}
        /\ accepted' = accepted + 1 /\ last' = [last EXCEPT ![a] = now]
        /\ UNCHANGED <<handoff, fired, now, flushes, queued, active, closed, jobs, era>>
    BY DEF Enqueue, poolVars
  <1>3. g \in Nat /\ e \in PendingEntry /\ e # None
    <2>1. CASE pending[a] = None
      BY <2>1 DEF NextGeneration, PendingEntry
    <2>2. CASE pending[a] # None
      BY <2>2, <1>1 DEF NextGeneration, PendingEntry, TypeOK
    <2> QED
      BY <2>1, <2>2
  <1>4. t0 \in Timer
    BY <1>1, <1>2, <1>3 DEF TypeOK, Timer
  <1>5. TypeOK'
    <2>1. pending' \in [Apps -> PendingEntry \cup {None}] /\ timers' \subseteq Timer
      BY <1>1, <1>2, <1>3, <1>4 DEF TypeOK
    <2>2. last' \in [Apps -> Nat]
      BY <1>1, <1>2 DEF TypeOK
    <2>3. accepted' \in Nat
      BY <1>1, <1>2 DEF TypeOK
    <2> QED
      BY <1>1, <1>2, <2>1, <2>2, <2>3 DEF TypeOK
  <1>6. Pending' = Pending \cup {a}
    BY <1>1, <1>2, <1>3 DEF Pending, TypeOK
  <1>7. NoStrandedBurst'
    <2> SUFFICES ASSUME NEW b \in Pending'
                 PROVE  \E t \in timers' : t.app = b /\ t.generation = pending'[b].generation
                                             /\ t.due <= last'[b] + Window
      BY DEF NoStrandedBurst
    <2>1. CASE b = a
      <3>1. pending'[a] = e /\ last'[a] = now /\ now + Window \in Nat
        BY <1>1, <1>2 DEF TypeOK
      <3>2. t0 \in timers' /\ t0.app = a /\ t0.generation = e.generation
              /\ t0.due = now + Window
        BY <1>2
      <3> QED
        BY <2>1, <3>1, <3>2
    <2>2. CASE b # a
      BY <2>2, <1>1, <1>2, <1>6 DEF NoStrandedBurst, TypeOK, Pending
    <2> QED
      BY <2>1, <2>2
  <1>8. GenerationsGrow'
    <2> SUFFICES ASSUME NEW t \in timers'
                 PROVE  /\ t.era <= era'[t.app]
                        /\ t.era = era'[t.app] =>
                             /\ pending'[t.app] # None
                             /\ t.generation <= pending'[t.app].generation
                             /\ t.generation = pending'[t.app].generation
                                  => t.due = last'[t.app] + Window
      BY DEF GenerationsGrow
    <2>1. CASE t = t0
      BY <2>1, <1>1, <1>2, <1>3 DEF TypeOK
    <2>2. CASE t \in timers /\ t.app # a
      BY <2>2, <1>1, <1>2 DEF GenerationsGrow, TypeOK, Timer
    <2>3. CASE t \in timers /\ t.app = a
      <3>1. t.era <= era'[a]
        BY <2>3, <1>1, <1>2 DEF GenerationsGrow
      <3>2. ASSUME t.era = era[a]
            PROVE  t.generation < g
        <4>1. pending[a] # None /\ t.generation <= pending[a].generation
          BY <2>3, <3>2, <1>1 DEF GenerationsGrow
        <4>2. g = pending[a].generation + 1 /\ pending[a].generation \in Nat /\ t.generation \in Nat
          BY <4>1, <2>3, <1>1 DEF NextGeneration, TypeOK, PendingEntry, Timer
        <4> QED
          BY <4>1, <4>2
      <3>3. pending'[a] = e /\ t.generation \in Nat
        BY <2>3, <1>1, <1>2 DEF TypeOK, Timer
      <3> QED
        BY <2>3, <3>1, <3>2, <3>3, <1>2, <1>3
    <2> QED
      BY <2>1, <2>2, <2>3, <1>2
  <1>10. FiniteHandoff'
    BY <1>1, <1>2 DEF FiniteHandoff
  <1>11. OneFirePerBurst'
    <2>1. Cardinality(Pending) \in Nat
          /\ Cardinality(Pending') \in {Cardinality(Pending), Cardinality(Pending) + 1}
      <3>1. Cardinality(Pending) \in Nat
        BY PendingFinite, FS_CardinalityType
      <3>2. Cardinality(Pending \cup {a})
              \in {Cardinality(Pending), Cardinality(Pending) + 1}
        BY PendingFinite, FS_AddElement
      <3> QED
        BY <1>6, <3>1, <3>2
    <2>2. Cardinality(handoff') = Cardinality(handoff) /\ Cardinality(handoff) \in Nat
      BY <1>1, <1>2, FS_CardinalityType DEF FiniteHandoff
    <2>3. fired' = fired /\ fired \in Nat /\ accepted \in Nat /\ accepted' = accepted + 1
      BY <1>1, <1>2 DEF TypeOK
    <2>4. fired + Cardinality(handoff) + Cardinality(Pending) <= accepted
      BY <1>1 DEF OneFirePerBurst
    <2>5. fired' + Cardinality(handoff') + Cardinality(Pending') <= accepted'
      BY <2>1, <2>2, <2>3, <2>4
    <2> QED
      BY <2>5 DEF OneFirePerBurst
  <1> QED
    BY <1>5, <1>7, <1>8, <1>10, <1>11 DEF DebounceInv

-----------------------------------------------------------------------------
(* A hand-over of one entry costs one entry of the map.                    *)
LEMMA TakeOut ==
  ASSUME FiniteHandoff, OneFirePerBurst, TypeOK, NEW a \in Pending, NEW h,
         handoff' = handoff \cup {h}, Pending' = Pending \ {a},
         UNCHANGED <<fired, accepted>>
  PROVE  FiniteHandoff' /\ OneFirePerBurst'
  <1>1. /\ IsFiniteSet(handoff \cup {h})
        /\ Cardinality(handoff \cup {h}) \in {Cardinality(handoff), Cardinality(handoff) + 1}
    BY FS_AddElement DEF FiniteHandoff
  <1>2. Cardinality(Pending \ {a}) = Cardinality(Pending) - 1
    BY PendingFinite, FS_RemoveElement
  <1>3. Cardinality(handoff) \in Nat /\ Cardinality(Pending) \in Nat
    BY PendingFinite, FS_CardinalityType DEF FiniteHandoff
  <1>4. fired \in Nat /\ accepted \in Nat
    BY DEF TypeOK
  <1>5. fired + Cardinality(handoff) + Cardinality(Pending) <= accepted
    BY DEF OneFirePerBurst
  <1>6. fired' + Cardinality(handoff') + Cardinality(Pending') <= accepted'
    BY <1>1, <1>2, <1>3, <1>4, <1>5
  <1> QED
    BY <1>1, <1>6 DEF FiniteHandoff, OneFirePerBurst

(* A timer whose generation matches takes the entry out.                   *)
LEMMA TimerFiresPreserves ==
  ASSUME DebounceInv, NEW t \in timers, TimerFires(t)
  PROVE  DebounceInv'
  <1> USE DebounceAssumption
  <1> DEFINE a == t.app
             h == [app |-> a, trigger |-> pending[a].trigger, id |-> t.id]
  <1>1. TypeOK /\ NoStrandedBurst /\ GenerationsGrow /\ FiniteHandoff
          /\ OneFirePerBurst
    BY DEF DebounceInv
  <1>2. /\ pending' = [pending EXCEPT ![a] = None] /\ timers' = timers \ {t}
        /\ handoff' = handoff \cup {h} /\ era' = [era EXCEPT ![a] = @ + 1]
        /\ pending[a] # None
        /\ UNCHANGED <<accepted, fired, now, flushes, queued, active, closed, jobs, last>>
    BY DEF TimerFires, Current, poolVars
  <1>3. a \in Apps /\ t.id \in Nat /\ a \in Pending /\ pending[a].trigger \in Triggers
    BY <1>1, <1>2 DEF TypeOK, Timer, Pending, PendingEntry
  <1>4. TypeOK'
    <2>1. h \in Handoff
      BY <1>3 DEF Handoff
    <2>2. pending' \in [Apps -> PendingEntry \cup {None}] /\ era' \in [Apps -> Nat]
      BY <1>1, <1>2, <1>3 DEF TypeOK
    <2> QED
      BY <1>1, <1>2, <2>1, <2>2 DEF TypeOK
  <1>5. Pending' = Pending \ {a}
    BY <1>1, <1>2 DEF Pending, TypeOK
  <1>6. NoStrandedBurst'
    <2> SUFFICES ASSUME NEW b \in Pending'
                 PROVE  \E u \in timers' : u.app = b /\ u.generation = pending'[b].generation
                                             /\ u.due <= last'[b] + Window
      BY DEF NoStrandedBurst
    <2>1. b \in Pending /\ b # a
      BY <1>5
    <2>2. PICK u \in timers : u.app = b /\ u.generation = pending[b].generation
                                /\ u.due <= last[b] + Window
      BY <2>1, <1>1 DEF NoStrandedBurst
    <2> QED
      BY <2>1, <2>2, <1>1, <1>2 DEF TypeOK, Pending
  <1>7. GenerationsGrow'
    <2> SUFFICES ASSUME NEW u \in timers'
                 PROVE  /\ u.era <= era'[u.app]
                        /\ u.era = era'[u.app] =>
                             /\ pending'[u.app] # None
                             /\ u.generation <= pending'[u.app].generation
                             /\ u.generation = pending'[u.app].generation
                                  => u.due = last'[u.app] + Window
      BY DEF GenerationsGrow
    <2>1. u \in timers /\ u.app \in Apps /\ u.era \in Nat /\ era[u.app] \in Nat
            /\ u.era <= era[u.app]
      BY <1>1, <1>2 DEF GenerationsGrow, TypeOK, Timer
    <2>2. CASE u.app = a
      BY <2>1, <2>2, <1>1, <1>2 DEF TypeOK
    <2>3. CASE u.app # a
      BY <2>1, <2>3, <1>1, <1>2 DEF TypeOK, GenerationsGrow
    <2> QED
      BY <2>2, <2>3
  <1>9. FiniteHandoff' /\ OneFirePerBurst'
    BY <1>1, <1>2, <1>3, <1>5, TakeOut
  <1> QED
    BY <1>4, <1>6, <1>7, <1>9 DEF DebounceInv

(* A superseded timer goes away; the timer its entry waits for is another. *)
LEMMA TimerStalePreserves ==
  ASSUME DebounceInv, NEW t \in timers, TimerStale(t)
  PROVE  DebounceInv'
  <1>1. TypeOK /\ NoStrandedBurst /\ GenerationsGrow /\ FiniteHandoff
          /\ OneFirePerBurst
    BY DEF DebounceInv
  <1>2. /\ timers' = timers \ {t} /\ ~Current(t)
        /\ UNCHANGED <<pending, handoff, accepted, fired, now, flushes, queued, active,
                       closed, jobs, last, era>>
    BY DEF TimerStale, poolVars, history
  <1>3. TypeOK' /\ Pending' = Pending
    BY <1>1, <1>2 DEF TypeOK, Pending
  <1>4. NoStrandedBurst'
    <2> SUFFICES ASSUME NEW b \in Pending
                 PROVE  \E u \in timers' : u.app = b /\ u.generation = pending'[b].generation
                                             /\ u.due <= last'[b] + Window
      BY <1>3 DEF NoStrandedBurst
    <2>1. PICK u \in timers : u.app = b /\ u.generation = pending[b].generation
                                /\ u.due <= last[b] + Window
      BY <1>1 DEF NoStrandedBurst
    <2>2. u # t
      BY <2>1, <1>2 DEF Current, Pending
    <2> QED
      BY <2>1, <2>2, <1>2
  <1>5. GenerationsGrow' /\ FiniteHandoff' /\ OneFirePerBurst'
    BY <1>1, <1>2, <1>3
       DEF GenerationsGrow, FiniteHandoff, OneFirePerBurst
  <1> QED
    BY <1>1, <1>3, <1>4, <1>5 DEF DebounceInv

(* flush_now drains the whole map.                                         *)
LEMMA FlushNowPreserves ==
  ASSUME DebounceInv, FlushNow
  PROVE  DebounceInv'
  <1> USE DebounceAssumption
  <1> DEFINE H(a) == [app |-> a, trigger |-> pending[a].trigger, id |-> MaxEvents + flushes']
             D == {H(a) : a \in Pending}
             f == [a \in Pending |-> H(a)]
  <1>1. TypeOK /\ NoStrandedBurst /\ GenerationsGrow /\ FiniteHandoff
          /\ OneFirePerBurst
    BY DEF DebounceInv
  <1>2. /\ pending' = [a \in Apps |-> None] /\ handoff' = handoff \cup D
        /\ era' = [a \in Apps |-> IF a \in Pending THEN era[a] + 1 ELSE era[a]]
        /\ flushes' = flushes + 1
        /\ UNCHANGED <<timers, accepted, fired, now, queued, active, closed, jobs, last>>
    BY DEF FlushNow, poolVars
  <1>3. TypeOK'
    <2>1. D \subseteq Handoff
      BY <1>1, <1>2, EntryTyped DEF Handoff, PendingEntry, TypeOK
    <2>2. pending' \in [Apps -> PendingEntry \cup {None}] /\ era' \in [Apps -> Nat]
          /\ flushes' \in Nat
      BY <1>1, <1>2 DEF TypeOK
    <2> QED
      BY <1>1, <1>2, <2>1, <2>2 DEF TypeOK
  <1>4. Pending' = {}
    BY <1>2 DEF Pending
  <1>5. NoStrandedBurst'
    BY <1>4 DEF NoStrandedBurst
  <1>6. GenerationsGrow'
    <2> SUFFICES ASSUME NEW u \in timers
                 PROVE  u.era <= era'[u.app] /\ u.era # era'[u.app]
      BY <1>2 DEF GenerationsGrow
    <2>1. u.app \in Apps /\ u.era \in Nat /\ era[u.app] \in Nat /\ u.era <= era[u.app]
      BY <1>1 DEF GenerationsGrow, TypeOK, Timer
    <2>2. CASE u.app \in Pending
      BY <2>1, <2>2, <1>2
    <2>3. CASE u.app \notin Pending
      <3>1. u.era # era[u.app]
        BY <2>1, <2>3, <1>1 DEF GenerationsGrow, Pending
      <3> QED
        BY <2>1, <2>3, <3>1, <1>2
    <2> QED
      BY <2>2, <2>3
  <1>7. IsFiniteSet(D) /\ Cardinality(D) <= Cardinality(Pending)
    <2>1. f \in Surjection(Pending, D)
      BY DEF Surjection
    <2> QED
      BY <2>1, PendingFinite, FS_Surjection
  <1>8. FiniteHandoff'
    BY <1>1, <1>2, <1>7, FS_Union DEF FiniteHandoff
  <1>9. OneFirePerBurst'
    <2>1. Cardinality(handoff') <= Cardinality(handoff) + Cardinality(Pending)
      <3>1. Cardinality(handoff \cup D)
              = Cardinality(handoff) + Cardinality(D) - Cardinality(handoff \cap D)
        BY <1>1, <1>7, FS_Union DEF FiniteHandoff
      <3>2. IsFiniteSet(handoff \cap D)
        BY <1>7, FS_Subset
      <3>3. /\ Cardinality(handoff) \in Nat /\ Cardinality(D) \in Nat
            /\ Cardinality(handoff \cap D) \in Nat /\ Cardinality(Pending) \in Nat
        BY <1>1, <1>7, <3>2, PendingFinite, FS_CardinalityType DEF FiniteHandoff
      <3> QED
        BY <1>2, <1>7, <3>1, <3>3
    <2>2. Cardinality(handoff) \in Nat /\ Cardinality(Pending) \in Nat
            /\ Cardinality(handoff') \in Nat /\ Cardinality(Pending') = 0
      BY <1>1, <1>4, <1>8, PendingFinite, FS_CardinalityType, FS_EmptySet DEF FiniteHandoff
    <2>3. fired \in Nat /\ accepted \in Nat /\ fired' = fired /\ accepted' = accepted
      BY <1>1, <1>2 DEF TypeOK
    <2>4. fired + Cardinality(handoff) + Cardinality(Pending) <= accepted
      BY <1>1 DEF OneFirePerBurst
    <2>5. fired' + Cardinality(handoff') + Cardinality(Pending') <= accepted'
      BY <2>1, <2>2, <2>3, <2>4
    <2> QED
      BY <2>5 DEF OneFirePerBurst
  <1> QED
    BY <1>3, <1>5, <1>6, <1>8, <1>9 DEF DebounceInv

(* The hand-over itself: one entry less owed, one more counted as fired.   *)
LEMMA HandOverPreserves ==
  ASSUME DebounceInv, NEW h \in handoff, HandOver(h)
  PROVE  DebounceInv'
  <1>1. TypeOK /\ NoStrandedBurst /\ GenerationsGrow /\ FiniteHandoff
          /\ OneFirePerBurst
    BY DEF DebounceInv
  <1>2. /\ handoff' = handoff \ {h} /\ fired' = fired + 1
        /\ UNCHANGED <<pending, timers, accepted, now, flushes, last, era>>
    BY DEF HandOver, history
  <1>3. /\ queued' \in [Apps -> Seq(Nat)]
        /\ active' \subseteq Pool!Job
        /\ closed' \in BOOLEAN /\ jobs' \in Nat
    <2>1. h.app \in Apps
      BY <1>1 DEF TypeOK, Handoff
    <2>2. UNCHANGED poolVars \/ Pool!Accept(h.app)
      BY DEF HandOver, EnqueueCoalesce
    <2> QED
      BY <1>1, <2>1, <2>2, PoolTyped
  <1>4. TypeOK' /\ Pending' = Pending
    BY <1>1, <1>2, <1>3 DEF TypeOK, Pending
  <1>5. NoStrandedBurst' /\ GenerationsGrow'
    BY <1>1, <1>2, <1>4 DEF NoStrandedBurst, GenerationsGrow
  <1>6. FiniteHandoff' /\ OneFirePerBurst'
    <2>1. IsFiniteSet(handoff') /\ Cardinality(handoff') = Cardinality(handoff) - 1
      BY <1>1, <1>2, FS_RemoveElement DEF FiniteHandoff
    <2>2. Cardinality(handoff) \in Nat /\ Cardinality(Pending) \in Nat
      BY <1>1, PendingFinite, FS_CardinalityType DEF FiniteHandoff
    <2>3. fired \in Nat /\ accepted \in Nat /\ accepted' = accepted
      BY <1>1, <1>2 DEF TypeOK
    <2>4. fired + Cardinality(handoff) + Cardinality(Pending) <= accepted
      BY <1>1 DEF OneFirePerBurst
    <2>5. fired' + Cardinality(handoff') + Cardinality(Pending') <= accepted'
      BY <1>2, <1>4, <2>1, <2>2, <2>3, <2>4
    <2> QED
      BY <2>1, <2>5 DEF FiniteHandoff, OneFirePerBurst
  <1> QED
    BY <1>4, <1>5, <1>6 DEF DebounceInv

(* Steps of the pool and of the clock leave the map and the timers alone.  *)
LEMMA OthersPreserve ==
  ASSUME DebounceInv, PoolStep \/ Tick \/ UNCHANGED vars
  PROVE  DebounceInv'
  <1>1. TypeOK /\ NoStrandedBurst /\ GenerationsGrow /\ FiniteHandoff
          /\ OneFirePerBurst
    BY DEF DebounceInv
  <1>2. UNCHANGED <<pending, timers, handoff, accepted, fired, flushes, last, era>>
    BY DEF PoolStep, Tick, vars, history
  <1>3. now' \in Nat
    BY <1>1 DEF TypeOK, PoolStep, Tick, vars
  <1>4. /\ queued' \in [Apps -> Seq(Nat)]
        /\ active' \subseteq Pool!Job
        /\ closed' \in BOOLEAN /\ jobs' \in Nat
    BY <1>1, PoolTyped DEF PoolStep, Tick, vars, poolVars
  <1>5. TypeOK' /\ Pending' = Pending
    BY <1>1, <1>2, <1>3, <1>4 DEF TypeOK, Pending
  <1>6. NoStrandedBurst' /\ GenerationsGrow' /\ FiniteHandoff' /\ OneFirePerBurst'
    BY <1>1, <1>2, <1>5
       DEF NoStrandedBurst, GenerationsGrow, FiniteHandoff, OneFirePerBurst
  <1> QED
    BY <1>5, <1>6 DEF DebounceInv

-----------------------------------------------------------------------------
(* DebounceInv is an inductive invariant.                                  *)
THEOREM Invariance == Spec => []DebounceInv
  <1>1. Init => DebounceInv
    BY InitEstablishes
  <1>2. DebounceInv /\ [Next]_vars => DebounceInv'
    BY EnqueuePreserves, TimerFiresPreserves, TimerStalePreserves, FlushNowPreserves,
       HandOverPreserves, OthersPreserve DEF Next
  <1> QED
    BY <1>1, <1>2, PTL DEF Spec

(* Every variable keeps its type.                                          *)
THEOREM TypeCorrect == Spec => []TypeOK
  <1>1. DebounceInv => TypeOK
    BY DEF DebounceInv
  <1> QED
    BY <1>1, Invariance, PTL

(* No entry of the map waits without a timer that will match it: bursts do *)
(* not get stuck, however timers, flushes and events interleave.           *)
THEOREM BurstsNotStranded == Spec => []NoStrandedBurst
  <1>1. DebounceInv => NoStrandedBurst
    BY DEF DebounceInv
  <1> QED
    BY <1>1, Invariance, PTL

(* Within one life of an entry only the timer of the latest event can take *)
(* it out, so that the app has been quiet for the window.                  *)
THEOREM QuietUntilTakenOut == Spec => []QuietWithinEra
  <1>1. DebounceInv => QuietWithinEra
    BY DEF DebounceInv, GenerationsGrow, QuietWithinEra, Current
  <1> QED
    BY <1>1, Invariance, PTL

(* No more hand-overs than events, whoever takes the entries out.          *)
THEOREM FiresBounded == Spec => []OneFirePerBurst
  <1>1. DebounceInv => OneFirePerBurst
    BY DEF DebounceInv
  <1> QED
    BY <1>1, Invariance, PTL
=============================================================================
