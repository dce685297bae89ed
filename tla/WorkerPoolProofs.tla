-------------------------- MODULE WorkerPoolProofs --------------------------
(***************************************************************************)
(* Proofs about WorkerPool for every set of apps, every bound on           *)
(* concurrency and every queue capacity.  The inductive invariant PoolInv  *)
(* joins the documented invariants with the facts that carry them from one *)
(* critical section to the next.                                           *)
(***************************************************************************)
EXTENDS WorkerPool, FiniteSetTheorems, SequenceTheorems, TLAPS

\* A job popped off its queue exists only while the dispatcher is about to spawn it.
PoppedShape ==
  /\ disp # "spawn" => popped = {}
  /\ disp = "spawn" => \E j \in popped : popped = {j}

\* A job is in one stage of its life at a time.
StagesDisjoint ==
  /\ popped \cap running = {}
  /\ popped \cap panicked = {}
  /\ running \cap panicked = {}

\* Job names are counter values already handed out.
JobsNumbered ==
  /\ \A a \in Apps : \A i \in DOMAIN queues[a] : queues[a][i] <= enqueued
  /\ \A j \in Owners \cup released : j.job <= enqueued

\* The bound as the code tests it, on the bookkeeping set.
SlotBound == IsFiniteSet(in_flight) /\ Cardinality(in_flight) <= MaxConcurrent

\* The sets the counters are compared with are finite.
FiniteStages ==
  /\ IsFiniteSet(Waiting)
  /\ IsFiniteSet(running) /\ IsFiniteSet(released) /\ IsFiniteSet(panicked)

PoolInv ==
  /\ TypeOK
  /\ KeysExact
  /\ ReadyExact
  /\ OneJobPerApp
  /\ PoppedShape
  /\ StagesDisjoint
  /\ JobsNumbered
  /\ PerAppFifo
  /\ SlotBound
  /\ FiniteStages
  /\ Accounting
  /\ NoLostWakeup

-----------------------------------------------------------------------------
(* What the queue operations do to the elements of a sequence.             *)

LEMMA AppendFacts ==
  ASSUME NEW S, NEW s \in Seq(S), NEW x \in S
  PROVE  /\ Append(s, x) \in Seq(S)
         /\ Append(s, x) # <<>>
         /\ Len(s) \in Nat
         /\ DOMAIN s = 1 .. Len(s)
         /\ DOMAIN Append(s, x) = 1 .. (Len(s) + 1)
         /\ \A i \in 1 .. Len(s) : Append(s, x)[i] = s[i]
         /\ Append(s, x)[Len(s) + 1] = x
  OBVIOUS

LEMMA TailFacts ==
  ASSUME NEW S, NEW s \in Seq(S), s # <<>>
  PROVE  /\ Head(s) \in S
         /\ Head(s) = s[1]
         /\ Tail(s) \in Seq(S)
         /\ Len(s) \in Nat \ {0}
         /\ DOMAIN s = 1 .. Len(s)
         /\ DOMAIN Tail(s) = 1 .. (Len(s) - 1)
         /\ \A i \in 1 .. (Len(s) - 1) : Tail(s)[i] = s[i + 1]
  OBVIOUS

(* Members of Waiting are the positions of the queues.                     *)
LEMMA WaitingMembers ==
  \A p : p \in Waiting <=> \E a \in Apps : \E i \in DOMAIN queues[a] : p = <<a, i>>
  BY DEF Waiting

(* A push adds one position and a pop removes one.                         *)
LEMMA WaitingPush ==
  ASSUME queues \in [Apps -> Seq(Nat)], NEW a \in Apps, NEW n \in Nat,
         queues' = [queues EXCEPT ![a] = Append(@, n)]
  PROVE  /\ Waiting' = Waiting \cup {<<a, Len(queues[a]) + 1>>}
         /\ <<a, Len(queues[a]) + 1>> \notin Waiting
  <1> DEFINE m == Len(queues[a]) + 1
  <1>1. DOMAIN queues[a] = 1 .. Len(queues[a]) /\ Len(queues[a]) \in Nat
    BY AppendFacts
  <1>2. DOMAIN queues'[a] = DOMAIN queues[a] \cup {m}
    BY <1>1, AppendFacts
  <1>3. \A b \in Apps : b # a => queues'[b] = queues[b]
    OBVIOUS
  <1>4. \A p : p \in Waiting' <=> \E b \in Apps : \E i \in DOMAIN queues'[b] : p = <<b, i>>
    BY DEF Waiting
  <1>5. \A p : p \in Waiting' <=> p \in Waiting \/ p = <<a, m>>
    BY <1>2, <1>3, <1>4, WaitingMembers
  <1>6. m \notin DOMAIN queues[a]
    BY <1>1
  <1> QED
    BY <1>5, <1>6, WaitingMembers

LEMMA WaitingPop ==
  ASSUME queues \in [Apps -> Seq(Nat)], NEW a \in Apps, queues[a] # <<>>,
         queues' = [queues EXCEPT ![a] = Tail(@)]
  PROVE  /\ Waiting' = Waiting \ {<<a, Len(queues[a])>>}
         /\ <<a, Len(queues[a])>> \in Waiting
  <1> DEFINE m == Len(queues[a])
  <1>1. DOMAIN queues[a] = 1 .. m /\ m \in Nat \ {0}
    BY TailFacts
  <1>2. DOMAIN queues'[a] = DOMAIN queues[a] \ {m}
    BY <1>1, TailFacts
  <1>3. \A b \in Apps : b # a => queues'[b] = queues[b]
    OBVIOUS
  <1>4. \A p : p \in Waiting' <=> \E b \in Apps : \E i \in DOMAIN queues'[b] : p = <<b, i>>
    BY DEF Waiting
  <1>5. \A p : p \in Waiting' <=> p \in Waiting /\ p # <<a, m>>
    BY <1>2, <1>3, <1>4, WaitingMembers
  <1>6. m \in DOMAIN queues[a]
    BY <1>1
  <1> QED
    BY <1>5, <1>6, WaitingMembers

-----------------------------------------------------------------------------
(* The invariant holds of WorkerPool::new, and each critical section       *)
(* preserves it.                                                           *)

LEMMA InitPoolInv == Init => PoolInv
  <1> SUFFICES ASSUME Init PROVE PoolInv
    OBVIOUS
  <1> USE PoolAssumption DEF Init
  <1>1. TypeOK
    <2>1. queues \in [Apps -> Seq(Nat)] /\ ready \in Seq(Apps)
      BY EmptySeq
    <2> QED
      BY <2>1 DEF TypeOK
  <1>2. Owners = {}
    BY DEF Owners
  <1>3. KeysExact /\ ReadyExact
    BY DEF KeysExact, ReadyExact, InReady
  <1>4. OneJobPerApp /\ PoppedShape /\ StagesDisjoint /\ JobsNumbered /\ PerAppFifo
    BY <1>2 DEF OneJobPerApp, PoppedShape, StagesDisjoint, JobsNumbered, PerAppFifo
  <1>5. Waiting = {}
    BY WaitingMembers
  <1>6. SlotBound /\ FiniteStages /\ Accounting
    BY <1>5, FS_EmptySet DEF SlotBound, FiniteStages, Accounting
  <1>7. NoLostWakeup
    BY DEF NoLostWakeup
  <1> QED
    BY <1>1, <1>3, <1>4, <1>6, <1>7 DEF PoolInv

LEMMA EnqueueAcceptedPoolInv ==
  ASSUME PoolInv, NEW a \in Apps, NEW coalesce \in BOOLEAN, EnqueueAccepted(a, coalesce)
  PROVE  PoolInv'
  <1> DEFINE n == enqueued + 1
  <1>a. TypeOK /\ n \in Nat
    BY DEF PoolInv, TypeOK
  <1>b. queues' = [queues EXCEPT ![a] = Append(@, n)]
    BY DEF EnqueueAccepted, PushBack
  <1>c. Owners' = Owners /\ in_flight' = in_flight /\ released' = released
    BY DEF EnqueueAccepted, Owners
  <1>q. queues[a] \in Seq(Nat) /\ queues'[a] = Append(queues[a], n)
    BY <1>a, <1>b DEF TypeOK
  <1>d. /\ queues'[a] # <<>>
        /\ Len(queues[a]) \in Nat
        /\ DOMAIN queues[a] = 1 .. Len(queues[a])
        /\ DOMAIN queues'[a] = 1 .. (Len(queues[a]) + 1)
        /\ \A i \in 1 .. Len(queues[a]) : queues'[a][i] = queues[a][i]
        /\ queues'[a][Len(queues[a]) + 1] = n
    <2> DEFINE s == queues[a]
    <2>1. s \in Seq(Nat) /\ n \in Nat
      BY <1>a, <1>q
    <2> HIDE DEF n, s
    <2>2. /\ Append(s, n) # <<>>
          /\ Len(s) \in Nat
          /\ DOMAIN s = 1 .. Len(s)
          /\ DOMAIN Append(s, n) = 1 .. (Len(s) + 1)
          /\ \A i \in 1 .. Len(s) : Append(s, n)[i] = s[i]
          /\ Append(s, n)[Len(s) + 1] = n
      BY <2>1, AppendFacts
    <2> QED BY <2>2, <1>q DEF s
  <1>e. \A b \in Apps : b # a => queues'[b] = queues[b]
    BY <1>a, <1>b DEF TypeOK
  <1>1. TypeOK'
    <2>1. queues' \in [Apps -> Seq(Nat)]
      BY <1>a, <1>b, <1>q, AppendFacts DEF TypeOK
    <2>2. ready' \in Seq(Apps)
      BY <1>a, AppendFacts DEF TypeOK, EnqueueAccepted
    <2> QED
      BY <1>a, <2>1, <2>2 DEF TypeOK, EnqueueAccepted, DepthAfterPush
  <1>2. KeysExact'
    BY <1>c, <1>d, <1>e DEF KeysExact, EnqueueAccepted, PoolInv
  <1>3. ReadyExact'
    <2>1. CASE BecomesReady(a)
      <3>1. ready' = Append(ready, a)
        BY <2>1 DEF EnqueueAccepted
      <3>2. /\ Len(ready) \in Nat
            /\ DOMAIN ready = 1 .. Len(ready)
            /\ DOMAIN ready' = 1 .. (Len(ready) + 1)
            /\ \A i \in 1 .. Len(ready) : ready'[i] = ready[i]
            /\ ready'[Len(ready) + 1] = a
        BY <1>a, <3>1, AppendFacts DEF TypeOK
      <3> QED
        BY <2>1, <3>2, <1>c, <1>d, <1>e DEF ReadyExact, InReady, BecomesReady, PoolInv
    <2>2. CASE ~BecomesReady(a)
      <3>1. ready' = ready
        BY <2>2 DEF EnqueueAccepted
      <3> QED
        BY <2>2, <3>1, <1>c, <1>d, <1>e DEF ReadyExact, InReady, BecomesReady, PoolInv
    <2> QED
      BY <2>1, <2>2
  <1>4. OneJobPerApp' /\ PoppedShape' /\ StagesDisjoint' /\ SlotBound'
    BY <1>c DEF OneJobPerApp, PoppedShape, StagesDisjoint, SlotBound, PoolInv,
                EnqueueAccepted
  <1>5. JobsNumbered'
    <2>1. \A b \in Apps : \A i \in DOMAIN queues[b] : queues[b][i] \in Nat
      BY <1>a DEF TypeOK
    <2>2. enqueued' = n /\ enqueued \in Nat
      BY <1>a DEF EnqueueAccepted, TypeOK
    <2>3. \A b \in Apps : \A i \in DOMAIN queues'[b] : queues'[b][i] <= n
      BY <2>1, <2>2, <1>d, <1>e DEF JobsNumbered, PoolInv
    <2>4. \A j \in Owners \cup released : j.job \in Nat
      BY <1>a DEF TypeOK, Owners, Job
    <2>5. \A j \in Owners \cup released : j.job <= n
      BY <2>2, <2>4 DEF JobsNumbered, PoolInv
    <2> QED
      BY <1>c, <2>2, <2>3, <2>5 DEF JobsNumbered
  <1>6. PerAppFifo'
    <2>1. \A b \in Apps : \A i \in DOMAIN queues[b] : queues[b][i] \in Nat /\ queues[b][i] < n
      BY <1>a DEF TypeOK, JobsNumbered, PoolInv
    <2>2. \A j \in Owners \cup released : j.job \in Nat /\ j.job < n /\ j.app \in Apps
      BY <1>a DEF TypeOK, JobsNumbered, PoolInv, Owners, Job
    <2>3. \A b \in Apps : \A i, k \in DOMAIN queues'[b] :
             i < k => queues'[b][i] < queues'[b][k]
      BY <1>d, <1>e, <2>1 DEF PerAppFifo, PoolInv
    <2>4. \A j \in Owners \cup released :
             \A i \in DOMAIN queues'[j.app] : j.job < queues'[j.app][i]
      <3> SUFFICES ASSUME NEW j \in Owners \cup released, NEW i \in DOMAIN queues'[j.app]
                   PROVE  j.job < queues'[j.app][i]
        OBVIOUS
      <3>1. CASE j.app # a
        BY <3>1, <1>e, <2>2 DEF PerAppFifo, PoolInv
      <3>2. CASE j.app = a
        <4>1. CASE i = Len(queues[a]) + 1
          BY <3>2, <4>1, <1>d, <2>2
        <4>2. CASE i # Len(queues[a]) + 1
          <5>1. i \in DOMAIN queues[a] /\ queues'[a][i] = queues[a][i]
            BY <3>2, <4>2, <1>d
          <5> QED
            BY <3>2, <5>1 DEF PerAppFifo, PoolInv
        <4> QED
          BY <4>1, <4>2
      <3> QED
        BY <3>1, <3>2
    <2> QED
      BY <1>c, <2>3, <2>4 DEF PerAppFifo, PoolInv
  <1>7. FiniteStages' /\ Accounting'
    <2>1. /\ Waiting' = Waiting \cup {<<a, Len(queues[a]) + 1>>}
          /\ <<a, Len(queues[a]) + 1>> \notin Waiting
      BY <1>a, <1>b, WaitingPush DEF TypeOK
    <2>2. /\ IsFiniteSet(Waiting') 
          /\ Cardinality(Waiting') = Cardinality(Waiting) + 1
      BY <2>1, FS_AddElement DEF PoolInv, FiniteStages
    <2>3. FiniteStages'
      BY <2>2 DEF FiniteStages, PoolInv, EnqueueAccepted
    <2>4. Cardinality(popped) \in Nat
      BY FS_EmptySet, FS_Singleton DEF PoolInv, PoppedShape
    <2>5. Accounting'
      BY <2>2, <2>4, <1>a DEF Accounting, PoolInv, EnqueueAccepted, TypeOK, DepthAfterPush
    <2> QED
      BY <2>3, <2>5
  <1>8. NoLostWakeup'
    BY <1>a DEF NoLostWakeup, EnqueueAccepted, TypeOK
  <1> QED
    BY <1>1, <1>2, <1>3, <1>4, <1>5, <1>6, <1>7, <1>8 DEF PoolInv

(* A step that moves no job between queues, stages and in_flight keeps     *)
(* every fact about where the jobs are.                                    *)
JobsUnmoved ==
  UNCHANGED <<keys, queues, ready, in_flight, popped, running, released, panicked, enqueued>>

LEMMA UnmovedFacts ==
  ASSUME PoolInv, JobsUnmoved
  PROVE  /\ KeysExact' /\ ReadyExact' /\ OneJobPerApp' /\ StagesDisjoint'
         /\ JobsNumbered' /\ PerAppFifo' /\ SlotBound' /\ FiniteStages'
         /\ Waiting' = Waiting /\ Owners' = Owners
  <1>1. Waiting' = Waiting /\ Owners' = Owners
    BY DEF JobsUnmoved, Waiting, Owners
  <1>2. KeysExact' /\ ReadyExact' /\ StagesDisjoint' /\ SlotBound'
    BY DEF JobsUnmoved, PoolInv, KeysExact, ReadyExact, InReady, StagesDisjoint, SlotBound
  <1>3. OneJobPerApp' /\ JobsNumbered' /\ PerAppFifo'
    BY <1>1 DEF JobsUnmoved, PoolInv, OneJobPerApp, JobsNumbered, PerAppFifo
  <1>4. FiniteStages'
    BY <1>1 DEF JobsUnmoved, PoolInv, FiniteStages
  <1> QED
    BY <1>1, <1>2, <1>3, <1>4

LEMMA EnqueueQueueFullPoolInv ==
  ASSUME PoolInv, NEW a \in Apps, NEW coalesce \in BOOLEAN, EnqueueQueueFull(a, coalesce)
  PROVE  PoolInv'
  <1>1. keys' = keys
    <2>1. queues[a] # <<>>
      BY PoolAssumption, EmptySeq DEF EnqueueQueueFull, PoolInv, TypeOK
    <2> QED
      BY <2>1 DEF EnqueueQueueFull, PoolInv, KeysExact
  <1>2. JobsUnmoved
    BY <1>1 DEF JobsUnmoved, EnqueueQueueFull
  <1>3. TypeOK' /\ PoppedShape'
    BY DEF PoolInv, TypeOK, EnqueueQueueFull, PoppedShape
  <1>4. Accounting' /\ NoLostWakeup'
    BY <1>2, UnmovedFacts DEF PoolInv, Accounting, NoLostWakeup, CanDispatch, EnqueueQueueFull
  <1> QED
    BY <1>2, <1>3, <1>4, UnmovedFacts DEF PoolInv

(* Either form of wakeup leaves the dispatcher draining or a permit stored.*)
LEMMA NotifyOneFacts ==
  ASSUME TypeOK, NotifyOne
  PROVE  /\ disp' \in {"drain", "spawn", "check", "park", "await", "exited"}
         /\ permit' \in BOOLEAN
         /\ disp' \in {"check", "park"} => permit'
         /\ disp' = "spawn" <=> disp = "spawn"
  BY DEF NotifyOne, TypeOK

LEMMA ProducerNotifyPoolInv ==
  ASSUME PoolInv, ProducerNotify
  PROVE  PoolInv'
  <1>1. JobsUnmoved
    BY DEF JobsUnmoved, ProducerNotify, stateVars, counterVars
  <1>2. TypeOK' /\ PoppedShape' /\ NoLostWakeup'
    BY NotifyOneFacts
    DEF PoolInv, TypeOK, ProducerNotify, stateVars, counterVars, PoppedShape, NoLostWakeup
  <1>3. Accounting'
    BY <1>1, UnmovedFacts DEF PoolInv, Accounting, ProducerNotify, stateVars, counterVars
  <1> QED
    BY <1>1, <1>2, <1>3, UnmovedFacts DEF PoolInv

(* The app at the head of ready always has work: the defensive arm of      *)
(* next_dispatch is dead code.                                             *)
LEMMA HeadReady == PoolInv /\ CanDispatch => HeadHasWork
  <1> SUFFICES ASSUME PoolInv, CanDispatch PROVE HeadHasWork
    OBVIOUS
  <1>1. ready \in Seq(Apps) /\ ready # <<>>
    BY DEF CanDispatch, PoolInv, TypeOK
  <1>2. Head(ready) \in Apps /\ InReady(Head(ready))
    BY <1>1, TailFacts DEF InReady
  <1> QED
    BY <1>2 DEF PoolInv, ReadyExact, KeysExact, HeadHasWork

LEMMA DispatchNonePoolInv ==
  ASSUME PoolInv, DispatchNone
  PROVE  PoolInv'
  <1>1. ~CanDispatch
    BY HeadReady DEF DispatchNone
  <1>2. JobsUnmoved
    BY <1>1 DEF JobsUnmoved, DispatchNone, counterVars
  <1>3. TypeOK' /\ PoppedShape'
    BY <1>1 DEF PoolInv, TypeOK, DispatchNone, counterVars, PoppedShape
  <1>4. Accounting'
    BY <1>2, UnmovedFacts DEF PoolInv, Accounting, DispatchNone, counterVars
  <1>5. NoLostWakeup'
    BY <1>1 DEF NoLostWakeup, DispatchNone, CanDispatch
  <1> QED
    BY <1>2, <1>3, <1>4, <1>5, UnmovedFacts DEF PoolInv

(* Steps of the dispatcher and of shutdown between two dispatches.         *)
LEMMA ControlStepPoolInv ==
  ASSUME PoolInv,
         \/ CheckShutdown \/ Park \/ DispatcherExit
         \/ ShutdownFlag \/ ShutdownNotify \/ ShutdownReturn
         \/ UNCHANGED vars
  PROVE  PoolInv'
  <1> USE DEF stateVars, counterVars, vars
  <1>1. JobsUnmoved
    BY DEF JobsUnmoved, CheckShutdown, Park, DispatcherExit, ShutdownFlag,
           ShutdownNotify, ShutdownReturn
  <1>2. TypeOK' /\ PoppedShape'
    BY DEF PoolInv, TypeOK, PoppedShape, CheckShutdown, Park, DispatcherExit,
           ShutdownFlag, ShutdownNotify, NotifyWaiters, ShutdownReturn
  <1>3. Accounting'
    BY <1>1, UnmovedFacts
    DEF PoolInv, Accounting, CheckShutdown, Park, DispatcherExit, ShutdownFlag,
        ShutdownNotify, ShutdownReturn
  <1>4. NoLostWakeup'
    BY DEF PoolInv, NoLostWakeup, CanDispatch, CheckShutdown, Park, DispatcherExit,
           ShutdownFlag, ShutdownNotify, NotifyWaiters, ShutdownReturn
  <1> QED
    BY <1>1, <1>2, <1>3, <1>4, UnmovedFacts DEF PoolInv

LEMMA DispatchNextPoolInv ==
  ASSUME PoolInv, DispatchNext
  PROVE  PoolInv'
  <1> DEFINE a == Head(ready)
             q == queues[a]
             j == [app |-> a, job |-> Head(q)]
  <1>a. TypeOK /\ popped = {} /\ disp = "drain"
    BY DEF PoolInv, PoppedShape, DispatchNext
  <1>b. ready \in Seq(Apps) /\ ready # <<>>
    BY <1>a DEF TypeOK, DispatchNext, CanDispatch
  <1>c. /\ a \in Apps
        /\ Len(ready) \in Nat \ {0}
        /\ DOMAIN ready = 1 .. Len(ready)
        /\ a = ready[1]
        /\ ready' \in Seq(Apps)
        /\ DOMAIN ready' = 1 .. (Len(ready) - 1)
        /\ \A i \in 1 .. (Len(ready) - 1) : ready'[i] = ready[i + 1]
    BY <1>b, TailFacts DEF DispatchNext
  <1>d. q \in Seq(Nat) /\ q # <<>> /\ a \in keys
    BY <1>a, <1>c DEF TypeOK, DispatchNext, HeadHasWork
  <1>e. /\ Head(q) \in Nat /\ Head(q) = q[1]
        /\ Len(q) \in Nat \ {0}
        /\ DOMAIN q = 1 .. Len(q)
        /\ Tail(q) \in Seq(Nat)
        /\ DOMAIN Tail(q) = 1 .. (Len(q) - 1)
        /\ \A i \in 1 .. (Len(q) - 1) : Tail(q)[i] = q[i + 1]
    <2> HIDE DEF q
    <2> QED BY <1>d, TailFacts
  <1>f. queues' = [queues EXCEPT ![a] = Tail(@)] /\ queues'[a] = Tail(q)
    BY <1>a, <1>c DEF DispatchNext, TypeOK
  <1>g. \A b \in Apps : b # a => queues'[b] = queues[b]
    BY <1>a, <1>c, <1>f DEF TypeOK
  <1>h. a \notin in_flight
    BY <1>b, <1>c DEF PoolInv, ReadyExact, InReady
  <1>i. j \in Job /\ j.app = a /\ j.job = q[1]
    BY <1>c, <1>e DEF Job
  <1>j. /\ popped' = {j} /\ running' = running /\ panicked' = panicked
        /\ released' = released /\ Owners' = Owners \cup {j}
    BY <1>a DEF DispatchNext, Owners
  <1>k. j \notin Owners
    BY <1>h, <1>i DEF PoolInv, OneJobPerApp
  <1>l. in_flight' = in_flight \cup {a} /\ keys' = keys /\ disp' = "spawn"
    BY DEF DispatchNext
  <1>m. <<a, Len(q)>> \in Waiting /\ Waiting' = Waiting \ {<<a, Len(q)>>}
    BY <1>a, <1>c, <1>d, <1>f, WaitingPop DEF TypeOK
  <1>n. /\ IsFiniteSet(Waiting')
        /\ Cardinality(Waiting) \in Nat \ {0}
        /\ Cardinality(Waiting') = Cardinality(Waiting) - 1
    <2>1. IsFiniteSet(Waiting)
      BY DEF PoolInv, FiniteStages
    <2> QED
      BY <1>m, <2>1, FS_RemoveElement, FS_CardinalityType, FS_EmptySet
  <1> HIDE DEF a, q, j
  <1>1. TypeOK'
    <2>1. queues' \in [Apps -> Seq(Nat)]
      BY <1>a, <1>c, <1>e, <1>f, <1>g DEF TypeOK
    <2>2. queue_depth' \in Nat
      BY <1>n DEF PoolInv, Accounting, DispatchNext
    <2>3. popped' \subseteq Job
      BY <1>i, <1>j
    <2> QED
      BY <1>a, <1>c, <1>j, <1>l, <2>1, <2>2, <2>3 DEF TypeOK, DispatchNext, counterVars
  <1>2. KeysExact'
    BY <1>c, <1>d, <1>g, <1>l DEF PoolInv, KeysExact
  <1>3. ReadyExact'
    <2>1. \A b \in Apps : (\E i \in DOMAIN ready' : ready'[i] = b) <=> (InReady(b) /\ b # a)
      <3>1. \A i \in DOMAIN ready' : i + 1 \in DOMAIN ready /\ ready'[i] = ready[i + 1] /\ i + 1 # 1
        BY <1>c
      <3>2. \A i \in DOMAIN ready : ready[i] = a => i = 1
        BY <1>c DEF PoolInv, ReadyExact
      <3>3. \A i \in DOMAIN ready : i # 1 => i - 1 \in DOMAIN ready' /\ ready'[i - 1] = ready[i]
        BY <1>c
      <3> QED
        BY <1>c, <3>1, <3>2, <3>3 DEF InReady
    <2>2. \A i, k \in DOMAIN ready' : ready'[i] = ready'[k] => i = k
      <3> SUFFICES ASSUME NEW i \in DOMAIN ready', NEW k \in DOMAIN ready',
                          ready'[i] = ready'[k]
                   PROVE  i = k
        OBVIOUS
      <3>1. i \in 1 .. (Len(ready) - 1) /\ k \in 1 .. (Len(ready) - 1)
        BY <1>c
      <3>2. i + 1 \in DOMAIN ready /\ k + 1 \in DOMAIN ready
        BY <1>c, <3>1
      <3>3. ready[i + 1] = ready[k + 1]
        BY <1>c, <3>1
      <3>4. i + 1 = k + 1
        BY <3>2, <3>3 DEF PoolInv, ReadyExact
      <3> QED
        BY <3>1, <3>4
    <2>3. \A b \in Apps : InReady(b)' <=> InReady(b) /\ b # a
      BY <2>1 DEF InReady
    <2> QED
      BY <2>2, <2>3, <1>g, <1>l DEF PoolInv, ReadyExact
  <1>4. OneJobPerApp'
    <2>1. in_flight' = {k.app : k \in Owners'}
      BY <1>i, <1>j, <1>l DEF PoolInv, OneJobPerApp
    <2>2. \A k \in Owners : k.app # a
      BY <1>h DEF PoolInv, OneJobPerApp
    <2> QED
      BY <2>1, <2>2, <1>i, <1>j DEF PoolInv, OneJobPerApp
  <1>5. PoppedShape' /\ StagesDisjoint'
    BY <1>j, <1>k, <1>l DEF PoolInv, PoppedShape, StagesDisjoint, Owners
  <1>6. JobsNumbered'
    <2>1. enqueued' = enqueued
      BY DEF DispatchNext, counterVars
    <2>2. j.job <= enqueued
      BY <1>c, <1>e, <1>i DEF PoolInv, JobsNumbered, q
    <2>3. \A b \in Apps : \A i \in DOMAIN queues'[b] : queues'[b][i] <= enqueued
      BY <1>c, <1>e, <1>f, <1>g DEF PoolInv, JobsNumbered, q
    <2> QED
      BY <1>j, <2>1, <2>2, <2>3 DEF PoolInv, JobsNumbered
  <1>7. PerAppFifo'
    <2>1. \A b \in Apps : \A i, k \in DOMAIN queues'[b] :
             i < k => queues'[b][i] < queues'[b][k]
      <3> SUFFICES ASSUME NEW b \in Apps, NEW i \in DOMAIN queues'[b],
                          NEW k \in DOMAIN queues'[b], i < k
                   PROVE  queues'[b][i] < queues'[b][k]
        OBVIOUS
      <3>1. CASE b # a
        BY <3>1, <1>g DEF PoolInv, PerAppFifo
      <3>2. CASE b = a
        <4>1. /\ i + 1 \in DOMAIN q /\ k + 1 \in DOMAIN q /\ i + 1 < k + 1
              /\ queues'[a][i] = q[i + 1] /\ queues'[a][k] = q[k + 1]
          <5>1. i \in 1 .. (Len(q) - 1) /\ k \in 1 .. (Len(q) - 1)
            BY <3>2, <1>e, <1>f
          <5>2. i + 1 \in DOMAIN q /\ k + 1 \in DOMAIN q /\ i + 1 < k + 1
            BY <5>1, <1>e
          <5>3. Tail(q)[i] = q[i + 1] /\ Tail(q)[k] = q[k + 1]
            BY <5>1, <1>e
          <5> QED
            BY <5>2, <5>3, <1>f
        <4> QED
          BY <3>2, <4>1, <1>c DEF PoolInv, PerAppFifo, q
      <3> QED
        BY <3>1, <3>2
    <2>2. \A k \in Owners' \cup released' :
             \A i \in DOMAIN queues'[k.app] : k.job < queues'[k.app][i]
      <3> SUFFICES ASSUME NEW k \in Owners' \cup released', NEW i \in DOMAIN queues'[k.app]
                   PROVE  k.job < queues'[k.app][i]
        OBVIOUS
      <3>0. k.app \in Apps
        BY <1>a, <1>i, <1>j DEF TypeOK, Owners, Job
      <3>1. CASE k.app # a
        BY <3>0, <3>1, <1>g, <1>i, <1>j DEF PoolInv, PerAppFifo
      <3>2. CASE k.app = a
        <4>1. i + 1 \in DOMAIN q /\ 1 \in DOMAIN q /\ 1 < i + 1 /\ queues'[a][i] = q[i + 1]
          <5>1. i \in 1 .. (Len(q) - 1)
            BY <3>2, <1>e, <1>f
          <5> QED
            BY <5>1, <1>e, <1>f
        <4>2. CASE k = j
          BY <3>2, <4>1, <4>2, <1>c, <1>i DEF PoolInv, PerAppFifo, q
        <4>3. CASE k # j
          BY <3>2, <4>1, <4>3, <1>j DEF PoolInv, PerAppFifo, q
        <4> QED
          BY <4>2, <4>3
      <3> QED
        BY <3>1, <3>2
    <2>3. \A r \in released', k \in Owners' : r.app = k.app => r.job < k.job
      <3> SUFFICES ASSUME NEW r \in released', NEW k \in Owners', r.app = k.app
                   PROVE  r.job < k.job
        OBVIOUS
      <3>1. CASE k = j
        <4>1. 1 \in DOMAIN queues[r.app] /\ k.job = queues[r.app][1] /\ r \in released
          BY <3>1, <1>e, <1>i, <1>j DEF q
        <4> QED
          BY <4>1 DEF PoolInv, PerAppFifo
      <3>2. CASE k # j
        BY <3>2, <1>j DEF PoolInv, PerAppFifo
      <3> QED
        BY <3>1, <3>2
    <2> QED
      BY <2>1, <2>2, <2>3 DEF PerAppFifo
  <1>8. SlotBound'
    <2>1. IsFiniteSet(in_flight) /\ Cardinality(in_flight) < MaxConcurrent
      BY DEF PoolInv, SlotBound, DispatchNext, CanDispatch
    <2>2. /\ IsFiniteSet(in_flight \cup {a})
          /\ Cardinality(in_flight \cup {a}) = Cardinality(in_flight) + 1
          /\ Cardinality(in_flight) \in Nat
      BY <2>1, <1>h, FS_AddElement, FS_CardinalityType
    <2> QED
      BY <1>l, <2>1, <2>2, PoolAssumption DEF SlotBound
  <1>9. FiniteStages' /\ Accounting'
    <2>1. FiniteStages'
      BY <1>j, <1>n DEF PoolInv, FiniteStages
    <2>2. Cardinality(popped) = 0 /\ Cardinality(popped') = 1
      BY <1>a, <1>j, FS_EmptySet, FS_Singleton
    <2>3. queue_depth' = queue_depth - 1 /\ UNCHANGED <<enqueued, started, completed>>
      BY DEF DispatchNext, counterVars
    <2> QED
      <3>1. queue_depth' = Cardinality(Waiting')
        BY <1>n, <2>3 DEF PoolInv, Accounting
      <3>2. enqueued' = queue_depth' + Cardinality(popped') + started'
        <4>1. enqueued = queue_depth + Cardinality(popped) + started
          BY DEF PoolInv, Accounting
        <4>2. queue_depth \in Nat /\ started \in Nat
          BY <1>a DEF TypeOK
        <4> QED
          BY <4>1, <4>2, <2>2, <2>3
      <3> QED
        BY <1>j, <2>1, <2>3, <3>1, <3>2 DEF PoolInv, Accounting
  <1>10. NoLostWakeup'
    BY <1>l DEF NoLostWakeup
  <1> QED
    BY <1>1, <1>2, <1>3, <1>4, <1>5, <1>6, <1>7, <1>8, <1>9, <1>10 DEF PoolInv

LEMMA SpawnHandlerPoolInv ==
  ASSUME PoolInv, SpawnHandler
  PROVE  PoolInv'
  <1> USE DEF stateVars
  <1>1. PICK j \in popped : popped = {j}
    BY DEF PoolInv, PoppedShape, SpawnHandler
  <1>2. /\ popped' = {} /\ running' = running \cup {j} /\ panicked' = panicked
        /\ released' = released /\ queues' = queues /\ disp' = "drain"
        /\ in_flight' = in_flight /\ keys' = keys /\ ready' = ready
    BY <1>1 DEF SpawnHandler
  <1>3. j \in Job /\ j \notin running /\ j \notin panicked
    BY <1>1 DEF PoolInv, TypeOK, StagesDisjoint
  <1>4. Owners' = Owners /\ Waiting' = Waiting
    BY <1>1, <1>2 DEF Owners, Waiting
  <1>5. TypeOK' /\ PoppedShape' /\ NoLostWakeup'
    BY <1>2, <1>3 DEF PoolInv, TypeOK, PoppedShape, NoLostWakeup, SpawnHandler
  <1>6. KeysExact' /\ ReadyExact' /\ StagesDisjoint' /\ SlotBound'
    BY <1>1, <1>2, <1>3
    DEF PoolInv, KeysExact, ReadyExact, InReady, StagesDisjoint, SlotBound
  <1>7. OneJobPerApp' /\ JobsNumbered' /\ PerAppFifo'
    BY <1>2, <1>4 DEF PoolInv, OneJobPerApp, JobsNumbered, PerAppFifo, SpawnHandler
  <1>8. FiniteStages' /\ Accounting'
    <2>1. IsFiniteSet(running') /\ Cardinality(running') = Cardinality(running) + 1
      BY <1>2, <1>3, FS_AddElement DEF PoolInv, FiniteStages
    <2>2. FiniteStages'
      BY <1>2, <1>4, <2>1 DEF PoolInv, FiniteStages
    <2>3. Cardinality(popped) = 1 /\ Cardinality(popped') = 0
      BY <1>1, <1>2, FS_EmptySet, FS_Singleton
    <2>4. /\ started' = started + 1
          /\ UNCHANGED <<queue_depth, enqueued, completed>>
      BY DEF SpawnHandler
    <2>5. /\ queue_depth = Cardinality(Waiting)
          /\ enqueued = queue_depth + Cardinality(popped) + started
          /\ started = Cardinality(running) + Cardinality(released)
                         + Cardinality(panicked) + completed
      BY DEF PoolInv, Accounting
    <2>6. /\ queue_depth \in Nat /\ started \in Nat /\ completed \in Nat
          /\ Cardinality(running) \in Nat /\ Cardinality(released) \in Nat
          /\ Cardinality(panicked) \in Nat
      BY FS_CardinalityType DEF PoolInv, TypeOK, FiniteStages
    <2>7. Accounting'
      BY <1>2, <1>4, <2>1, <2>3, <2>4, <2>5, <2>6 DEF Accounting
    <2> QED
      BY <2>2, <2>7
  <1> QED
    BY <1>5, <1>6, <1>7, <1>8 DEF PoolInv

LEMMA HandlerFinishPoolInv ==
  ASSUME PoolInv, NEW j \in running, HandlerFinish(j)
  PROVE  PoolInv'
  <1> DEFINE a == j.app
  <1>a. TypeOK /\ j \in Job /\ a \in Apps /\ a \in in_flight /\ j \in Owners
    BY DEF PoolInv, TypeOK, Job, OneJobPerApp, Owners
  <1>b. /\ running' = running \ {j} /\ released' = released \cup {j}
        /\ popped' = popped /\ panicked' = panicked /\ in_flight' = in_flight \ {a}
    BY DEF HandlerFinish
  <1>c. Owners' = Owners \ {j}
    BY <1>b DEF PoolInv, StagesDisjoint, Owners
  <1>d. \A k \in Owners : k.app = a => k = j
    BY <1>a DEF PoolInv, OneJobPerApp
  <1>e. a \in keys
    BY <1>a DEF PoolInv, KeysExact
  <1>f. queues' = queues
    BY <1>a, <1>e DEF HandlerFinish, TypeOK
  <1>g. /\ queues[a] # <<>> => ready' = Append(ready, a) /\ keys' = keys
        /\ queues[a] = <<>> => ready' = ready /\ keys' = keys \ {a}
    BY <1>e DEF HandlerFinish, Requeue, DropKey
  <1>h. ~InReady(a)
    BY <1>a DEF PoolInv, ReadyExact
  <1>i. UNCHANGED <<queue_depth, shutdown, permit, disp, owed, caller, enqueued,
                    rejected_full, started, completed>>
    BY DEF HandlerFinish, counterVars
  <1>j. j \notin released
    BY <1>a DEF PoolInv, PerAppFifo, TypeOK, Job
  <1> HIDE DEF a
  <1>1. TypeOK'
    <2>1. ready' \in Seq(Apps)
      <3>1. ready \in Seq(Apps)
        BY <1>a DEF TypeOK
      <3>2. Append(ready, a) \in Seq(Apps)
        BY <1>a, <3>1, AppendFacts
      <3> QED
        BY <1>g, <3>1, <3>2
    <2>2. keys' \subseteq Apps
      BY <1>a, <1>g DEF TypeOK
    <2> QED
      BY <1>a, <1>b, <1>f, <1>i, <2>1, <2>2 DEF TypeOK
  <1>2. KeysExact'
    BY <1>a, <1>b, <1>f, <1>g DEF PoolInv, KeysExact
  <1>3. ReadyExact'
    <2>1. CASE queues[a] = <<>>
      BY <2>1, <1>b, <1>f, <1>g DEF PoolInv, ReadyExact, InReady
    <2>2. CASE queues[a] # <<>>
      <3>1. ready \in Seq(Apps) /\ ready' = Append(ready, a)
        BY <1>a, <1>g, <2>2 DEF TypeOK
      <3>2. /\ Len(ready) \in Nat
            /\ DOMAIN ready = 1 .. Len(ready)
            /\ DOMAIN ready' = 1 .. (Len(ready) + 1)
            /\ \A i \in 1 .. Len(ready) : ready'[i] = ready[i]
            /\ ready'[Len(ready) + 1] = a
        BY <1>a, <3>1, AppendFacts
      <3>3. \A b \in Apps : InReady(b)' <=> (InReady(b) \/ b = a)
        BY <3>2 DEF InReady
      <3>4. \A i, k \in DOMAIN ready' : ready'[i] = ready'[k] => i = k
        BY <3>2, <1>h DEF InReady, PoolInv, ReadyExact
      <3> QED
        BY <2>2, <3>3, <3>4, <1>a, <1>b, <1>f DEF PoolInv, ReadyExact
    <2> QED
      BY <2>1, <2>2
  <1>4. OneJobPerApp'
    BY <1>b, <1>c, <1>d DEF PoolInv, OneJobPerApp, a
  <1>5. PoppedShape' /\ StagesDisjoint'
    BY <1>b, <1>i DEF PoolInv, PoppedShape, StagesDisjoint
  <1>6. JobsNumbered'
    BY <1>a, <1>b, <1>c, <1>f, <1>i DEF PoolInv, JobsNumbered
  <1>7. PerAppFifo'
    <2>1. \A k \in Owners' \cup released' :
             \A i \in DOMAIN queues'[k.app] : k.job < queues'[k.app][i]
      BY <1>a, <1>b, <1>c, <1>f DEF PoolInv, PerAppFifo
    <2>2. \A r \in released', k \in Owners' : r.app = k.app => r.job < k.job
      BY <1>b, <1>c, <1>d DEF PoolInv, PerAppFifo, a
    <2> QED
      BY <1>f, <2>1, <2>2 DEF PoolInv, PerAppFifo
  <1>8. SlotBound'
    <2>1. IsFiniteSet(in_flight) /\ Cardinality(in_flight) <= MaxConcurrent
      BY DEF PoolInv, SlotBound
    <2>2. /\ IsFiniteSet(in_flight')
          /\ Cardinality(in_flight') <= Cardinality(in_flight)
          /\ Cardinality(in_flight') \in Nat /\ Cardinality(in_flight) \in Nat
      BY <1>b, <2>1, FS_Subset, FS_CardinalityType
    <2> QED
      BY <2>1, <2>2, PoolAssumption DEF SlotBound
  <1>9. FiniteStages' /\ Accounting'
    <2>0. Waiting' = Waiting
      BY <1>f DEF Waiting
    <2>1. /\ IsFiniteSet(running) /\ IsFiniteSet(released)
          /\ IsFiniteSet(panicked) /\ IsFiniteSet(Waiting)
      BY DEF PoolInv, FiniteStages
    <2>2. IsFiniteSet(running') /\ Cardinality(running') = Cardinality(running) - 1
      BY <1>b, <2>1, FS_RemoveElement
    <2>3. IsFiniteSet(released') /\ Cardinality(released') = Cardinality(released) + 1
      BY <1>b, <1>j, <2>1, FS_AddElement
    <2>4. /\ Cardinality(running) \in Nat /\ Cardinality(released) \in Nat
          /\ Cardinality(panicked) \in Nat
      BY <2>1, FS_CardinalityType
    <2>5. /\ queue_depth = Cardinality(Waiting)
          /\ enqueued = queue_depth + Cardinality(popped) + started
          /\ started = Cardinality(running) + Cardinality(released)
                         + Cardinality(panicked) + completed
      BY DEF PoolInv, Accounting
    <2>6. completed \in Nat /\ started \in Nat
      BY <1>a DEF TypeOK
    <2>7. started = Cardinality(running') + Cardinality(released')
                     + Cardinality(panicked) + completed
      BY <2>2, <2>3, <2>4, <2>5, <2>6
    <2> QED
      BY <1>b, <1>i, <2>0, <2>1, <2>2, <2>3, <2>5, <2>7 DEF FiniteStages, Accounting
  <1>10. NoLostWakeup'
    BY <1>b DEF NoLostWakeup
  <1> QED
    BY <1>1, <1>2, <1>3, <1>4, <1>5, <1>6, <1>7, <1>8, <1>9, <1>10 DEF PoolInv

LEMMA TaskNotifyPoolInv ==
  ASSUME PoolInv, NEW j \in released, TaskNotify(j)
  PROVE  PoolInv'
  <1> USE DEF stateVars
  <1>1. /\ released' = released \ {j} /\ completed' = completed + 1
        /\ UNCHANGED <<keys, queues, ready, in_flight, queue_depth, shutdown, popped,
                       running, panicked, owed, caller, enqueued, rejected_full, started>>
    BY DEF TaskNotify
  <1>2. Owners' = Owners /\ Waiting' = Waiting
    BY <1>1 DEF Owners, Waiting
  <1>3. TypeOK' /\ PoppedShape' /\ NoLostWakeup'
    BY <1>1, NotifyOneFacts DEF PoolInv, TypeOK, PoppedShape, NoLostWakeup, TaskNotify
  <1>4. KeysExact' /\ ReadyExact' /\ StagesDisjoint' /\ SlotBound'
    BY <1>1 DEF PoolInv, KeysExact, ReadyExact, InReady, StagesDisjoint, SlotBound
  <1>5. OneJobPerApp' /\ JobsNumbered' /\ PerAppFifo'
    BY <1>1, <1>2 DEF PoolInv, OneJobPerApp, JobsNumbered, PerAppFifo
  <1>6. FiniteStages' /\ Accounting'
    <2>1. IsFiniteSet(released) /\ IsFiniteSet(running) /\ IsFiniteSet(panicked)
      BY DEF PoolInv, FiniteStages
    <2>2. IsFiniteSet(released') /\ Cardinality(released') = Cardinality(released) - 1
      BY <1>1, <2>1, FS_RemoveElement
    <2>3. FiniteStages'
      BY <1>1, <1>2, <2>2 DEF PoolInv, FiniteStages
    <2>4. /\ Cardinality(running) \in Nat /\ Cardinality(released) \in Nat
          /\ Cardinality(panicked) \in Nat
      BY <2>1, FS_CardinalityType
    <2>5. completed \in Nat /\ started \in Nat
      BY DEF PoolInv, TypeOK
    <2>6. started = Cardinality(running) + Cardinality(released)
                     + Cardinality(panicked) + completed
      BY DEF PoolInv, Accounting
    <2>7. started = Cardinality(running) + Cardinality(released')
                     + Cardinality(panicked) + completed'
      BY <1>1, <2>2, <2>4, <2>5, <2>6
    <2> QED
      BY <1>1, <1>2, <2>3, <2>7 DEF PoolInv, Accounting
  <1> QED
    BY <1>3, <1>4, <1>5, <1>6 DEF PoolInv

LEMMA HandlerPanicPoolInv ==
  ASSUME PoolInv, NEW j \in running, HandlerPanic(j)
  PROVE  PoolInv'
  <1> USE DEF stateVars, counterVars
  <1>1. /\ running' = running \ {j} /\ panicked' = panicked \cup {j}
        /\ UNCHANGED <<keys, queues, ready, in_flight, queue_depth, shutdown, permit,
                       disp, popped, released, owed, caller, enqueued, rejected_full,
                       started, completed>>
    BY DEF HandlerPanic
  <1>2. Owners' = Owners /\ Waiting' = Waiting
    BY <1>1 DEF Owners, Waiting
  <1>3. TypeOK' /\ PoppedShape' /\ NoLostWakeup'
    BY <1>1 DEF PoolInv, TypeOK, PoppedShape, NoLostWakeup, CanDispatch
  <1>4. KeysExact' /\ ReadyExact' /\ StagesDisjoint' /\ SlotBound'
    BY <1>1 DEF PoolInv, KeysExact, ReadyExact, InReady, StagesDisjoint, SlotBound
  <1>5. OneJobPerApp' /\ JobsNumbered' /\ PerAppFifo'
    BY <1>1, <1>2 DEF PoolInv, OneJobPerApp, JobsNumbered, PerAppFifo
  <1>6. FiniteStages' /\ Accounting'
    <2>1. IsFiniteSet(released) /\ IsFiniteSet(running) /\ IsFiniteSet(panicked)
      BY DEF PoolInv, FiniteStages
    <2>2. IsFiniteSet(running') /\ Cardinality(running') = Cardinality(running) - 1
      BY <1>1, <2>1, FS_RemoveElement
    <2>3. j \notin panicked
      BY DEF PoolInv, StagesDisjoint
    <2>4. IsFiniteSet(panicked') /\ Cardinality(panicked') = Cardinality(panicked) + 1
      BY <1>1, <2>1, <2>3, FS_AddElement
    <2>5. FiniteStages'
      BY <1>1, <1>2, <2>2, <2>4 DEF PoolInv, FiniteStages
    <2>6. /\ Cardinality(running) \in Nat /\ Cardinality(released) \in Nat
          /\ Cardinality(panicked) \in Nat
      BY <2>1, FS_CardinalityType
    <2>7. completed \in Nat /\ started \in Nat
      BY DEF PoolInv, TypeOK
    <2>8. started = Cardinality(running) + Cardinality(released)
                     + Cardinality(panicked) + completed
      BY DEF PoolInv, Accounting
    <2>9. started = Cardinality(running') + Cardinality(released)
                     + Cardinality(panicked') + completed
      BY <2>2, <2>4, <2>6, <2>7, <2>8
    <2> QED
      BY <1>1, <1>2, <2>5, <2>9 DEF PoolInv, Accounting
  <1> QED
    BY <1>3, <1>4, <1>5, <1>6 DEF PoolInv

LEMMA NextPoolInv == PoolInv /\ [Next]_vars => PoolInv'
  <1> SUFFICES ASSUME PoolInv, [Next]_vars PROVE PoolInv'
    OBVIOUS
  <1>1. ASSUME NEW a \in Apps, NEW coalesce \in BOOLEAN,
               EnqueueAccepted(a, coalesce) \/ EnqueueQueueFull(a, coalesce)
        PROVE  PoolInv'
    BY <1>1, EnqueueAcceptedPoolInv, EnqueueQueueFullPoolInv
  <1>2. CASE ProducerNotify
    BY <1>2, ProducerNotifyPoolInv
  <1>3. CASE DispatchNext \/ SpawnHandler \/ DispatchNone
    BY <1>3, DispatchNextPoolInv, SpawnHandlerPoolInv, DispatchNonePoolInv
  <1>4. CASE \/ CheckShutdown \/ Park \/ DispatcherExit
             \/ ShutdownFlag \/ ShutdownNotify \/ ShutdownReturn
             \/ UNCHANGED vars
    BY <1>4, ControlStepPoolInv
  <1>5. ASSUME NEW j \in running, HandlerFinish(j) \/ HandlerPanic(j)
        PROVE  PoolInv'
    BY <1>5, HandlerFinishPoolInv, HandlerPanicPoolInv
  <1>6. ASSUME NEW j \in released, TaskNotify(j)
        PROVE  PoolInv'
    BY <1>6, TaskNotifyPoolInv
  <1> QED
    BY <1>1, <1>2, <1>3, <1>4, <1>5, <1>6 DEF Next, Dispatcher

(* PoolInv is an invariant of the worker pool.                             *)
THEOREM PoolInvariant == Spec => []PoolInv
  BY InitPoolInv, NextPoolInv, PTL DEF Spec

-----------------------------------------------------------------------------
(* The theorems.                                                           *)

(* Every variable keeps its type; in particular queue_depth, a usize, is   *)
(* never decremented below zero by next_dispatch.                          *)
THEOREM TypeCorrect == Spec => []TypeOK
  <1>1. PoolInv => TypeOK
    BY DEF PoolInv
  <1> QED
    BY <1>1, PoolInvariant, PTL

(* The apps map is the single source of truth enqueue_coalesce takes it    *)
(* for: an app is a key exactly while it has a job queued or in flight.    *)
THEOREM MapPresenceExact == Spec => []KeysExact
  <1>1. PoolInv => KeysExact
    BY DEF PoolInv
  <1> QED
    BY <1>1, PoolInvariant, PTL

(* The ready list never forgets an app with work and never lists one twice,*)
(* so the defensive arm of next_dispatch is unreachable.                   *)
THEOREM ReadyListExact == Spec => []ReadyExact
  <1>1. PoolInv => ReadyExact
    BY DEF PoolInv
  <1> QED
    BY <1>1, PoolInvariant, PTL

(* At most one job of an app is in flight.                                 *)
THEOREM SerialPerApp == Spec => []OneJobPerApp
  <1>1. PoolInv => OneJobPerApp
    BY DEF PoolInv
  <1> QED
    BY <1>1, PoolInvariant, PTL

(* Jobs of an app run in the order they were enqueued.                     *)
THEOREM FifoPerApp == Spec => []PerAppFifo
  <1>1. PoolInv => PerAppFifo
    BY DEF PoolInv
  <1> QED
    BY <1>1, PoolInvariant, PTL

(* A dispatcher that is about to park, or is parked, with dispatchable work*)
(* has a wakeup stored or on its way.                                      *)
THEOREM WakeupsNotLost == Spec => []NoLostWakeup
  <1>1. PoolInv => NoLostWakeup
    BY DEF PoolInv
  <1> QED
    BY <1>1, PoolInvariant, PTL

(* The statistics account for every accepted job.                          *)
THEOREM CountersAccount == Spec => []Accounting
  <1>1. PoolInv => Accounting
    BY DEF PoolInv
  <1> QED
    BY <1>1, PoolInvariant, PTL

(* The jobs that hold a slot are as many as the apps in in_flight.         *)
LEMMA OwnersCounted ==
  ASSUME OneJobPerApp, IsFiniteSet(in_flight)
  PROVE  IsFiniteSet(Owners) /\ Cardinality(Owners) = Cardinality(in_flight)
  <1> DEFINE f == [j \in Owners |-> j.app]
  <1>1. f \in [Owners -> in_flight]
    BY DEF OneJobPerApp
  <1>2. f \in Injection(Owners, in_flight)
    BY <1>1 DEF OneJobPerApp, Injection, IsInjective
  <1>3. f \in Surjection(Owners, in_flight)
    BY <1>1 DEF OneJobPerApp, Surjection
  <1> HIDE DEF f
  <1> QED
    BY <1>2, <1>3, FS_Injection

(* No more than max_concurrent handler invocations are in flight at once.  *)
THEOREM ConcurrencyBound == Spec => []GlobalBound
  <1>1. PoolInv => GlobalBound
    BY OwnersCounted DEF PoolInv, SlotBound, GlobalBound
  <1> QED
    BY <1>1, PoolInvariant, PTL

(* What each step does to the queues, the ready list and the slots.        *)
LEMMA StepShapes ==
  ASSUME PoolInv, [Next]_vars
  PROVE  \/ UNCHANGED <<queues, ready, Owners, shutdown, enqueued>>
         \/ \E a \in Apps, coalesce \in BOOLEAN : EnqueueAccepted(a, coalesce)
         \/ DispatchNext
         \/ \E j \in running : HandlerFinish(j)
         \/ ShutdownFlag
  <1> USE DEF stateVars, counterVars
  <1>1. ASSUME NEW a \in Apps, NEW coalesce \in BOOLEAN, EnqueueQueueFull(a, coalesce)
        PROVE  UNCHANGED <<queues, ready, Owners, shutdown, enqueued>>
    BY <1>1 DEF EnqueueQueueFull, Owners
  <1>2. CASE ProducerNotify \/ CheckShutdown \/ Park \/ DispatcherExit
             \/ ShutdownNotify \/ ShutdownReturn \/ UNCHANGED vars
    BY <1>2 DEF ProducerNotify, CheckShutdown, Park, DispatcherExit, ShutdownNotify,
                ShutdownReturn, vars, Owners
  <1>3. CASE SpawnHandler
    BY <1>3 DEF SpawnHandler, Owners
  <1>4. CASE DispatchNone
    <2>1. ~CanDispatch
      BY <1>4, HeadReady DEF DispatchNone
    <2> QED
      BY <1>4, <2>1 DEF DispatchNone, Owners
  <1>5. ASSUME NEW j \in running, HandlerPanic(j)
        PROVE  UNCHANGED <<queues, ready, Owners, shutdown, enqueued>>
    BY <1>5 DEF HandlerPanic, Owners
  <1>6. ASSUME NEW j \in released, TaskNotify(j)
        PROVE  UNCHANGED <<queues, ready, Owners, shutdown, enqueued>>
    BY <1>6 DEF TaskNotify, Owners
  <1> QED
    BY <1>1, <1>2, <1>3, <1>4, <1>5, <1>6 DEF Next, Dispatcher

(* What a completion does: the slot is freed and the app queues up again   *)
(* behind the others if it has work.                                       *)
LEMMA FinishShape ==
  ASSUME PoolInv, NEW j \in running, HandlerFinish(j)
  PROVE  /\ queues' = queues /\ shutdown' = shutdown /\ enqueued' = enqueued
         /\ ready' = ready \/ ready' = Append(ready, j.app)
         /\ Owners' = Owners \ {j} /\ j \in Owners /\ j.app \in Apps
         /\ disp' = disp /\ running' \subseteq running
  <1>1. TypeOK /\ j \in Owners /\ j.app \in Apps /\ j.app \in in_flight
    BY DEF PoolInv, TypeOK, Job, OneJobPerApp, Owners
  <1>2. j.app \in keys
    BY <1>1 DEF PoolInv, KeysExact
  <1>3. queues' = queues /\ (ready' = ready \/ ready' = Append(ready, j.app))
    BY <1>1, <1>2 DEF HandlerFinish, TypeOK, Requeue
  <1>4. Owners' = Owners \ {j}
    BY DEF HandlerFinish, PoolInv, StagesDisjoint, Owners
  <1> QED
    BY <1>1, <1>3, <1>4 DEF HandlerFinish, counterVars

(* Once the dispatcher has exited no handler task is left.                 *)
ExitQuiescent == disp = "exited" => popped = {} /\ running = {} /\ released = {}

LEMMA NextExitQuiescent ==
  ASSUME PoolInv, ExitQuiescent, [Next]_vars
  PROVE  ExitQuiescent'
  <1> USE DEF ExitQuiescent, stateVars, counterVars
  <1>1. ASSUME NEW a \in Apps, NEW coalesce \in BOOLEAN,
               EnqueueAccepted(a, coalesce) \/ EnqueueQueueFull(a, coalesce)
        PROVE  ExitQuiescent'
    BY <1>1 DEF EnqueueAccepted, EnqueueQueueFull
  <1>2. CASE ProducerNotify
    BY <1>2 DEF ProducerNotify, NotifyOne
  <1>3. CASE DispatchNext \/ SpawnHandler \/ DispatchNone \/ CheckShutdown \/ Park
    BY <1>3 DEF DispatchNext, SpawnHandler, DispatchNone, CheckShutdown, Park
  <1>4. CASE DispatcherExit
    BY <1>4 DEF DispatcherExit, PoolInv, PoppedShape
  <1>5. ASSUME NEW j \in running, HandlerFinish(j) \/ HandlerPanic(j)
        PROVE  ExitQuiescent'
    BY <1>5 DEF HandlerFinish, HandlerPanic
  <1>6. ASSUME NEW j \in released, TaskNotify(j)
        PROVE  ExitQuiescent'
    BY <1>6 DEF TaskNotify, NotifyOne
  <1>7. CASE ShutdownFlag \/ ShutdownNotify \/ ShutdownReturn \/ UNCHANGED vars
    BY <1>7 DEF ShutdownFlag, ShutdownNotify, NotifyWaiters, ShutdownReturn, vars
  <1> QED
    BY <1>1, <1>2, <1>3, <1>4, <1>5, <1>6, <1>7 DEF Next, Dispatcher

(* After the shutdown flag is set no queue changes, and the dispatcher     *)
(* exits only when every handler task has ended.                           *)
THEOREM ShutdownDrainsInFlightOnly == Spec => DrainInFlightOnly
  <1> DEFINE Step == /\ shutdown => queues' = queues
                     /\ disp' = "exited" => Owners' \subseteq panicked' /\ released' = {}
  <1>1. Init => ExitQuiescent
    BY DEF Init, ExitQuiescent
  <1>2. PoolInv /\ ExitQuiescent /\ [Next]_vars => ExitQuiescent'
    BY NextExitQuiescent
  <1>3. PoolInv /\ ExitQuiescent /\ [Next]_vars => [Step]_vars
    <2> SUFFICES ASSUME PoolInv, ExitQuiescent, [Next]_vars PROVE Step
      OBVIOUS
    <2>1. ExitQuiescent'
      BY NextExitQuiescent
    <2>2. disp' = "exited" => Owners' \subseteq panicked' /\ released' = {}
      BY <2>1 DEF ExitQuiescent, Owners
    <2>3. ASSUME shutdown PROVE queues' = queues
      BY <2>3, StepShapes, FinishShape
      DEF EnqueueAccepted, MayEnqueue, DispatchNext, CanDispatch, ShutdownFlag
    <2> QED
      BY <2>2, <2>3
  <1> QED
    BY <1>1, <1>2, <1>3, PoolInvariant, PTL DEF Spec, DrainInFlightOnly

(* An app that waits in ready only moves forward, until it is dispatched.  *)
THEOREM ReadyServedInTurn == Spec => NoOvertaking
  <1> DEFINE Step == \A i \in DOMAIN ready :
                       \/ ready[i] \in in_flight'
                       \/ \E k \in DOMAIN ready' : k <= i /\ ready'[k] = ready[i]
  <1>1. PoolInv /\ [Next]_vars => [Step]_vars
    <2> SUFFICES ASSUME PoolInv, [Next]_vars PROVE Step
      OBVIOUS
    <2>0. ready \in Seq(Apps) /\ Len(ready) \in Nat /\ DOMAIN ready = 1 .. Len(ready)
      BY DEF PoolInv, TypeOK
    <2>1. CASE ready' = ready
      BY <2>0, <2>1
    <2>2. ASSUME NEW a \in Apps, ready' = Append(ready, a) PROVE Step
      <3>1. /\ DOMAIN ready' = 1 .. (Len(ready) + 1)
            /\ \A i \in 1 .. Len(ready) : ready'[i] = ready[i]
        BY <2>0, <2>2, AppendFacts
      <3> QED
        BY <2>0, <3>1
    <2>3. CASE DispatchNext
      <3>1. ready' = Tail(ready) /\ ready # <<>> /\ Head(ready) \in in_flight'
        BY <2>3 DEF DispatchNext, CanDispatch
      <3>2. /\ Head(ready) = ready[1]
            /\ DOMAIN ready' = 1 .. (Len(ready) - 1)
            /\ \A i \in 1 .. (Len(ready) - 1) : ready'[i] = ready[i + 1]
        BY <2>0, <3>1, TailFacts
      <3> SUFFICES ASSUME NEW i \in DOMAIN ready, ready[i] \notin in_flight'
                   PROVE  \E k \in DOMAIN ready' : k <= i /\ ready'[k] = ready[i]
        OBVIOUS
      <3>3. i # 1
        BY <3>1, <3>2
      <3>4. i - 1 \in DOMAIN ready' /\ i - 1 <= i /\ ready'[i - 1] = ready[i]
        BY <2>0, <3>2, <3>3
      <3> QED
        BY <3>4
    <2>4. \/ ready' = ready
          \/ \E a \in Apps : ready' = Append(ready, a)
          \/ DispatchNext
      BY StepShapes, FinishShape DEF EnqueueAccepted, ShutdownFlag
    <2> QED
      BY <2>1, <2>2, <2>3, <2>4
  <1> QED
    BY <1>1, PoolInvariant, PTL DEF Spec, NoOvertaking

(* The worker pool implements the serial scheduler: every step is a step   *)
(* of SerialScheduler on the queues, the jobs that hold a slot, the        *)
(* shutdown flag and the enqueue counter, or leaves all four alone.        *)
THEOREM ImplementsSerialScheduler == Spec => ImplementsScheduler
  <1>1. Init => Scheduler!Init
    BY DEF Init, Scheduler!Init, Owners
  <1>2. PoolInv /\ [Next]_vars => [Scheduler!Next]_(Scheduler!vars)
    <2> SUFFICES ASSUME PoolInv, [Next]_vars
                 PROVE  [Scheduler!Next]_(Scheduler!vars)
      OBVIOUS
    <2>1. CASE UNCHANGED <<queues, ready, Owners, shutdown, enqueued>>
      BY <2>1 DEF Scheduler!vars
    <2>2. ASSUME NEW a \in Apps, NEW coalesce \in BOOLEAN, EnqueueAccepted(a, coalesce)
          PROVE  Scheduler!Accept(a)
      BY <2>2 DEF EnqueueAccepted, MayEnqueue, PushBack, Owners, Scheduler!Accept
    <2>3. CASE DispatchNext
      <3> DEFINE a == Head(ready)
      <3>1. a \in Apps /\ a \notin in_flight
        <4>1. ready \in Seq(Apps) /\ ready # <<>>
          BY <2>3 DEF DispatchNext, CanDispatch, PoolInv, TypeOK
        <4>2. Head(ready) \in Apps /\ InReady(Head(ready))
          BY <4>1, TailFacts DEF InReady
        <4> QED
          BY <4>2 DEF PoolInv, ReadyExact
      <3>2. Cardinality(Owners) < MaxConcurrent
        BY <2>3, OwnersCounted DEF DispatchNext, CanDispatch, PoolInv, SlotBound
      <3>3. \A j \in Owners : j.app # a
        BY <3>1 DEF PoolInv, OneJobPerApp
      <3>4. popped = {}
        BY <2>3 DEF DispatchNext, PoolInv, PoppedShape
      <3>5. Owners' = Owners \cup {[app |-> a, job |-> Head(queues[a])]}
        BY <2>3, <3>4 DEF DispatchNext, Owners
      <3>6. /\ ~shutdown /\ queues[a] # <<>>
            /\ queues' = [queues EXCEPT ![a] = Tail(@)]
            /\ shutdown' = shutdown /\ enqueued' = enqueued
        BY <2>3 DEF DispatchNext, CanDispatch, HeadHasWork, counterVars
      <3> HIDE DEF a
      <3>c. Scheduler!Cardinality(Owners) = Cardinality(Owners)
        BY Zenon DEF Cardinality, Scheduler!Cardinality
      <3>7. Scheduler!Start(a)
        BY <3>2, <3>3, <3>5, <3>6, <3>c DEF Scheduler!Start
      <3> QED
        BY <3>1, <3>7 DEF Scheduler!Next
    <2>4. ASSUME NEW j \in running, HandlerFinish(j)
          PROVE  j \in Owners /\ Scheduler!Finish(j)
      BY <2>4, FinishShape DEF Scheduler!Finish
    <2>5. CASE ShutdownFlag
      <3>1. CASE shutdown
        BY <2>5, <3>1 DEF ShutdownFlag, Scheduler!vars, Owners, counterVars, PoolInv, TypeOK
      <3>2. CASE ~shutdown
        BY <2>5, <3>2 DEF ShutdownFlag, Scheduler!Close, Scheduler!Next, Owners, counterVars
      <3> QED
        BY <3>1, <3>2
    <2> QED
      BY <2>1, <2>2, <2>3, <2>4, <2>5, StepShapes DEF Scheduler!Next
  <1> QED
    BY <1>1, <1>2, PoolInvariant, PTL DEF Spec, ImplementsScheduler, Scheduler!Spec
=============================================================================
