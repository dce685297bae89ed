----------------------------- MODULE WorkerPool -----------------------------
(***************************************************************************)
(* The reconcile worker pool of synchrotron-reconcile (worker_pool.rs):    *)
(* producers enqueue jobs, one dispatcher task hands them to handler tasks,*)
(* and a tokio Notify wakes the dispatcher.                                *)
(*                                                                         *)
(* Every action is one critical section of the state mutex, or one step a  *)
(* task takes between two of them.  Calls that leave no trace (enqueue on  *)
(* a closed pool, a coalesced enqueue_coalesce) are stuttering steps.  A   *)
(* job is named by the value of the `enqueued` counter when it was         *)
(* accepted, which orders jobs as JobCtx.enqueued_at does.  The trigger a  *)
(* job carries is never read by the pool and is left out.                  *)
(***************************************************************************)
EXTENDS Naturals, Sequences, FiniteSets

CONSTANTS
  Apps,            \* application ids
  MaxConcurrent,   \* PoolConfig::max_concurrent
  PerAppQueueCap,  \* PoolConfig::per_app_queue_cap
  MaxJobs,         \* bound: accepted jobs in a behaviour
  MaxRejected,     \* bound: QueueFull answers in a behaviour
  MaxPanics        \* bound: handler invocations that panic

ASSUME PoolAssumption ==
  /\ MaxConcurrent \in Nat \ {0}
  /\ PerAppQueueCap \in Nat \ {0}
  /\ MaxJobs \in Nat /\ MaxRejected \in Nat /\ MaxPanics \in Nat

VARIABLES
  \* struct State, behind the mutex.  The map `apps` is its key set and its
  \* queues: queues[a] is <<>> for an app that is not a key.
  keys, queues, ready, in_flight, queue_depth, shutdown,
  permit,     \* tokio Notify: a stored notify_one permit
  disp,       \* where dispatcher_loop is
  popped,     \* the job next_dispatch returned, until its handler is spawned
  running,    \* jobs whose spawned task is inside handler(ctx).await
  released,   \* jobs whose task has left in_flight, notify_one still owed
  panicked,   \* jobs whose task ended inside the handler
  owed,       \* producers between unlocking and calling notify_one
  caller,     \* where WorkerPool::shutdown is
  enqueued, rejected_full, started, completed   \* struct Counters

stateVars == <<keys, queues, ready, in_flight, queue_depth, shutdown>>
counterVars == <<enqueued, rejected_full, started, completed>>
vars == <<stateVars, permit, disp, popped, running, released, panicked, owed,
          caller, counterVars>>

Job == [app : Apps, job : Nat]

Init ==
  /\ keys = {}
  /\ queues = [a \in Apps |-> <<>>]
  /\ ready = <<>>
  /\ in_flight = {}
  /\ queue_depth = 0
  /\ shutdown = FALSE
  /\ permit = FALSE
  /\ disp = "drain"
  /\ popped = {}
  /\ running = {}
  /\ released = {}
  /\ panicked = {}
  /\ owed = 0
  /\ caller = "none"
  /\ enqueued = 0
  /\ rejected_full = 0
  /\ started = 0
  /\ completed = 0

(***************************************************************************)
(* tokio::sync::Notify.  notify_one wakes the parked dispatcher or stores  *)
(* the one permit; notify_waiters wakes the parked dispatcher and stores   *)
(* nothing.                                                                *)
(***************************************************************************)
NotifyWaiters ==
  /\ disp' = IF disp = "parked" THEN "drain" ELSE disp
  /\ permit' = permit

NotifyOne ==
  IF disp = "parked"
  THEN disp' = "drain" /\ permit' = permit
  ELSE disp' = disp /\ permit' = TRUE

(***************************************************************************)
(* Producers: enqueue_impl, for enqueue (coalesce = FALSE) and             *)
(* enqueue_coalesce (coalesce = TRUE).                                     *)
(***************************************************************************)
MayEnqueue(a, coalesce) == ~shutdown /\ ~(coalesce /\ a \in keys)

\* mutant: the already_ready scan is forgotten
NeverInReady(a) == FALSE
InReady(a) == \E i \in DOMAIN ready : ready[i] = a

\* mutant: the in_flight test is forgotten
BecomesReadyWhileInFlight(a) == ~InReady(a)
BecomesReady(a) == a \notin in_flight /\ ~InReady(a)

\* mutant: the newest job goes first
PushFront(q, n) == <<n>> \o q
PushBack(q, n) == Append(q, n)

\* mutant: the cached depth is not maintained on enqueue
DepthNotRaised == queue_depth
DepthAfterPush == queue_depth + 1

EnqueueAccepted(a, coalesce) ==
  /\ MayEnqueue(a, coalesce)
  /\ Len(queues[a]) < PerAppQueueCap
  /\ enqueued < MaxJobs
  /\ keys' = keys \cup {a}
  /\ queues' = [queues EXCEPT ![a] = PushBack(@, enqueued + 1)]
  /\ queue_depth' = DepthAfterPush
  /\ enqueued' = enqueued + 1
  /\ ready' = IF BecomesReady(a) THEN Append(ready, a) ELSE ready
  /\ owed' = owed + 1
  /\ UNCHANGED <<in_flight, shutdown, permit, disp, popped, running, released,
                 panicked, caller, rejected_full, started, completed>>

EnqueueQueueFull(a, coalesce) ==
  /\ MayEnqueue(a, coalesce)
  /\ Len(queues[a]) >= PerAppQueueCap
  /\ rejected_full < MaxRejected
  /\ keys' = keys \cup {a}
  /\ rejected_full' = rejected_full + 1
  /\ UNCHANGED <<queues, ready, in_flight, queue_depth, shutdown, permit, disp,
                 popped, running, released, panicked, owed, caller, enqueued,
                 started, completed>>

\* The notify_one an accepting producer makes after dropping the lock.
ProducerNotify ==
  /\ owed > 0
  /\ owed' = owed - 1
  /\ NotifyOne
  /\ UNCHANGED <<stateVars, popped, running, released, panicked, caller, counterVars>>

(***************************************************************************)
(* The dispatcher task.                                                    *)
(***************************************************************************)
\* mutants: the bound is off by one; the shutdown flag is not consulted
CanDispatchOneMore ==
  ~shutdown /\ Cardinality(in_flight) <= MaxConcurrent /\ ready # <<>>
CanDispatchAfterShutdown == Cardinality(in_flight) < MaxConcurrent /\ ready # <<>>
CanDispatch == ~shutdown /\ Cardinality(in_flight) < MaxConcurrent /\ ready # <<>>

HeadHasWork == Head(ready) \in keys /\ queues[Head(ready)] # <<>>

DispatchNext ==
  LET a == Head(ready) IN
  /\ disp = "drain"
  /\ CanDispatch /\ HeadHasWork
  /\ ready' = Tail(ready)
  /\ queues' = [queues EXCEPT ![a] = Tail(@)]
  /\ queue_depth' = queue_depth - 1
  /\ in_flight' = in_flight \cup {a}
  /\ popped' = {[app |-> a, job |-> Head(queues[a])]}
  /\ disp' = "spawn"
  /\ UNCHANGED <<keys, shutdown, permit, running, released, panicked, owed, caller,
                 counterVars>>

\* record_started, then spawn_handler: both outside the lock.
SpawnHandler ==
  /\ disp = "spawn"
  /\ started' = started + 1
  /\ running' = running \cup popped
  /\ popped' = {}
  /\ disp' = "drain"
  /\ UNCHANGED <<stateVars, permit, released, panicked, owed, caller, enqueued,
                 rejected_full, completed>>

\* next_dispatch returns None: shut down, at the bound, nothing ready, or (the
\* defensive match arm) a ready app without queued work, which is then dropped.
DispatchNone ==
  /\ disp = "drain"
  /\ ~(CanDispatch /\ HeadHasWork)
  /\ ready' = IF CanDispatch THEN Tail(ready) ELSE ready
  /\ disp' = "check"
  /\ UNCHANGED <<keys, queues, in_flight, queue_depth, shutdown, permit, popped,
                 running, released, panicked, owed, caller, counterVars>>

\* The shutdown flag is read under the lock; what follows acts on that reading.
CheckShutdown ==
  /\ disp = "check"
  /\ disp' = IF shutdown THEN "await" ELSE "park"
  /\ UNCHANGED <<stateVars, permit, popped, running, released, panicked, owed,
                 caller, counterVars>>

\* mutant: a permit stored while the dispatcher was busy is thrown away
ParkIgnoringPermit ==
  /\ disp = "park"
  /\ disp' = "parked"
  /\ permit' = FALSE
  /\ UNCHANGED <<stateVars, popped, running, released, panicked, owed, caller,
                 counterVars>>

\* notify.notified().await: take the stored permit or become a waiter.
Park ==
  /\ disp = "park"
  /\ disp' = IF permit THEN "drain" ELSE "parked"
  /\ permit' = FALSE
  /\ UNCHANGED <<stateVars, popped, running, released, panicked, owed, caller,
                 counterVars>>

\* Every handle in in_flight_tasks has been awaited; a panicked one is ignored.
DispatcherExit ==
  /\ disp = "await"
  /\ running = {} /\ released = {}
  /\ disp' = "exited"
  /\ UNCHANGED <<stateVars, permit, popped, running, released, panicked, owed,
                 caller, counterVars>>

(***************************************************************************)
(* A spawned handler task: handler(ctx).await, the completion section, then*)
(* the counter and the wakeup.                                             *)
(***************************************************************************)
\* mutant: an app with more work goes back to the front of the line
RequeueFirst(a) == <<a>> \o ready
Requeue(a) == Append(ready, a)

\* mutant: the entry of an idle app is not garbage-collected
KeepKey(a) == keys
DropKey(a) == keys \ {a}

HandlerFinish(j) ==
  LET a == j.app IN
  /\ j \in running
  /\ running' = running \ {j}
  /\ released' = released \cup {j}
  /\ in_flight' = in_flight \ {a}
  /\ IF a \in keys /\ queues[a] # <<>>
     THEN ready' = Requeue(a) /\ keys' = keys /\ queues' = queues
     ELSE /\ ready' = ready
          /\ keys' = DropKey(a)
          /\ queues' = [queues EXCEPT ![a] = <<>>]
  /\ UNCHANGED <<queue_depth, shutdown, permit, disp, popped, panicked, owed, caller,
                 counterVars>>

\* mutant: completion is not counted
TaskNotifyUncounted(j) ==
  /\ j \in released
  /\ released' = released \ {j}
  /\ NotifyOne
  /\ UNCHANGED <<stateVars, popped, running, panicked, owed, caller, counterVars>>

TaskNotify(j) ==
  /\ j \in released
  /\ released' = released \ {j}
  /\ completed' = completed + 1
  /\ NotifyOne
  /\ UNCHANGED <<stateVars, popped, running, panicked, owed, caller, enqueued,
                 rejected_full, started>>

\* A panic unwinds the task: nothing after handler(ctx).await runs.
HandlerPanic(j) ==
  /\ j \in running
  /\ Cardinality(panicked) < MaxPanics
  /\ running' = running \ {j}
  /\ panicked' = panicked \cup {j}
  /\ UNCHANGED <<stateVars, permit, disp, popped, released, owed, caller, counterVars>>

(***************************************************************************)
(* WorkerPool::shutdown: set the flag, notify_waiters, join the dispatcher.*)
(***************************************************************************)
ShutdownFlag ==
  /\ caller = "none"
  /\ shutdown' = TRUE
  /\ caller' = "flagged"
  /\ UNCHANGED <<keys, queues, ready, in_flight, queue_depth, permit, disp, popped,
                 running, released, panicked, owed, counterVars>>

ShutdownNotify ==
  /\ caller = "flagged"
  /\ caller' = "joining"
  /\ NotifyWaiters
  /\ UNCHANGED <<stateVars, popped, running, released, panicked, owed, counterVars>>

ShutdownReturn ==
  /\ caller = "joining"
  /\ disp = "exited"
  /\ caller' = "returned"
  /\ UNCHANGED <<stateVars, permit, disp, popped, running, released, panicked, owed,
                 counterVars>>

Dispatcher ==
  \/ DispatchNext \/ SpawnHandler \/ DispatchNone
  \/ CheckShutdown \/ Park \/ DispatcherExit

Next ==
  \/ \E a \in Apps, coalesce \in BOOLEAN :
        EnqueueAccepted(a, coalesce) \/ EnqueueQueueFull(a, coalesce)
  \/ ProducerNotify
  \/ Dispatcher
  \/ \E j \in running : HandlerFinish(j) \/ HandlerPanic(j)
  \/ \E j \in released : TaskNotify(j)
  \/ ShutdownFlag \/ ShutdownNotify \/ ShutdownReturn

Spec == Init /\ [][Next]_vars

(***************************************************************************)
(* Fairness.  tokio polls every runnable task: the dispatcher and the tail *)
(* of a task or of a producer call keep moving.  Handlers are assumed to   *)
(* return or panic.  Nobody is obliged to enqueue or to shut down.         *)
(***************************************************************************)
Fairness ==
  /\ WF_vars(Dispatcher)
  /\ WF_vars(ProducerNotify)
  /\ \A j \in [app : Apps, job : 1 .. MaxJobs] :
        WF_vars(HandlerFinish(j) \/ HandlerPanic(j)) /\ WF_vars(TaskNotify(j))
  /\ WF_vars(ShutdownNotify)
  /\ WF_vars(ShutdownReturn)

FairSpec == Spec /\ Fairness

-----------------------------------------------------------------------------
\* Jobs that hold a concurrency slot: dispatched and not completed.
Owners == popped \cup running \cup panicked

\* Positions of the per-app queues that hold a job.
Waiting == UNION {{a} \X DOMAIN queues[a] : a \in Apps}

\* Every variable has the type of the field it stands for.
TypeOK ==
  /\ keys \subseteq Apps
  /\ queues \in [Apps -> Seq(Nat)]
  /\ ready \in Seq(Apps)
  /\ in_flight \subseteq Apps
  /\ queue_depth \in Nat
  /\ shutdown \in BOOLEAN
  /\ permit \in BOOLEAN
  /\ disp \in {"drain", "spawn", "check", "park", "parked", "await", "exited"}
  /\ popped \subseteq Job
  /\ running \subseteq Job
  /\ released \subseteq Job
  /\ panicked \subseteq Job
  /\ owed \in Nat
  /\ caller \in {"none", "flagged", "joining", "returned"}
  /\ enqueued \in Nat /\ rejected_full \in Nat
  /\ started \in Nat /\ completed \in Nat

\* The comment on State.apps: absent from the map means no pending job and none
\* in flight, and conversely, so that enqueue_coalesce may look at the map alone.
KeysExact == \A a \in Apps : a \in keys <=> (queues[a] # <<>> \/ a \in in_flight)

\* ready holds, once each, exactly the apps with queued work that are not in
\* flight: no queued app is forgotten and none is dispatched twice.
ReadyExact ==
  /\ \A a \in Apps : InReady(a) <=> (queues[a] # <<>> /\ a \notin in_flight)
  /\ \A i, k \in DOMAIN ready : ready[i] = ready[k] => i = k

\* in_flight is exactly the set of apps with a dispatched, uncompleted job, and
\* an app never has two of them (at most one in flight per app).
OneJobPerApp ==
  /\ in_flight = {j.app : j \in Owners}
  /\ \A j, k \in Owners : j.app = k.app => j = k

\* The global bound, on handler invocations and not on the bookkeeping set.
GlobalBound == Cardinality(Owners) <= MaxConcurrent

\* Per-app FIFO: a queue is in enqueue order, whatever runs for an app was
\* enqueued before everything that waits for it, and a task that has finished
\* ran an older job than the one that runs now.
PerAppFifo ==
  /\ \A a \in Apps : \A i, k \in DOMAIN queues[a] : i < k => queues[a][i] < queues[a][k]
  /\ \A j \in Owners \cup released :
       \A i \in DOMAIN queues[j.app] : j.job < queues[j.app][i]
  /\ \A r \in released, j \in Owners : r.app = j.app => r.job < j.job

\* No lost wakeup: once the dispatcher has found nothing to do, work that became
\* dispatchable since is announced by a permit or by a notify_one still to come.
NoLostWakeup ==
  (disp \in {"check", "park", "parked"} /\ CanDispatch)
    => (permit \/ owed > 0 \/ released # {})

\* The cached queue_depth is the number of waiting jobs, and the counters that
\* stats() reads, updated outside the lock, account for every job: none is lost
\* and none is counted twice.
Accounting ==
  /\ queue_depth = Cardinality(Waiting)
  /\ enqueued = queue_depth + Cardinality(popped) + started
  /\ started = Cardinality(running) + Cardinality(released)
                 + Cardinality(panicked) + completed

\* Once the shutdown flag is set no further job is taken off a queue, and once
\* the dispatcher has exited no handler task is left behind.
DrainInFlightOnly ==
  [][/\ shutdown => queues' = queues
     /\ disp' = "exited" => Owners' \subseteq panicked' /\ released' = {}]_vars

\* Waiting apps are served in turn: an app never moves back in ready, so a busy
\* app that is re-queued on completion cannot starve the others.
NoOvertaking ==
  [][\A i \in DOMAIN ready :
       LET a == ready[i] IN
       \/ a \in in_flight'
       \/ \E k \in DOMAIN ready' : k <= i /\ ready'[k] = a]_vars

\* An accepted job is taken off its queue unless the pool is shut down, a panic
\* has left its app marked in flight, or panics have leaked every slot.
AcceptedJobStarts ==
  \A a \in Apps, n \in 1 .. MaxJobs :
    (\E i \in DOMAIN queues[a] : queues[a][i] = n)
      ~> \/ \A i \in DOMAIN queues[a] : queues[a][i] # n
         \/ shutdown
         \/ \E j \in panicked : j.app = a
         \/ Cardinality(panicked) >= MaxConcurrent

\* "Shutdown flips a flag and wakes the dispatcher, which stops taking new work,
\* awaits every still-running handler, and exits" (worker_pool.rs header).
ShutdownReturns == (caller = "joining") ~> (caller = "returned")

\* The pool implements the scheduler its callers rely on.
Scheduler == INSTANCE SerialScheduler WITH
  pending <- queues, active <- Owners, closed <- shutdown, accepted <- enqueued
ImplementsScheduler == Scheduler!Spec
=============================================================================
