-------------------------- MODULE SerialScheduler --------------------------
(***************************************************************************)
(* What the reconcile worker pool promises to the components that enqueue  *)
(* into it, with no queue of ready apps, no dispatcher task and no wakeups:*)
(* jobs of one app run one at a time in the order they were accepted, at   *)
(* most MaxConcurrent jobs run at once, at most PerAppQueueCap jobs of an  *)
(* app wait, and a closed pool accepts and starts nothing.                 *)
(*                                                                         *)
(* module worker_pool.rs, header comment "Invariants", is the text this    *)
(* specification makes precise; WorkerPool implements it.                  *)
(***************************************************************************)
EXTENDS Naturals, Sequences, FiniteSets

CONSTANTS Apps, MaxConcurrent, PerAppQueueCap

VARIABLES
  pending,   \* app -> accepted jobs that have not started, oldest first
  active,    \* started jobs whose handler has not returned
  closed,    \* intake and dispatch are closed
  accepted   \* number of jobs accepted so far, also the name of the latest

vars == <<pending, active, closed, accepted>>

Job == [app : Apps, job : Nat]

Init ==
  /\ pending = [a \in Apps |-> <<>>]
  /\ active = {}
  /\ closed = FALSE
  /\ accepted = 0

Accept(a) ==
  /\ ~closed
  /\ Len(pending[a]) < PerAppQueueCap
  /\ accepted' = accepted + 1
  /\ pending' = [pending EXCEPT ![a] = Append(@, accepted')]
  /\ UNCHANGED <<active, closed>>

Start(a) ==
  /\ ~closed
  /\ pending[a] # <<>>
  /\ \A j \in active : j.app # a
  /\ Cardinality(active) < MaxConcurrent
  /\ pending' = [pending EXCEPT ![a] = Tail(@)]
  /\ active' = active \cup {[app |-> a, job |-> Head(pending[a])]}
  /\ UNCHANGED <<closed, accepted>>

Finish(j) ==
  /\ j \in active
  /\ active' = active \ {j}
  /\ UNCHANGED <<pending, closed, accepted>>

Close ==
  /\ ~closed
  /\ closed' = TRUE
  /\ UNCHANGED <<pending, active, accepted>>

Next ==
  \/ \E a \in Apps : Accept(a) \/ Start(a)
  \/ \E j \in active : Finish(j)
  \/ Close

Spec == Init /\ [][Next]_vars
=============================================================================
