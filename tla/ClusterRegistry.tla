--------------------------- MODULE ClusterRegistry ---------------------------
(***************************************************************************)
(* ClusterRegistry (synchrotron-kube/src/registry.rs): a lock-protected map*)
(* from cluster names to reference-counted health monitors.                *)
(*                                                                         *)
(* register looks the name up under the read lock, releases it to build a  *)
(* client and spawn the monitor, and looks again under the write lock.  A  *)
(* monitor's probe task ends when shutdown is called or its last handle is *)
(* dropped; a handle is the map's entry, what get and deregister returned, *)
(* or the value a register call has not stored yet.                        *)
(***************************************************************************)
EXTENDS Naturals

CONSTANTS
  ClusterNames,   \* names of clusters
  RegCallers,     \* tasks that use the registry
  NoMonitor,      \* no entry, no handle
  MaxMonitors     \* bound: monitors spawned

ASSUME RegistryAssumption == MaxMonitors \in Nat /\ NoMonitor \notin 1 .. MaxMonitors

VARIABLES
  monitors,    \* the map: name -> monitor or NoMonitor
  regCall,     \* caller -> where its call is, its name and the handle it has
  probers,     \* monitors whose probe task runs
  spawned      \* monitors spawned so far

registryVars == <<monitors, regCall, probers, spawned>>

IdleCall == [pc |-> "idle", name |-> NoMonitor, handle |-> NoMonitor]

RegistryInit ==
  /\ monitors = [n \in ClusterNames |-> NoMonitor]
  /\ regCall = [c \in RegCallers |-> IdleCall]
  /\ probers = {}
  /\ spawned = 0

\* The handles that exist to monitor m.
Handled(m) == (\E n \in ClusterNames : monitors[n] = m)
              \/ (\E c \in RegCallers : regCall[c].handle = m)

\* Drop for HealthMonitor: the last handle aborts the probe task.
DropUnhandled == probers' = {m \in probers : Handled(m)'}

RegisterCheck(c, n) ==
  /\ regCall[c] = IdleCall
  /\ monitors[n] = NoMonitor
  /\ regCall' = [regCall EXCEPT ![c] = [IdleCall EXCEPT !.pc = "connect", !.name = n]]
  /\ UNCHANGED <<monitors, probers, spawned>>

\* HealthMonitor::spawn: connect may fail, and the call returns with its error.
RegisterConnect(c) ==
  /\ regCall[c].pc = "connect" /\ spawned < MaxMonitors
  /\ spawned' = spawned + 1
  /\ regCall' = [regCall EXCEPT ![c].pc = "insert", ![c].handle = spawned + 1]
  /\ probers' = probers \cup {spawned + 1}
  /\ UNCHANGED monitors

RegisterConnectFails(c) ==
  /\ regCall[c].pc = "connect"
  /\ regCall' = [regCall EXCEPT ![c] = IdleCall]
  /\ UNCHANGED <<monitors, probers, spawned>>

\* mutant: no second look under the write lock
InsertBlind(n, m) == [monitors EXCEPT ![n] = m]
InsertIfAbsent(n, m) == IF monitors[n] = NoMonitor THEN [monitors EXCEPT ![n] = m] ELSE monitors

\* The loser shuts its monitor down and reports AlreadyRegistered.
RegisterInsert(c) ==
  /\ regCall[c].pc = "insert"
  /\ monitors' = InsertIfAbsent(regCall[c].name, regCall[c].handle)
  /\ regCall' = [regCall EXCEPT ![c] = IdleCall]
  /\ DropUnhandled
  /\ UNCHANGED spawned

\* get, and what client and health do before they read the monitor.
GetMonitor(c, n) ==
  /\ regCall[c] = IdleCall /\ monitors[n] # NoMonitor
  /\ regCall' = [regCall EXCEPT ![c] = [pc |-> "using", name |-> n, handle |-> monitors[n]]]
  /\ UNCHANGED <<monitors, probers, spawned>>

Deregister(c, n) ==
  /\ regCall[c] = IdleCall /\ monitors[n] # NoMonitor
  /\ monitors' = [monitors EXCEPT ![n] = NoMonitor]
  /\ regCall' = [regCall EXCEPT ![c] = [pc |-> "using", name |-> n, handle |-> monitors[n]]]
  /\ UNCHANGED <<probers, spawned>>

DropHandle(c) ==
  /\ regCall[c].pc = "using"
  /\ regCall' = [regCall EXCEPT ![c] = IdleCall]
  /\ UNCHANGED <<monitors, spawned>>
  /\ DropUnhandled

RegistryNext ==
  \E c \in RegCallers :
    \/ \E n \in ClusterNames : RegisterCheck(c, n) \/ GetMonitor(c, n) \/ Deregister(c, n)
    \/ RegisterConnect(c) \/ RegisterConnectFails(c) \/ RegisterInsert(c)
    \/ DropHandle(c)

RegistrySpec == RegistryInit /\ [][RegistryNext]_registryVars

-----------------------------------------------------------------------------
\* "rather than silently swapping the monitor (which would orphan in-flight subscribers)":
\* whatever registrations race, an entry is only ever removed, and while it is there, or a
\* caller uses its handle, its probe task runs, so that those who follow it keep hearing.
RegistryNeverSwaps ==
  [][\A n \in ClusterNames : monitors[n] # NoMonitor =>
        /\ monitors'[n] \in {monitors[n], NoMonitor}
        /\ \A m \in 1 .. MaxMonitors : Handled(m)' => m \in probers']_registryVars
=============================================================================
