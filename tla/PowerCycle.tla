----------------------------- MODULE PowerCycle -----------------------------
(***************************************************************************)
(* One Machine's power cycle: the controller and the shutdown agent, which *)
(* talk only through the Machine object, in the cluster around them.       *)
(***************************************************************************)
EXTENDS MachineController, ShutdownAgent

CONSTANT Faults   \* may writes fail, packets get lost and processes crash

ASSUME FaultsAssumption == Faults \in BOOLEAN

vars == <<clusterVars, agentVars>>

\* Every object, every cached copy of one and the agent's memory keep their
\* shape, whatever the handlers write.
TypeOK == ClusterTypeOK /\ AgentTypeOK

Init == ClusterInit /\ AgentInit

Controller(ok) == Reconcile(ok) /\ AgentFollowsHost

Agent(ok) == AgentReconcile(ok)

Next ==
  \/ Controller(~Faults)
  \/ Agent(~Faults)
  \/ Environment /\ AgentFollowsHost
  \/ SyncAgent
  \/ Faults /\ AgentRestart

Spec == Init /\ [][Next]_vars

-----------------------------------------------------------------------------
(* Safety.                                                                 *)

Enters(state) == machine.state # state /\ machine'.state = state

Lifecycle == INSTANCE MachineLifecycle WITH
  state <- machine.state, wakeNow <- machine.wakeNow, drainNow <- machine.drainNow

\* The controller's handlers, stale caches and failing writes included, take
\* the Machine along the documented state graph only, each edge on its trigger.
FollowsLifecycle == Lifecycle!LifecycleSpec

\* At instant t, no anchor lies in the future and a state with a budget has
\* the anchor its budget is measured from.
Anchored(m, t) ==
  /\ m.bootStart # None => m.bootStart <= t
  /\ m.drainStart # None => m.drainStart <= t
  /\ m.shutdownStart # None => m.shutdownStart <= t
  /\ m.state = "Booting" => m.bootStart # None
  /\ m.state \in {"Draining", "ShuttingDown"} => m.drainStart # None
  /\ m.state = "ShuttingDown" => m.shutdownStart # None /\ m.drainStart <= m.shutdownStart

\* The Machine and every cached copy of it are anchored: no half-written
\* status, which the timeout checks read as not timed out, ever exists.
AnchoredStates ==
  Anchored(machine, now) /\ Anchored(machineCache, now) /\ Anchored(agentCache, now)

HostPowersOff == host = "on" /\ host' = "halting"

\* The agent never takes a host down under a pod that keeps its Node on: what
\* the drain confirmed with the API server still holds when the power goes.
NoWorkloadAtPowerOff == [][HostPowersOff => podsKeepingNodeOn(pods) = {}]_vars

\* A host goes down once per ShuttingDown episode, whatever restarts in between.
OnePowerOffPerEpisode == [][HostPowersOff => shutdownEpisode \notin poweredFor]_vars

\* The controller reports Off after a power-off only once the host is down.
OffMeansDown ==
  [][machine.state = "ShuttingDown" /\ Enters("Off") => host # "on"]_vars

\* A Node on its way down keeps its cordon.
CordonHeld ==
  machine.state = "ShuttingDown" /\ node.present => node.unschedulable

\* Nobody but the operator lifts a cordon the operator placed on a Node without
\* ONP's marker, whatever drains, wakes and aborts come in between: ONP never
\* claims a cordon it saw standing.  The pass that lifts has a current copy.
OperatorCordonKept ==
  [][cordonedBy = "operator" /\ CachedNode = node /\ node'.present /\ ~node'.unschedulable
       => ops' # ops]_vars

\* A Machine in service never keeps the cordon of a drain: it was lifted before
\* the state said Ready, on the drain's way back or after the next wake.
ReadyIsSchedulable ==
  machine.state = "Ready" /\ node.present /\ node.unschedulable => cordonedBy # "ONP"

-----------------------------------------------------------------------------
(* What the repository says of the program and the program does not keep.  *)

\* "Failed: a terminal state an operator must resolve by hand"
FailedIsTerminal ==
  [][machine.state = "Failed" /\ machine'.state # "Failed" => ops' # ops]_vars

=============================================================================
