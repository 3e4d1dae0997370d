------------------------------ MODULE Cluster ------------------------------
(***************************************************************************)
(* What the reconcilers share: the API server's objects, the informer      *)
(* caches that trail them, the clock and the physical host; and the steps  *)
(* of everyone but ONP - operator, kubelet, scheduler, board and time.     *)
(***************************************************************************)
EXTENDS MachineObjects

CONSTANTS
  Lagging,        \* which informer caches may trail the API server
  SchedulerLag,   \* ticks during which the scheduler may not know a cordon
  Blips,          \* may a running host's Node go NotReady
  OperatorMoves,  \* what the operator may do in this instance
  MaxOps,         \* bound: number of operator moves
  MaxTime         \* bound: last instant of the clock

Moves == {"wake", "drain", "scaleDown", "cordon", "uncordon", "label", "reset",
          "duplicate", "deleteNode", "power"}

ASSUME ClusterAssumption ==
  /\ Lagging \subseteq {"machine", "node", "pods", "agent"}
  /\ SchedulerLag \in Nat
  /\ Blips \in BOOLEAN
  /\ OperatorMoves \subseteq Moves
  /\ MaxOps \in Nat
  /\ MaxTime \in Nat

VARIABLES
  now,            \* the clock
  machine,        \* the Machine object
  node,           \* the Node object
  pods,           \* the pods bound to the Node, by phase
  duplicate,      \* does another Machine claim the same Node
  machineCache,   \* the controller's informer cache of machine,
  nodeCache,      \*   of node
  podCache,       \*   and of pods
  host,           \* the board: "off", "on" or "halting"
  bootTime,       \* when its kernel last booted, or will have
  cordonedAt,     \* when the Node last became unschedulable
  cordonedBy,     \* history: whose cordon the Node has, or who marked it meanwhile
  ops             \* operator moves made so far

objects == <<machine, node, pods, duplicate>>
caches == <<machineCache, nodeCache, podCache>>
hostVars == <<host, bootTime>>
nodeHistory == <<cordonedAt, cordonedBy>>
clusterVars == <<now, objects, caches, hostVars, nodeHistory, ops>>

\* What a cached read returns.
CachedMachine == IF "machine" \in Lagging THEN machineCache ELSE machine
CachedNode    == IF "node" \in Lagging THEN nodeCache ELSE node
CachedPods    == IF "pods" \in Lagging THEN podCache ELSE pods

\* An operator's cordon under ONP's marker, which ONP takes for its own, is both's.
Cordoners == {"none", "ONP", "operator", "both"}

NoPods == [p \in Pods |-> "absent"]

ClusterTypeOK ==
  /\ now \in Nat
  /\ machine \in MachineRecord /\ machineCache \in MachineRecord
  /\ node \in NodeRecord /\ nodeCache \in NodeRecord
  /\ pods \in [Pods -> PodPhases] /\ podCache \in [Pods -> PodPhases]
  /\ duplicate \in BOOLEAN
  /\ host \in {"off", "on", "halting"} /\ bootTime \in Nat
  /\ cordonedAt \in Time /\ cordonedBy \in Cordoners
  /\ ops \in Nat

\* A Machine is declared over a host that is off, or up and in service.
ClusterInit ==
  /\ now = 0
  /\ machine = NewMachine /\ machineCache = machine
  /\ \/ host = "off" /\ node = NoNode
     \/ host = "off" /\ node = [NoNode EXCEPT !.present = TRUE, !.readyChanged = 0]
     \/ host = "on" /\ node = [NoNode EXCEPT !.present = TRUE, !.ready = TRUE,
                                             !.readyChanged = 0]
  /\ nodeCache = node
  /\ pods = NoPods /\ podCache = NoPods
  /\ duplicate = FALSE
  /\ bootTime = 0
  /\ cordonedAt = None /\ cordonedBy = "none"
  /\ ops = 0

\* ONP marks a cordon that the copy it looked at does not show.
MarkedUnseen == ~CachedNode.unschedulable /\ ~node.cordonedByONP /\ node'.cordonedByONP

\* What a change of the Node does to its history.
NodeHistory ==
  /\ cordonedAt' = IF node'.unschedulable /\ ~node.unschedulable
                     THEN now ELSE cordonedAt
  /\ cordonedBy' = CASE ~node'.unschedulable -> "none"
                     [] node'.unschedulable /\ ~node.unschedulable -> "ONP"
                     [] node'.unschedulable /\ node.unschedulable ->
                          IF cordonedBy = "operator" /\ MarkedUnseen
                            THEN "both" ELSE cordonedBy

-----------------------------------------------------------------------------
(* The operator.                                                           *)

Does(move) ==
  /\ move \in OperatorMoves
  /\ ops < MaxOps
  /\ ops' = ops + 1
  /\ UNCHANGED <<now, pods, caches>>

\* wake-now is set by hand or by the scale-up reconciler: the same Patch.
RequestWake ==
  /\ Does("wake")
  /\ ~machine.wakeNow
  /\ machine' = [machine EXCEPT !.wakeNow = TRUE]
  /\ UNCHANGED <<node, duplicate, hostVars, nodeHistory>>

RequestDrain ==
  /\ Does("drain")
  /\ ~machine.drainNow
  /\ machine' = [machine EXCEPT !.drainNow = TRUE]
  /\ UNCHANGED <<node, duplicate, hostVars, nodeHistory>>

\* Scale-down asks only for what it sees Ready; a hand may ask at any time.
ScaleDown ==
  /\ Does("scaleDown")
  /\ machine.state = "Ready" /\ ~machine.drainNow
  /\ machine' = [machine EXCEPT !.drainNow = TRUE]
  /\ UNCHANGED <<node, duplicate, hostVars, nodeHistory>>

\* A Failed Machine is resolved by hand: its state is edited back to Off.
ResetFailed ==
  /\ Does("reset")
  /\ machine.state = "Failed"
  /\ machine' = [machine EXCEPT !.state = "Off"]
  /\ UNCHANGED <<node, duplicate, hostVars, nodeHistory>>

\* kubectl cordon and uncordon touch spec.unschedulable alone: a marker that an
\* uncordon leaves behind is there when the Node is cordoned again.
OperatorCordon ==
  /\ Does("cordon")
  /\ node.present /\ ~node.unschedulable
  /\ node' = [node EXCEPT !.unschedulable = TRUE]
  /\ cordonedAt' = now
  /\ cordonedBy' = IF node.cordonedByONP THEN "both" ELSE "operator"
  /\ UNCHANGED <<machine, duplicate, hostVars>>

OperatorUncordon ==
  /\ Does("uncordon")
  /\ node.present /\ node.unschedulable
  /\ node' = [node EXCEPT !.unschedulable = FALSE]
  /\ NodeHistory
  /\ UNCHANGED <<machine, duplicate, hostVars>>

ToggleAlwaysOn ==
  /\ Does("label")
  /\ node.present
  /\ node' = [node EXCEPT !.alwaysOn = ~node.alwaysOn]
  /\ UNCHANGED <<machine, duplicate, hostVars, nodeHistory>>

DeleteNode ==
  /\ Does("deleteNode")
  /\ node.present
  /\ node' = NoNode
  /\ NodeHistory
  /\ UNCHANGED <<machine, duplicate, hostVars>>

\* A second Machine claiming the Node is created, or removed again.
ToggleDuplicate ==
  /\ Does("duplicate")
  /\ duplicate' = ~duplicate
  /\ UNCHANGED <<machine, node, hostVars, nodeHistory>>

\* A board needs a tick from power-on to a running kernel.
BoardStarts == host = "off" /\ host' = "on" /\ bootTime' = now + 1

BoardIsOff == host # "off" /\ host' = "off" /\ UNCHANGED bootTime

\* The power button.
PressPower ==
  /\ Does("power")
  /\ BoardIsOff \/ BoardStarts
  /\ UNCHANGED <<machine, node, duplicate, nodeHistory>>

Operator ==
  \/ RequestWake \/ RequestDrain \/ ScaleDown \/ ResetFailed
  \/ OperatorCordon \/ OperatorUncordon \/ ToggleAlwaysOn
  \/ DeleteNode \/ ToggleDuplicate \/ PressPower

-----------------------------------------------------------------------------
(* Host, kubelet and node lifecycle controller.                            *)

HostUp == host = "on" /\ now >= bootTime

\* A halting board is off some time later: the kubelet may stop well before.
HostHalts ==
  /\ host = "halting"
  /\ BoardIsOff
  /\ UNCHANGED <<now, objects, caches, nodeHistory, ops>>

NodeRegisters ==
  /\ ~node.present /\ HostUp
  /\ node' = [NoNode EXCEPT !.present = TRUE]
  /\ UNCHANGED <<now, machine, pods, duplicate, caches, hostVars, nodeHistory, ops>>

NodeBecomesReady ==
  /\ node.present /\ ~node.ready /\ HostUp
  /\ node' = [node EXCEPT !.ready = TRUE, !.readyChanged = now]
  /\ UNCHANGED <<now, machine, pods, duplicate, caches, hostVars, nodeHistory, ops>>

NodeBecomesNotReady ==
  /\ node.present /\ node.ready /\ (host # "on" \/ Blips)
  /\ node' = [node EXCEPT !.ready = FALSE, !.readyChanged = now]
  /\ UNCHANGED <<now, machine, pods, duplicate, caches, hostVars, nodeHistory, ops>>

-----------------------------------------------------------------------------
(* Scheduler and pods.  DaemonSet and static pods ignore a cordon.         *)

CordonKnown == node.unschedulable /\ now - cordonedAt >= SchedulerLag

PodStep(p, from, to) ==
  /\ pods[p] \in from
  /\ pods' = [pods EXCEPT ![p] = to]
  /\ UNCHANGED <<now, machine, node, duplicate, caches, hostVars, nodeHistory, ops>>

PodBinds(p) ==
  /\ nodeIsReady(node)
  /\ CordonKnown => PodKind[p].daemonSet \/ PodKind[p].mirror
  /\ PodStep(p, {"absent"}, "running")

PodFinishes(p) == PodStep(p, {"running"}, "finished")

PodIsDeleted(p) == PodStep(p, {"running"}, "terminating")

PodIsRemoved(p) == PodStep(p, {"terminating", "finished"}, "absent")

PodSteps ==
  \E p \in Pods : \/ PodBinds(p) \/ PodFinishes(p)
                  \/ PodIsDeleted(p) \/ PodIsRemoved(p)

-----------------------------------------------------------------------------
(* Caches and clock.                                                       *)

SyncMachine ==
  /\ "machine" \in Lagging /\ machineCache # machine
  /\ machineCache' = machine
  /\ UNCHANGED <<now, objects, nodeCache, podCache, hostVars, nodeHistory, ops>>

SyncNode ==
  /\ "node" \in Lagging /\ nodeCache # node
  /\ nodeCache' = node
  /\ UNCHANGED <<now, objects, machineCache, podCache, hostVars, nodeHistory, ops>>

SyncPods ==
  /\ "pods" \in Lagging /\ podCache # pods
  /\ podCache' = pods
  /\ UNCHANGED <<now, objects, machineCache, nodeCache, hostVars, nodeHistory, ops>>

Tick ==
  /\ now < MaxTime
  /\ now' = now + 1
  /\ UNCHANGED <<objects, caches, hostVars, nodeHistory, ops>>

Environment ==
  \/ Operator \/ HostHalts \/ NodeRegisters \/ NodeBecomesReady
  \/ NodeBecomesNotReady \/ PodSteps
  \/ SyncMachine \/ SyncNode \/ SyncPods \/ Tick

=============================================================================
