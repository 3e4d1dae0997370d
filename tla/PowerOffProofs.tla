--------------------------- MODULE PowerOffProofs ---------------------------
(***************************************************************************)
(* Proofs about the way down: what the cordon, the drain and the agent     *)
(* together guarantee about a Node that is powered off, and what Off means *)
(* after a power-off.  Each theorem names what it needs of the caches and  *)
(* of the people and machines around ONP.                                  *)
(***************************************************************************)
EXTENDS LifecycleProofs

\* Nobody else switches the board or deletes the Node, and a Node whose host
\* runs stays Ready.
BoardLeftAlone == ~Blips /\ "power" \notin OperatorMoves /\ "deleteNode" \notin OperatorMoves

\* Nobody lifts the cordon under a drain, by hand or by deleting the Node.
CordonLeftAlone == "uncordon" \notin OperatorMoves /\ "deleteNode" \notin OperatorMoves

\* Nothing that keeps a Node on is bound to a cordoned Node.
CordonHeeded ==
  /\ SchedulerLag = 0
  /\ \A p \in Pods : PodKind[p].doNotDisrupt => ~PodKind[p].daemonSet /\ ~PodKind[p].mirror

\* The agent reads the Machine as it is; or it can tell the episodes before
\* the last boot, and nobody brings a Failed Machine back on a running host.
AgentKeepsUp ==
  \/ "agent" \notin Lagging
  \/ BootTimeReadable /\ "reset" \notin OperatorMoves /\ BoardLeftAlone

-----------------------------------------------------------------------------
(* The inductive invariants.                                               *)

InService == {"Ready", "Draining", "ShuttingDown"}

\* A Node that is not Ready stopped being so before its host's last boot.
StoppedBeforeBoot(n) ==
  ~n.ready /\ n.readyChanged # None =>
    n.readyChanged <= now /\ (host = "on" => n.readyChanged < bootTime)

\* The Node is Ready, and the controller sees it so.
BothReady == nodeIsReady(node) /\ nodeIsReady(CachedNode)

\* What Off after a power-off rests on.  A board still starting up whose Node
\* passes for Ready never had it reported down; so a Machine in service on a
\* running host is past the boot, and so is the instant its shutdown began.
DownInv ==
  /\ CachedNode.present => node.present
  /\ machine.state \in InService => CachedNode.present
  /\ StoppedBeforeBoot(node) /\ StoppedBeforeBoot(CachedNode)
  /\ host = "on" /\ nodeIsReady(CachedNode) => now >= bootTime \/ BothReady
  /\ host = "on" /\ machine.state \in {"Ready", "Draining"} => now >= bootTime \/ BothReady
  /\ host = "on" /\ machine.state = "ShuttingDown" =>
       machine.shutdownStart >= bootTime \/ BothReady

\* A cordon has an instant, and an operator's cordon is on a Node without ONP's
\* marker.
CordonInv ==
  /\ node.unschedulable => cordonedAt # None /\ cordonedAt <= now
  /\ cordonedBy = "operator" => node.present /\ node.unschedulable /\ ~node.cordonedByONP

\* The Node is cordoned and nothing that keeps it on is bound to it.
Quiet == node.present /\ node.unschedulable /\ podsKeepingNodeOn(pods) = {}

\* A Machine in service has a Node, and one on its way down a cordoned one,
CordonedInv ==
  /\ machine.state \in InService => node.present
  /\ machine.state = "ShuttingDown" => node.unschedulable

\* with nothing on it.
QuietInv == machine.state = "ShuttingDown" => Quiet

\* An agent that still sees an episode of the running boot looks at a Machine
\* that went no further than Failed.
StaleAgentInv ==
  agentCache.state = "ShuttingDown" /\ host = "on" /\ bootTime <= agentCache.shutdownStart =>
    machine.state \in {"ShuttingDown", "Failed"} /\ Quiet

-----------------------------------------------------------------------------
(* What a pass of the controller with a current Machine cache does.        *)

NodeWrites == {node, setCordon, uncordoned, dropStaleCordonMarker}

\* The step of the lifecycle it takes, and what comes with it.
PassEffect ==
  /\ Lifecycle!ControllerStep /\ machine.state # "Failed"
  /\ node' \in NodeWrites
  /\ node' # node /\ node' # setCordon => machine.state \in {"Off", "Booting", "Ready", "Draining"}
  /\ \/ UNCHANGED hostVars
     \/ BoardStarts /\ ~nodeIsReady(CachedNode) /\ machine.state \in {"Off", "Booting"}
        /\ machine'.state # "Ready"
  /\ machine.state \in {"Off", "Booting"} /\ machine'.state = "Ready" =>
       nodeIsReady(CachedNode)
  /\ machine.state = "Draining" /\ machine'.state = "ShuttingDown" =>
       /\ machine'.shutdownStart = now
       /\ ~labelStopsDrain /\ ~needsCordon /\ nothingKeepsNodeOn
       /\ UNCHANGED <<node, pods>>
  /\ machine.state = "ShuttingDown" =>
       /\ UNCHANGED <<node, pods>>
       /\ machine'.state = "ShuttingDown" => machine' = machine
       /\ machine'.state = "Off" => nodeWentDownSince(CachedNode, machine.shutdownStart)

\* A write to the Node touches its cordon alone.
LEMMA NodeWritesKeepReady ==
  ASSUME TypeOK, NEW n \in NodeWrites
  PROVE  /\ n.present = node.present /\ n.ready = node.ready
         /\ n.readyChanged = node.readyChanged /\ n \in NodeRecord
  <1>1. node \in NodeRecord /\ n \in NodeRecord
    BY NodeWritesAreTyped DEF NodeWrites
  <1> QED
    BY <1>1
    DEF NodeWrites, setCordon, uncordoned, dropStaleCordonMarker, NodeRecord

\* Off and Booting adopt only a Node they see Ready, and start the board only
\* when they do not.
LEMMA OffEffect ==
  ASSUME TypeOK, "machine" \notin Lagging, NEW ok \in BOOLEAN, reconcileOff(ok)
  PROVE  PassEffect
  <1> DEFINE h == removeDrainAnnotation
             o == [machine EXCEPT !.drainNow = FALSE]
             new == [h.copy EXCEPT !.state = "Booting", !.bootStart = now]
  <1>1. h.current /\ h.server = o /\ h.copy = o /\ CachedMachine = machine
    BY HandledMachine, CurrentHandles
  <1>2. o \in MachineRecord /\ o.state = "Off" /\ machine.state = "Off"
    BY <1>1, HandledMachine DEF MachineRecord, reconcileOff
  <1>3. new \in MachineRecord /\ new.state = "Booting"
    BY <1>1, <1>2, HandledMachine DEF MachineRecord, States
  <1>4. Lifecycle!ControllerStep
    BY OffFollows
  <1>5. CASE nodeIsReady(CachedNode) /\ promoteToReady(h, ok)
    <2>1. UNCHANGED hostVars /\ node' \in NodeWrites
      BY <1>5 DEF promoteToReady, uncordonIfONPCordoned, NodeWrites
    <2> QED BY <1>2, <1>4, <1>5, <2>1 DEF PassEffect
  <1>6. CASE ~nodeIsReady(CachedNode) /\ wake(h, ok)
    <2>1. /\ UNCHANGED hostVars \/ BoardStarts
          /\ node' = node
          /\ StatusUpdate(h, new, ok) \/ StatusUpdate(h, h.copy, ok)
      BY <1>6 DEF wake, PowerOn
    <2> HIDE DEF h, o, new
    <2>2. machine'.state # "Ready"
      BY <1>1, <1>2, <1>3, <2>1, UpdatesLand DEF Lands
    <2> QED BY <1>2, <1>4, <1>6, <2>1, <2>2 DEF PassEffect, NodeWrites
  <1>7. CASE machine' = h.server /\ UNCHANGED <<node, hostVars>>
    <2>1. machine'.state = "Off"
      BY <1>1, <1>2, <1>7
    <2> QED BY <1>2, <1>4, <1>7, <2>1 DEF PassEffect, NodeWrites
  <1> QED BY <1>5, <1>6, <1>7 DEF reconcileOff

\* The same of Booting.
LEMMA BootingEffect ==
  ASSUME TypeOK, "machine" \notin Lagging, NEW ok \in BOOLEAN, reconcileBooting(ok)
  PROVE  PassEffect
  <1> DEFINE h == removeDrainAnnotation
             o == [machine EXCEPT !.drainNow = FALSE]
  <1>1. h.current /\ h.server = o /\ h.copy = o /\ CachedMachine = machine
    BY HandledMachine, CurrentHandles
  <1>2. o \in MachineRecord /\ o.state = "Booting" /\ machine.state = "Booting"
    BY <1>1, HandledMachine DEF MachineRecord, reconcileBooting
  <1>3. Lifecycle!ControllerStep
    BY BootingFollows
  <1>4. CASE nodeIsReady(CachedNode) /\ promoteToReady(h, ok)
    <2>1. UNCHANGED hostVars /\ node' \in NodeWrites
      BY <1>4 DEF promoteToReady, uncordonIfONPCordoned, NodeWrites
    <2> QED BY <1>2, <1>3, <1>4, <2>1 DEF PassEffect
  <1>5. CASE failBoot(h, ok) /\ UNCHANGED <<node, hostVars>>
    <2> HIDE DEF h, o
    <2>1. machine'.state # "Ready"
      BY <1>1, <1>2, <1>5, FailBootLands DEF Lands
    <2> QED BY <1>2, <1>3, <1>5, <2>1 DEF PassEffect, NodeWrites
  <1>6. CASE /\ ~nodeIsReady(CachedNode) /\ machine' = h.server
             /\ resendPowerOn(h.copy, ok) /\ UNCHANGED node
    <2>1. machine'.state = "Booting" /\ (UNCHANGED hostVars \/ BoardStarts)
      BY <1>1, <1>2, <1>6 DEF resendPowerOn, PowerOn
    <2> QED BY <1>2, <1>3, <1>6, <2>1 DEF PassEffect, NodeWrites
  <1> QED BY <1>4, <1>5, <1>6 DEF reconcileBooting

\* Ready leaves board and pods alone.
LEMMA ReadyEffect ==
  ASSUME TypeOK, "machine" \notin Lagging, NEW ok \in BOOLEAN, reconcileReady(ok)
  PROVE  PassEffect
  <1>1. machine.state = "Ready"
    BY HandledMachine, CurrentHandles DEF reconcileReady
  <1>2. Lifecycle!ControllerStep
    BY ReadyFollows
  <1>3. UNCHANGED hostVars /\ node' \in NodeWrites
    BY DEF reconcileReady, startDraining, reconcileReadyNodeLost, nodeInService, NodeWrites
  <1> QED BY <1>1, <1>2, <1>3 DEF PassEffect

\* Draining hands over to the power-off leg only a cordoned Node that the API
\* server says is empty, and in a step that changes neither.
LEMMA DrainingEffect ==
  ASSUME TypeOK, "machine" \notin Lagging, NEW ok \in BOOLEAN, reconcileDraining(ok)
  PROVE  PassEffect
  <1> DEFINE h == removeDrainAnnotation
             o == [machine EXCEPT !.drainNow = FALSE]
             ready == [h.copy EXCEPT !.state = "Ready", !.drainStart = None]
             failed == [h.copy EXCEPT !.state = "Failed"]
             down == [h.copy EXCEPT !.state = "ShuttingDown", !.shutdownStart = now]
  <1>1. h.current /\ h.server = o /\ h.copy = o /\ CachedMachine = machine
    BY HandledMachine, CurrentHandles
  <1>2. o \in MachineRecord /\ o.state = "Draining" /\ machine.state = "Draining"
    BY <1>1, HandledMachine DEF MachineRecord, reconcileDraining
  <1>3. /\ ready \in MachineRecord /\ ready.state = "Ready"
        /\ failed \in MachineRecord /\ failed.state = "Failed"
        /\ down \in MachineRecord /\ down.shutdownStart = now
    BY <1>1, <1>2, HandledMachine DEF MachineRecord, States, Time
  <1>4. Lifecycle!ControllerStep
    BY DrainingFollows
  <1>5. UNCHANGED hostVars /\ node' \in NodeWrites
    BY DEF reconcileDraining, abortDrain, failDrain, drainPass, uncordonIfONPCordoned,
           NodeWrites
  <1>6. CASE machine' = h.server
    BY <1>1, <1>2, <1>4, <1>5, <1>6 DEF PassEffect
  <1>7. CASE machine' # h.server /\ (abortDrain(h, ok) \/ failDrain(h, ok))
    <2>1. StatusUpdate(h, ready, ok) \/ StatusUpdate(h, failed, ok)
      BY <1>7 DEF abortDrain, failDrain, uncordonIfONPCordoned
    <2> HIDE DEF h, o, ready, failed, down
    <2>2. machine'.state # "ShuttingDown"
      BY <1>1, <1>2, <1>3, <1>7, <2>1, UpdatesLand DEF Lands
    <2> QED BY <1>2, <1>4, <1>5, <2>2 DEF PassEffect
  <1>8. CASE machine' # h.server /\ ~labelStopsDrain /\ drainPass(h, ok)
    <2>1. /\ nothingKeepsNodeOn /\ ~needsCordon /\ UNCHANGED <<node, pods>>
          /\ StatusUpdate(h, down, ok)
      BY <1>8 DEF drainPass, powerOffDrained
    <2> HIDE DEF h, o, ready, failed, down
    <2>2. machine' = Written(h, down)
      BY <1>8, <2>1 DEF StatusUpdate
    <2>3. machine'.shutdownStart = now
      BY <1>3, <2>2 DEF Written, MachineRecord
    <2> QED BY <1>2, <1>4, <1>5, <1>8, <2>1, <2>3 DEF PassEffect
  <1> QED BY <1>6, <1>7, <1>8 DEF reconcileDraining

\* ShuttingDown touches the Machine alone, and reports Off on evidence.
LEMMA UnpatchedEffect ==
  ASSUME TypeOK, "machine" \notin Lagging, NEW ok \in BOOLEAN,
         initialize(ok) \/ reconcileShuttingDown(ok)
  PROVE  PassEffect
  <1> DEFINE h == Unpatched
             left(s) == [machine EXCEPT !.state = s, !.shutdownStart = None]
  <1>1. h.current /\ h.server = machine /\ h.copy = machine /\ CachedMachine = machine
    BY HandledMachine, CurrentHandles
  <1>2. \A s \in {"Off", "Failed"} : left(s) \in MachineRecord /\ left(s).state = s
    BY HandledMachine DEF MachineRecord, States, Time
  <1>3. Lifecycle!ControllerStep
    BY UnpatchedFollows
  <1>4. UNCHANGED <<node, pods, hostVars>> /\ node' \in NodeWrites
    BY DEF initialize, reconcileShuttingDown, NodeWrites
  <1>5. CASE initialize(ok)
    <2>1. machine.state = ""
      BY <1>1, <1>5 DEF initialize
    <2> QED BY <1>3, <1>4, <2>1 DEF PassEffect
  <1>6. CASE machine' = machine /\ reconcileShuttingDown(ok)
    <2>1. machine.state = "ShuttingDown"
      BY <1>1, <1>6 DEF reconcileShuttingDown
    <2> QED BY <1>3, <1>4, <1>6, <2>1 DEF PassEffect
  <1>7. CASE machine' # machine /\ reconcileShuttingDown(ok)
    <2>1. /\ machine.state = "ShuttingDown"
          /\ \/ nodeWentDownSince(CachedNode, machine.shutdownStart)
                /\ StatusUpdate(h, left("Off"), ok)
             \/ StatusUpdate(h, left("Failed"), ok)
      BY <1>1, <1>7 DEF reconcileShuttingDown
    <2> HIDE DEF h, left
    <2>2. \/ /\ nodeWentDownSince(CachedNode, machine.shutdownStart)
             /\ machine'.state = "Off"
          \/ machine'.state = "Failed"
      BY <1>1, <1>2, <1>7, <2>1, HandledMachine, UpdatesLand DEF Lands
    <2> QED BY <1>3, <1>4, <2>1, <2>2 DEF PassEffect
  <1> QED BY <1>5, <1>6, <1>7

\* So every pass has the effect.
LEMMA PassHasEffect ==
  ASSUME TypeOK, "machine" \notin Lagging, NEW ok \in BOOLEAN, Reconcile(ok)
  PROVE  PassEffect
  BY OffEffect, BootingEffect, ReadyEffect, DrainingEffect, UnpatchedEffect DEF Reconcile

\* The edges of the state graph the controller takes.
ControllerEdges ==
  {<<"", "Off">>, <<"Off", "Booting">>, <<"Off", "Ready">>, <<"Off", "Failed">>,
   <<"Booting", "Ready">>, <<"Booting", "Failed">>, <<"Ready", "Draining">>,
   <<"Ready", "Off">>, <<"Draining", "Ready">>, <<"Draining", "Failed">>,
   <<"Draining", "ShuttingDown">>, <<"ShuttingDown", "Off">>, <<"ShuttingDown", "Failed">>}

\* A controller step of the lifecycle stays or takes one of them.
LEMMA PassTakesEdge ==
  ASSUME PassEffect
  PROVE  machine'.state = machine.state \/ <<machine.state, machine'.state>> \in ControllerEdges
  BY DEF PassEffect, ControllerEdges, Lifecycle!ControllerStep, Lifecycle!DropTrigger,
         Lifecycle!Declared, Lifecycle!Woken, Lifecycle!Adopted, Lifecycle!BootFailed,
         Lifecycle!DrainStarted, Lifecycle!NodeLost, Lifecycle!DrainEnded,
         Lifecycle!ShutdownEnded, Lifecycle!Goes

-----------------------------------------------------------------------------
(* Off after a power-off.                                                  *)

Readiness ==
  <<node.present, node.ready, node.readyChanged,
    CachedNode.present, CachedNode.ready, CachedNode.readyChanged>>

\* What the types say of the Node, of its cached copy and of the clock.
LEMMA NodeTypes ==
  ASSUME TypeOK
  PROVE  /\ node \in NodeRecord /\ CachedNode \in NodeRecord
         /\ node.readyChanged \in Time /\ CachedNode.readyChanged \in Time
         /\ now \in Nat /\ bootTime \in Nat
         /\ machine \in MachineRecord /\ machine.shutdownStart \in Time
  BY DEF TypeOK, ClusterTypeOK, CachedNode, NodeRecord, MachineRecord

\* A step that leaves the Node's readiness alone, starts no board and moves the
\* Machine at most out of service keeps the invariant.
LEMMA CalmKeepsDown ==
  ASSUME TypeOK, DownInv, UNCHANGED Readiness, now' \in Nat, now <= now',
         UNCHANGED hostVars \/ host' # "on",
         \/ machine'.state = machine.state /\ machine'.shutdownStart = machine.shutdownStart
         \/ machine'.state \notin InService
  PROVE  DownInv'
  <1>1. /\ node.readyChanged \in Time /\ CachedNode.readyChanged \in Time
        /\ now \in Nat /\ bootTime \in Nat
    BY NodeTypes
  <1>2. StoppedBeforeBoot(node)' /\ StoppedBeforeBoot(CachedNode)'
    BY <1>1 DEF StoppedBeforeBoot, DownInv, Readiness, hostVars, Time
  <1>3. BothReady' = BothReady
    BY DEF BothReady, nodeIsReady, Readiness
  <1> QED
    BY <1>1, <1>2, <1>3 DEF DownInv, Readiness, hostVars, nodeIsReady, InService

\* A pass of the controller keeps it: a board that starts does so under a Node
\* not seen Ready, and a promotion needs one that is.
LEMMA ControllerKeepsDown ==
  ASSUME "machine" \notin Lagging, Inv, DownInv, NEW ok \in BOOLEAN, Reconcile(ok)
  PROVE  DownInv'
  <1>1. PassEffect /\ TypeOK
    BY PassHasEffect DEF Inv
  <1>2. now' = now /\ nodeCache' = nodeCache
    BY DEF Reconcile, caches
  <1>3. UNCHANGED Readiness
    BY <1>1, <1>2, NodeWritesKeepReady DEF PassEffect, Readiness, CachedNode
  <1>4. /\ node.readyChanged \in Time /\ CachedNode.readyChanged \in Time
        /\ now \in Nat /\ bootTime \in Nat
    BY <1>1, NodeTypes
  <1>5. BothReady' = BothReady /\ nodeIsReady(CachedNode)' = nodeIsReady(CachedNode)
    BY <1>3 DEF BothReady, nodeIsReady, Readiness
  <1>6. CachedNode.present' => node.present'
    BY <1>3 DEF DownInv, Readiness
  <1>7. CASE BoardStarts
    <2>1. /\ host' = "on" /\ bootTime' = now + 1 /\ host = "off"
          /\ ~nodeIsReady(CachedNode) /\ machine.state \in {"Off", "Booting"}
          /\ machine'.state # "Ready"
      BY <1>1, <1>7 DEF PassEffect, BoardStarts, hostVars
    <2>2. machine'.state \notin InService
      BY <1>1, <2>1, PassTakesEdge DEF ControllerEdges, InService
    <2>3. StoppedBeforeBoot(node)' /\ StoppedBeforeBoot(CachedNode)'
      BY <1>2, <1>3, <1>4, <2>1 DEF StoppedBeforeBoot, DownInv, Readiness, Time
    <2> QED BY <1>5, <1>6, <2>1, <2>2, <2>3 DEF DownInv, InService
  <1>8. CASE UNCHANGED hostVars
    <2>1. StoppedBeforeBoot(node)' /\ StoppedBeforeBoot(CachedNode)'
      BY <1>2, <1>3, <1>8 DEF StoppedBeforeBoot, DownInv, Readiness, hostVars
    <2>2. machine'.state \in InService => CachedNode.present
      BY <1>1, PassTakesEdge
      DEF DownInv, PassEffect, ControllerEdges, InService, nodeIsReady
    <2>3. machine'.state \in {"Ready", "Draining"} =>
            \/ machine.state \in {"Ready", "Draining"}
            \/ nodeIsReady(CachedNode)
      BY <1>1, PassTakesEdge DEF PassEffect, ControllerEdges
    <2>4. machine'.state = "ShuttingDown" =>
            \/ machine.state = "ShuttingDown" /\ machine' = machine
            \/ machine.state = "Draining" /\ machine'.shutdownStart = now
      BY <1>1, PassTakesEdge DEF PassEffect, ControllerEdges
    <2> QED
      BY <1>2, <1>3, <1>4, <1>5, <1>6, <1>8, <2>1, <2>2, <2>3, <2>4
      DEF DownInv, hostVars, Readiness
  <1> QED BY <1>1, <1>7, <1>8 DEF PassEffect

\* The steps of operators, other controllers, pods, caches and the clock that
\* leave the Node's readiness and the board alone.
LEMMA CalmEnvironment ==
  ASSUME TypeOK, Environment, BoardLeftAlone, "machine" \notin Lagging,
         ~NodeRegisters, ~NodeBecomesReady, ~NodeBecomesNotReady, ~SyncNode
  PROVE  /\ UNCHANGED Readiness /\ now' \in Nat /\ now <= now'
         /\ UNCHANGED hostVars \/ host' # "on"
         /\ \/ machine'.state = machine.state
               /\ machine'.shutdownStart = machine.shutdownStart
            \/ machine'.state = "Off"
  <1>0. node \in NodeRecord /\ machine \in MachineRecord /\ now \in Nat
    BY NodeTypes
  <1>1. CASE RequestWake \/ RequestDrain \/ ScaleDown \/ ResetFailed
    <2>1. UNCHANGED <<now, node, caches, hostVars>>
      BY <1>1 DEF RequestWake, RequestDrain, ScaleDown, ResetFailed, Does
    <2>2. \/ machine' = [machine EXCEPT !.wakeNow = TRUE]
          \/ machine' = [machine EXCEPT !.drainNow = TRUE]
          \/ machine' = [machine EXCEPT !.state = "Off"]
      BY <1>1 DEF RequestWake, RequestDrain, ScaleDown, ResetFailed
    <2>3. \/ machine'.state = machine.state /\ machine'.shutdownStart = machine.shutdownStart
          \/ machine'.state = "Off"
      BY <1>0, <2>2 DEF MachineRecord
    <2> QED BY <1>0, <2>1, <2>3 DEF Readiness, CachedNode, caches
  <1>2. CASE OperatorCordon \/ OperatorUncordon \/ ToggleAlwaysOn
    <2>1. UNCHANGED <<now, machine, caches, hostVars>>
      BY <1>2 DEF OperatorCordon, OperatorUncordon, ToggleAlwaysOn, Does
    <2>2. node'.present = node.present /\ node'.ready = node.ready
          /\ node'.readyChanged = node.readyChanged
      BY <1>0, <1>2 DEF OperatorCordon, OperatorUncordon, ToggleAlwaysOn, NodeRecord
    <2> QED BY <1>0, <2>1, <2>2 DEF Readiness, CachedNode, caches
  <1>3. CASE ToggleDuplicate \/ HostHalts \/ PodSteps \/ SyncPods
    <2>1. UNCHANGED <<now, machine, node, nodeCache>>
      BY <1>3
      DEF ToggleDuplicate, Does, HostHalts, PodSteps, PodBinds, PodFinishes, PodIsDeleted,
          PodIsRemoved, PodStep, SyncPods, objects, caches
    <2>2. UNCHANGED hostVars \/ host' # "on"
      BY <1>3
      DEF ToggleDuplicate, HostHalts, BoardIsOff, PodSteps, PodBinds, PodFinishes,
          PodIsDeleted, PodIsRemoved, PodStep, SyncPods
    <2> QED BY <1>0, <2>1, <2>2 DEF Readiness, CachedNode
  <1>4. CASE Tick
    <2>1. now' = now + 1 /\ UNCHANGED <<machine, node, nodeCache, hostVars>>
      BY <1>4 DEF Tick, objects, caches
    <2> QED BY <1>0, <2>1 DEF Readiness, CachedNode
  <1> QED
    BY <1>1, <1>2, <1>3, <1>4
    DEF Environment, Operator, DeleteNode, PressPower, Does, SyncMachine, BoardLeftAlone

\* What operators, hosts, kubelets, caches and the clock do keeps the invariant.
LEMMA EnvironmentKeepsDown ==
  ASSUME "machine" \notin Lagging, BoardLeftAlone, Inv, DownInv, Environment
  PROVE  DownInv'
  <1>0. /\ node \in NodeRecord /\ CachedNode \in NodeRecord
        /\ node.readyChanged \in Time /\ CachedNode.readyChanged \in Time
        /\ now \in Nat /\ bootTime \in Nat /\ TypeOK
    BY NodeTypes DEF Inv
  <1>1. CASE NodeRegisters
    <2>1. /\ ~node.present /\ UNCHANGED <<now, machine, nodeCache, host, bootTime>>
          /\ node'.present /\ ~node'.ready /\ node'.readyChanged = None
      BY <1>1 DEF NodeRegisters, caches, hostVars, NoNode
    <2>2. CachedNode' = CachedNode \/ CachedNode' = node'
      BY <2>1 DEF CachedNode
    <2>3. ~CachedNode.present /\ ~nodeIsReady(CachedNode') /\ machine.state \notin InService
      BY <2>1, <2>2 DEF DownInv, nodeIsReady
    <2>4. StoppedBeforeBoot(node)' /\ StoppedBeforeBoot(CachedNode)'
      BY <2>1, <2>2 DEF StoppedBeforeBoot, DownInv
    <2> QED BY <2>1, <2>2, <2>3, <2>4 DEF DownInv, InService
  <1>2. CASE NodeBecomesReady
    <2>1. /\ UNCHANGED <<now, machine, nodeCache, host, bootTime>>
          /\ node.present /\ node'.present /\ node'.ready /\ now >= bootTime
      BY <1>0, <1>2 DEF NodeBecomesReady, HostUp, caches, hostVars, NodeRecord
    <2>2. CachedNode' = CachedNode \/ CachedNode' = node'
      BY <2>1 DEF CachedNode
    <2>3. "node" \notin Lagging => CachedNode = node /\ CachedNode' = node'
      BY DEF CachedNode
    <2>4. "node" \in Lagging => CachedNode' = CachedNode
      BY <2>1 DEF CachedNode
    <2>5. StoppedBeforeBoot(node)' /\ StoppedBeforeBoot(CachedNode)'
      BY <2>1, <2>2 DEF StoppedBeforeBoot, DownInv
    <2>6. machine.state = "ShuttingDown" /\ host = "on" =>
            machine.shutdownStart >= bootTime \/ BothReady'
      BY <2>1, <2>3, <2>4 DEF DownInv, BothReady, nodeIsReady, InService
    <2> QED BY <2>1, <2>2, <2>5, <2>6 DEF DownInv, InService
  <1>3. CASE NodeBecomesNotReady
    <2>1. /\ UNCHANGED <<now, machine, nodeCache, host, bootTime>> /\ host # "on"
          /\ node.present /\ node'.present /\ ~node'.ready /\ node'.readyChanged = now
      BY <1>0, <1>3 DEF NodeBecomesNotReady, BoardLeftAlone, caches, hostVars, NodeRecord
    <2>2. CachedNode' = CachedNode \/ CachedNode' = node'
      BY <2>1 DEF CachedNode
    <2>3. StoppedBeforeBoot(node)' /\ StoppedBeforeBoot(CachedNode)'
      BY <1>0, <2>1, <2>2 DEF StoppedBeforeBoot, DownInv
    <2> QED BY <2>1, <2>2, <2>3 DEF DownInv
  <1>4. CASE SyncNode
    <2>1. /\ UNCHANGED <<now, machine, node, host, bootTime>>
          /\ CachedNode' = node /\ node' = node
      BY <1>4 DEF SyncNode, objects, hostVars, CachedNode
    <2>2. StoppedBeforeBoot(node)' /\ StoppedBeforeBoot(CachedNode)'
      BY <2>1 DEF StoppedBeforeBoot, DownInv
    <2>3. BothReady => BothReady'
      BY <2>1 DEF BothReady
    <2>4. nodeIsReady(CachedNode') => BothReady'
      BY <2>1 DEF BothReady
    <2>5. machine.state \in InService => node.present
      BY DEF DownInv
    <2> QED BY <2>1, <2>2, <2>3, <2>4, <2>5 DEF DownInv
  <1>5. CASE ~NodeRegisters /\ ~NodeBecomesReady /\ ~NodeBecomesNotReady /\ ~SyncNode
    BY <1>0, <1>5, CalmEnvironment, CalmKeepsDown DEF InService
  <1> QED BY <1>1, <1>2, <1>3, <1>4, <1>5

\* The agent changes nothing of the cluster but the board it halts.
LEMMA AgentTouchesHostOnly ==
  ASSUME \/ Agent(~Faults) \/ SyncAgent \/ AgentRestart \/ UNCHANGED vars
  PROVE  /\ UNCHANGED <<now, objects, caches, nodeHistory, ops>>
         /\ UNCHANGED hostVars \/ (host' = "halting" /\ UNCHANGED bootTime)
  BY DEF Agent, AgentReconcile, agentSkips, agentPowersOff, PowerOff, SyncAgent,
         AgentRestart, vars, clusterVars

\* So every step keeps the invariant.
LEMMA NextKeepsDown ==
  ASSUME "machine" \notin Lagging, BoardLeftAlone, Inv, DownInv, [Next]_vars
  PROVE  DownInv'
  <1> USE FaultsAssumption
  <1>1. CASE Controller(~Faults)
    BY <1>1, ControllerKeepsDown DEF Controller
  <1>2. CASE Environment
    BY <1>2, EnvironmentKeepsDown
  <1>3. CASE Agent(~Faults) \/ SyncAgent \/ AgentRestart \/ UNCHANGED vars
    <2>1. /\ UNCHANGED <<now, machine, node, nodeCache>> /\ now \in Nat /\ TypeOK
          /\ UNCHANGED hostVars \/ host' # "on"
      BY <1>3, AgentTouchesHostOnly, NodeTypes DEF objects, caches, Inv
    <2>2. UNCHANGED Readiness
      BY <2>1 DEF Readiness, CachedNode
    <2> QED BY <2>1, <2>2, CalmKeepsDown
  <1> QED BY <1>1, <1>2, <1>3 DEF Next

\* It holds at the start: a Node that is not Ready has a host that is off.
LEMMA InitHasDown == Init => DownInv
  <1> SUFFICES ASSUME Init PROVE DownInv
    OBVIOUS
  <1>1. now = 0 /\ bootTime = 0 /\ CachedNode = node /\ now >= bootTime
    BY DEF Init, ClusterInit, CachedNode
  <1>2. machine.state \notin InService
    BY DEF Init, ClusterInit, NewMachine, InService
  <1>3. StoppedBeforeBoot(node)
    <2>1. CASE host = "off" /\ node = NoNode
      BY <2>1 DEF NoNode, StoppedBeforeBoot
    <2>2. CASE host = "off" /\ node = [NoNode EXCEPT !.present = TRUE, !.readyChanged = 0]
      <3>1. node.readyChanged = 0
        BY <2>2 DEF NoNode
      <3>2. node.readyChanged <= now /\ host # "on"
        BY <1>1, <2>2, <3>1
      <3> QED BY <3>2 DEF StoppedBeforeBoot
    <2>3. CASE node = [NoNode EXCEPT !.present = TRUE, !.ready = TRUE, !.readyChanged = 0]
      BY <2>3 DEF NoNode, StoppedBeforeBoot
    <2> QED BY <2>1, <2>2, <2>3 DEF Init, ClusterInit
  <1> QED BY <1>1, <1>2, <1>3, Zenon DEF DownInv, InService

\* The controller's evidence for Off is no older than the shutdown, so the host
\* it speaks of is not running.
LEMMA OffOnEvidence ==
  ASSUME "machine" \notin Lagging, Inv, DownInv, NEW ok \in BOOLEAN, Reconcile(ok),
         machine.state = "ShuttingDown", machine'.state = "Off"
  PROVE  host # "on"
  <1> SUFFICES ASSUME host = "on" PROVE FALSE
    OBVIOUS
  <1>1. /\ CachedNode.readyChanged \in Time
        /\ machine.shutdownStart \in Nat /\ bootTime \in Nat /\ TypeOK
    BY NodeTypes DEF Inv, AnchoredStates, Anchored, Time
  <1>2. nodeWentDownSince(CachedNode, machine.shutdownStart)
    BY <1>1, PassHasEffect DEF PassEffect
  <1>3. CachedNode.present /\ machine.shutdownStart # None
    BY <1>1, NoneAssumption DEF DownInv, InService
  <1>4. ~CachedNode.ready /\ CachedNode.readyChanged \in Nat
        /\ CachedNode.readyChanged >= machine.shutdownStart
    BY <1>1, <1>2, <1>3 DEF nodeWentDownSince, Time
  <1>5. machine.shutdownStart >= bootTime
    BY <1>4 DEF DownInv, BothReady, nodeIsReady
  <1>6. CachedNode.readyChanged < bootTime
    BY <1>4, NoneAssumption DEF DownInv, StoppedBeforeBoot
  <1> QED BY <1>1, <1>4, <1>5, <1>6

\* Nobody but the controller moves the Machine, save the operator who resolves
\* a Failed one.
LEMMA OthersKeepState ==
  ASSUME TypeOK, Environment
  PROVE  /\ \/ machine'.state = machine.state
            \/ ResetFailed /\ machine.state = "Failed" /\ machine'.state = "Off"
         /\ machine'.shutdownStart = machine.shutdownStart
  <1>1. machine \in MachineRecord
    BY DEF TypeOK, ClusterTypeOK
  <1> QED
    BY <1>1
    DEF Environment, Operator, RequestWake, RequestDrain, ScaleDown, ResetFailed,
        OperatorCordon, OperatorUncordon, ToggleAlwaysOn, DeleteNode, ToggleDuplicate,
        PressPower, HostHalts, NodeRegisters, NodeBecomesReady, NodeBecomesNotReady,
        PodSteps, PodBinds, PodFinishes, PodIsDeleted, PodIsRemoved, PodStep,
        SyncMachine, SyncNode, SyncPods, Tick, objects, MachineRecord

\* Reporting Off after a power-off is never early: with a current Machine
\* cache, and nobody else switching the board or deleting the Node, the host is
\* down by then - however far the Node cache and the agent trail, and although
\* the evidence is a timestamp that another boot could have left behind.
THEOREM OffIsReportedDown ==
  ASSUME "machine" \notin Lagging, BoardLeftAlone PROVE Spec => OffMeansDown
  <1>1. Inv /\ DownInv /\ [Next]_vars => DownInv'
    BY NextKeepsDown
  <1>2. Inv /\ DownInv /\ [Next]_vars =>
          [machine.state = "ShuttingDown" /\ Enters("Off") => host # "on"]_vars
    <2> SUFFICES ASSUME Inv, DownInv, [Next]_vars, machine.state = "ShuttingDown",
                        machine'.state = "Off"
                 PROVE  host # "on"
      BY DEF Enters
    <2>1. CASE Controller(~Faults)
      BY <2>1, OffOnEvidence, FaultsAssumption DEF Controller
    <2>2. CASE Environment
      BY <2>2, OthersKeepState DEF Inv
    <2>3. CASE Agent(~Faults) \/ SyncAgent \/ AgentRestart \/ UNCHANGED vars
      BY <2>3, AgentTouchesHostOnly DEF objects
    <2> QED BY <2>1, <2>2, <2>3 DEF Next
  <1> QED BY <1>1, <1>2, InitHasDown, InvHolds, PTL DEF Spec, OffMeansDown

-----------------------------------------------------------------------------
(* Cordons.                                                                *)

\* Whatever its cache says, a pass writes the Node in one of these ways only.
LEMMA PassWritesNode ==
  ASSUME NEW ok \in BOOLEAN, Reconcile(ok)
  PROVE  node' \in NodeWrites
  BY DEF Reconcile, initialize, reconcileOff, promoteToReady, wake, reconcileBooting,
         reconcileReady, startDraining, reconcileReadyNodeLost, nodeInService,
         reconcileDraining, abortDrain, failDrain, drainPass, uncordonIfONPCordoned,
         reconcileShuttingDown, NodeWrites

\* Every change of a cordon is dated, and a marker put on an operator's cordon
\* is on record.
LEMMA HistoryKeepsCordon ==
  ASSUME TypeOK, CordonInv, NodeHistory, now' = now,
         cordonedBy = "operator" /\ node'.unschedulable =>
           node'.present /\ (node'.cordonedByONP => MarkedUnseen)
  PROVE  CordonInv'
  <1>1. now \in Nat /\ now # None /\ now <= now
    BY NoneAssumption DEF TypeOK, ClusterTypeOK
  <1>2. node'.unschedulable => cordonedAt' # None /\ cordonedAt' <= now'
    BY <1>1 DEF CordonInv, NodeHistory
  <1>3. cordonedBy' = "operator" =>
          cordonedBy = "operator" /\ node'.unschedulable /\ ~MarkedUnseen
    BY DEF NodeHistory
  <1> QED BY <1>2, <1>3 DEF CordonInv

\* Every step keeps the dates.
LEMMA NextKeepsCordon ==
  ASSUME Inv, CordonInv, [Next]_vars
  PROVE  CordonInv'
  <1> USE FaultsAssumption
  <1>0. TypeOK /\ node \in NodeRecord /\ now \in Nat /\ cordonedAt \in Time
    BY NodeTypes DEF Inv, TypeOK, ClusterTypeOK
  <1>1. CASE Controller(~Faults)
    <2>1. node' \in NodeWrites /\ NodeHistory /\ now' = now
      BY <1>1, PassWritesNode DEF Controller, Reconcile
    <2>2. node'.present = node.present
      BY <1>0, <2>1, NodeWritesKeepReady
    <2>3. ~node.cordonedByONP /\ node'.cordonedByONP => MarkedUnseen
      BY <1>0, <2>1
      DEF NodeWrites, setCordon, uncordoned, dropStaleCordonMarker, needsCordon, MarkedUnseen,
          NodeRecord
    <2> QED BY <1>0, <2>1, <2>2, <2>3, HistoryKeepsCordon DEF CordonInv
  <1>2. CASE OperatorCordon
    <2>1. /\ node.present /\ node' = [node EXCEPT !.unschedulable = TRUE]
          /\ cordonedAt' = now /\ now' = now
          /\ cordonedBy' = "operator" => ~node.cordonedByONP
      BY <1>2 DEF OperatorCordon, Does
    <2>2. node'.present /\ node'.unschedulable /\ node'.cordonedByONP = node.cordonedByONP
      BY <1>0, <2>1 DEF NodeRecord
    <2>3. now # None /\ now <= now
      BY <1>0, NoneAssumption
    <2> QED BY <2>1, <2>2, <2>3 DEF CordonInv
  <1>3. CASE OperatorUncordon \/ DeleteNode
    <2>1. NodeHistory /\ now' = now
      BY <1>3 DEF OperatorUncordon, DeleteNode, Does
    <2>2. ~node'.unschedulable
      BY <1>0, <1>3 DEF OperatorUncordon, DeleteNode, NodeRecord, NoNode
    <2> QED BY <1>0, <2>1, <2>2, HistoryKeepsCordon
  <1>4. CASE ToggleAlwaysOn \/ NodeBecomesReady \/ NodeBecomesNotReady
    <2>1. UNCHANGED <<nodeHistory, now>>
      BY <1>4 DEF ToggleAlwaysOn, Does, NodeBecomesReady, NodeBecomesNotReady
    <2>2. /\ node'.present = node.present /\ node'.unschedulable = node.unschedulable
          /\ node'.cordonedByONP = node.cordonedByONP
      BY <1>0, <1>4 DEF ToggleAlwaysOn, NodeBecomesReady, NodeBecomesNotReady, NodeRecord
    <2> QED BY <2>1, <2>2 DEF CordonInv, nodeHistory
  <1>5. CASE NodeRegisters
    <2>1. UNCHANGED <<nodeHistory, now>> /\ ~node.present
      BY <1>5 DEF NodeRegisters
    <2>2. ~node'.unschedulable
      BY <1>5 DEF NodeRegisters, NoNode
    <2> QED BY <2>1, <2>2 DEF CordonInv, nodeHistory
  <1>6. CASE UNCHANGED <<node, nodeHistory>> /\ (now' = now \/ now' = now + 1)
    BY <1>0, <1>6 DEF CordonInv, nodeHistory, Time
  <1>7. Environment =>
          \/ OperatorCordon \/ OperatorUncordon \/ DeleteNode \/ ToggleAlwaysOn
          \/ NodeBecomesReady \/ NodeBecomesNotReady \/ NodeRegisters
          \/ UNCHANGED <<node, nodeHistory>> /\ (now' = now \/ now' = now + 1)
    BY DEF Environment, Operator, RequestWake, RequestDrain, ScaleDown, ResetFailed,
           ToggleDuplicate, PressPower, Does, HostHalts, PodSteps, PodBinds, PodFinishes,
           PodIsDeleted, PodIsRemoved, PodStep, SyncMachine, SyncNode, SyncPods, Tick,
           objects
  <1>8. Agent(~Faults) \/ SyncAgent \/ AgentRestart \/ UNCHANGED vars =>
          UNCHANGED <<node, nodeHistory, now>>
    BY AgentTouchesHostOnly DEF objects
  <1> QED BY <1>1, <1>2, <1>3, <1>4, <1>5, <1>6, <1>7, <1>8 DEF Next

\* A Machine just created is not in service, and no agent believes it is.
LEMMA InitOutOfService ==
  ASSUME Init
  PROVE  machine.state \notin InService /\ agentCache.state # "ShuttingDown"
  <1>1. NewMachine.state \notin InService /\ NewMachine.state # "ShuttingDown"
    BY DEF NewMachine, InService
  <1> QED BY <1>1 DEF Init, ClusterInit, AgentInit

\* At the start nothing is cordoned.
LEMMA InitHasCordon == Init => CordonInv /\ CordonedInv
  <1> SUFFICES ASSUME Init PROVE CordonInv /\ CordonedInv
    OBVIOUS
  <1>1. ~node.unschedulable
    <2>1. /\ ~NoNode.unschedulable
          /\ ~[NoNode EXCEPT !.present = TRUE, !.readyChanged = 0].unschedulable
          /\ ~[NoNode EXCEPT !.present = TRUE, !.ready = TRUE,
                             !.readyChanged = 0].unschedulable
      BY DEF NoNode
    <2> QED BY <2>1, Zenon DEF Init, ClusterInit
  <1>2. cordonedBy = "none" /\ machine.state \notin InService
    BY InitOutOfService DEF Init, ClusterInit
  <1> QED BY <1>1, <1>2 DEF CordonInv, CordonedInv, InService

\* The dates hold always.
LEMMA CordonHolds == Spec => []CordonInv
  <1>1. Init => CordonInv
    BY InitHasCordon
  <1>2. Inv /\ CordonInv /\ [Next]_vars => CordonInv'
    BY NextKeepsCordon
  <1> QED BY <1>1, <1>2, InvHolds, PTL DEF Spec

\* A cordon the operator places on a Node without ONP's marker is the operator's
\* to lift, for caches of any age and whatever drains, wakes and aborts come in
\* between: no pass claims a cordon it saw, and a pass whose copy is current
\* lifts none it did not claim.
THEOREM OperatorCordonStands == Spec => OperatorCordonKept
  <1>1. Inv /\ CordonInv /\ [Next]_vars =>
          [cordonedBy = "operator" /\ CachedNode = node /\ node'.present /\ ~node'.unschedulable
             => ops' # ops]_vars
    <2> SUFFICES ASSUME Inv, CordonInv, [Next]_vars, cordonedBy = "operator", CachedNode = node,
                        node'.present, ~node'.unschedulable
                 PROVE  ops' # ops
      OBVIOUS
    <2> USE FaultsAssumption
    <2>0. /\ node \in NodeRecord /\ ops \in Nat
          /\ node.present /\ node.unschedulable /\ ~node.cordonedByONP
      BY DEF Inv, TypeOK, ClusterTypeOK, CordonInv
    <2>1. CASE Controller(~Faults)
      <3>1. node' \in NodeWrites
        BY <2>1, PassWritesNode DEF Controller
      <3>2. \A n \in NodeWrites : n.unschedulable
        BY <2>0
        DEF NodeWrites, setCordon, uncordoned, dropStaleCordonMarker, markedByONP,
            needsCordon, staleMarker, NodeRecord
      <3> QED BY <3>1, <3>2
    <2>2. CASE Operator
      BY <2>0, <2>2
      DEF Operator, RequestWake, RequestDrain, ScaleDown, ResetFailed, OperatorCordon,
          OperatorUncordon, ToggleAlwaysOn, DeleteNode, ToggleDuplicate, PressPower, Does
    <2>3. CASE NodeRegisters \/ NodeBecomesReady \/ NodeBecomesNotReady
      BY <2>0, <2>3 DEF NodeRegisters, NodeBecomesReady, NodeBecomesNotReady, NodeRecord
    <2>4. CASE node' = node
      BY <2>0, <2>4
    <2>5. Environment => Operator \/ NodeRegisters \/ NodeBecomesReady
                         \/ NodeBecomesNotReady \/ node' = node
      BY DEF Environment, HostHalts, PodSteps, PodBinds, PodFinishes, PodIsDeleted,
             PodIsRemoved, PodStep, SyncMachine, SyncNode, SyncPods, Tick, objects
    <2>6. Agent(~Faults) \/ SyncAgent \/ AgentRestart \/ UNCHANGED vars => node' = node
      BY AgentTouchesHostOnly DEF objects
    <2> QED BY <2>1, <2>2, <2>3, <2>4, <2>5, <2>6 DEF Next
  <1> QED BY <1>1, CordonHolds, InvHolds, PTL DEF Spec, OperatorCordonKept

\* Left alone, a Node stays, and stays cordoned.
LEMMA OthersKeepCordon ==
  ASSUME TypeOK, Environment, CordonLeftAlone, node.present
  PROVE  node'.present /\ (node.unschedulable => node'.unschedulable)
  <1>0. node \in NodeRecord
    BY NodeTypes
  <1>1. CASE OperatorCordon \/ ToggleAlwaysOn \/ NodeBecomesReady \/ NodeBecomesNotReady
    BY <1>0, <1>1
    DEF OperatorCordon, ToggleAlwaysOn, NodeBecomesReady, NodeBecomesNotReady, NodeRecord
  <1>2. CASE node' = node
    BY <1>2
  <1> QED
    BY <1>1, <1>2
    DEF Environment, Operator, RequestWake, RequestDrain, ScaleDown, ResetFailed,
        OperatorUncordon, DeleteNode, ToggleDuplicate, PressPower, Does, CordonLeftAlone,
        HostHalts, NodeRegisters, PodSteps, PodBinds, PodFinishes, PodIsDeleted,
        PodIsRemoved, PodStep, SyncMachine, SyncNode, SyncPods, Tick, objects

\* A Machine is handed to the power-off leg with its Node cordoned, and nothing
\* after that lifts the cordon.
LEMMA NextKeepsCordoned ==
  ASSUME "machine" \notin Lagging, "node" \notin Lagging, CordonLeftAlone,
         TypeOK, CordonedInv, [Next]_vars
  PROVE  CordonedInv'
  <1> USE FaultsAssumption
  <1>1. CASE Controller(~Faults)
    <2>1. PassEffect /\ CachedNode = node
      BY <1>1, PassHasEffect DEF Controller, CachedNode
    <2>2. node'.present = node.present
      BY <2>1, NodeWritesKeepReady DEF PassEffect
    <2>3. machine'.state \in InService => node.present
      BY <2>1, PassTakesEdge
      DEF PassEffect, ControllerEdges, CordonedInv, InService, nodeIsReady
    <2>4. machine'.state = "ShuttingDown" => node' = node /\ node.unschedulable
      BY <2>1, PassTakesEdge
      DEF PassEffect, ControllerEdges, CordonedInv, InService, needsCordon
    <2> QED BY <2>2, <2>3, <2>4 DEF CordonedInv
  <1>2. CASE Environment
    <2>1. machine'.state = machine.state \/ machine'.state = "Off"
      BY <1>2, OthersKeepState
    <2>2. node.present => node'.present /\ (node.unschedulable => node'.unschedulable)
      BY <1>2, OthersKeepCordon
    <2> QED BY <2>1, <2>2 DEF CordonedInv, InService
  <1>3. CASE Agent(~Faults) \/ SyncAgent \/ AgentRestart \/ UNCHANGED vars
    BY <1>3, AgentTouchesHostOnly DEF objects, CordonedInv
  <1> QED BY <1>1, <1>2, <1>3 DEF Next

\* The strengthened invariant holds always.
LEMMA CordonedHolds ==
  ASSUME "machine" \notin Lagging, "node" \notin Lagging, CordonLeftAlone
  PROVE  Spec => []CordonedInv
  <1>1. Init => CordonedInv
    BY InitHasCordon
  <1>2. TypeOK /\ CordonedInv /\ [Next]_vars => CordonedInv'
    BY NextKeepsCordoned
  <1> QED BY <1>1, <1>2, TypeCorrect, PTL DEF Spec

\* A Node on its way down keeps its cordon, if neither the Machine nor the Node
\* cache trails and nobody takes the cordon or the Node away.
THEOREM CordonIsHeld ==
  ASSUME "machine" \notin Lagging, "node" \notin Lagging, CordonLeftAlone
  PROVE  Spec => []CordonHeld
  <1>1. CordonedInv => CordonHeld
    BY DEF CordonedInv, CordonHeld
  <1> QED BY <1>1, CordonedHolds, PTL

-----------------------------------------------------------------------------
(* What is on the Node when its power goes.                                *)

\* Nobody binds to a cordoned Node what would keep it on.
LEMMA PodStepsKeepQuiet ==
  ASSUME TypeOK, CordonInv, CordonHeeded, Quiet, PodSteps
  PROVE  podsKeepingNodeOn(pods') = {}
  <1>0. pods \in [Pods -> PodPhases] /\ podsKeepingNodeOn(pods) = {}
    BY DEF TypeOK, ClusterTypeOK, Quiet
  <1>1. CordonKnown
    <2>1. now \in Nat /\ cordonedAt \in Nat /\ cordonedAt <= now
      BY DEF TypeOK, ClusterTypeOK, CordonInv, Quiet, Time
    <2> QED BY <2>1 DEF CordonKnown, CordonHeeded, Quiet
  <1>2. PICK p \in Pods : PodBinds(p) \/ PodFinishes(p) \/ PodIsDeleted(p) \/ PodIsRemoved(p)
    BY DEF PodSteps
  <1>3. ~keepsNodeOn(pods', p)
    <2>1. CASE PodBinds(p)
      <3>1. PodKind[p].daemonSet \/ PodKind[p].mirror
        BY <1>1, <2>1 DEF PodBinds
      <3>2. ~PodKind[p].doNotDisrupt
        BY <3>1 DEF CordonHeeded
      <3> QED BY <3>1, <3>2 DEF keepsNodeOn, isWorkload
    <2>2. CASE PodFinishes(p) \/ PodIsRemoved(p)
      <3>1. pods'[p] \in {"finished", "absent"}
        BY <1>0, <2>2 DEF PodFinishes, PodIsRemoved, PodStep
      <3> QED BY <3>1 DEF keepsNodeOn, isWorkload
    <2>3. CASE PodIsDeleted(p)
      <3>1. pods[p] = "running" /\ pods'[p] = "terminating"
        BY <1>0, <2>3 DEF PodIsDeleted, PodStep
      <3>2. ~keepsNodeOn(pods, p)
        BY <1>0 DEF podsKeepingNodeOn
      <3> QED BY <3>1, <3>2 DEF keepsNodeOn, isWorkload
    <2> QED BY <1>2, <2>1, <2>2, <2>3
  <1>4. \A q \in Pods : q # p => pods'[q] = pods[q]
    BY <1>0, <1>2 DEF PodBinds, PodFinishes, PodIsDeleted, PodIsRemoved, PodStep
  <1>5. \A q \in Pods : ~keepsNodeOn(pods', q)
    BY <1>0, <1>3, <1>4 DEF podsKeepingNodeOn, keepsNodeOn, isWorkload
  <1> QED BY <1>5 DEF podsKeepingNodeOn

\* Nor does anyone else disturb a quiet Node.
LEMMA OthersKeepQuiet ==
  ASSUME TypeOK, CordonInv, CordonHeeded, CordonLeftAlone, Environment, Quiet
  PROVE  Quiet'
  <1>1. node'.present /\ node'.unschedulable
    BY OthersKeepCordon DEF Quiet
  <1>2. PodSteps \/ pods' = pods
    BY DEF Environment, Operator, RequestWake, RequestDrain, ScaleDown, ResetFailed,
           OperatorCordon, OperatorUncordon, ToggleAlwaysOn, DeleteNode, ToggleDuplicate,
           PressPower, Does, HostHalts, NodeRegisters, NodeBecomesReady,
           NodeBecomesNotReady, SyncMachine, SyncNode, SyncPods, Tick, objects
  <1>3. podsKeepingNodeOn(pods') = {}
    BY <1>2, PodStepsKeepQuiet DEF Quiet
  <1>4. podsKeepingNodeOn(pods)' = podsKeepingNodeOn(pods')
    BY DEF podsKeepingNodeOn, keepsNodeOn, isWorkload
  <1> QED BY <1>1, <1>3, <1>4 DEF Quiet

\* A pass leaves the Machine on its way down only with a quiet Node.
LEMMA PassKeepsQuiet ==
  ASSUME "machine" \notin Lagging, "node" \notin Lagging, TypeOK, CordonedInv, QuietInv,
         NEW ok \in BOOLEAN, Reconcile(ok)
  PROVE  /\ machine'.state = "ShuttingDown" => Quiet'
         /\ machine.state = "ShuttingDown" => Quiet'
  <1>1. PassEffect /\ CachedNode = node
    BY PassHasEffect DEF CachedNode
  <1>2. UNCHANGED <<node, pods>> => Quiet' = Quiet
    BY DEF Quiet, podsKeepingNodeOn, keepsNodeOn, isWorkload
  <1>3. machine.state = "ShuttingDown" => Quiet'
    BY <1>1, <1>2 DEF PassEffect, QuietInv
  <1>4. machine.state = "Draining" /\ machine'.state = "ShuttingDown" => Quiet'
    BY <1>1, <1>2
    DEF PassEffect, CordonedInv, InService, needsCordon, nothingKeepsNodeOn, Quiet
  <1>5. machine'.state = "ShuttingDown" => machine.state \in {"Draining", "ShuttingDown"}
    BY <1>1, PassTakesEdge DEF ControllerEdges
  <1> QED BY <1>3, <1>4, <1>5

\* So a Machine on its way down has a quiet Node throughout.
LEMMA NextKeepsQuiet ==
  ASSUME "machine" \notin Lagging, "node" \notin Lagging, CordonLeftAlone, CordonHeeded,
         TypeOK, CordonInv, CordonedInv, QuietInv, [Next]_vars
  PROVE  QuietInv'
  <1> USE FaultsAssumption
  <1>1. CASE Controller(~Faults)
    BY <1>1, PassKeepsQuiet DEF Controller, QuietInv
  <1>2. CASE Environment
    <2>1. machine'.state = "ShuttingDown" => machine.state = "ShuttingDown"
      BY <1>2, OthersKeepState
    <2> QED BY <1>2, <2>1, OthersKeepQuiet DEF QuietInv
  <1>3. CASE Agent(~Faults) \/ SyncAgent \/ AgentRestart \/ UNCHANGED vars
    BY <1>3, AgentTouchesHostOnly
    DEF objects, QuietInv, Quiet, podsKeepingNodeOn, keepsNodeOn, isWorkload
  <1> QED BY <1>1, <1>2, <1>3 DEF Next

\* The invariant holds always.
LEMMA QuietHolds ==
  ASSUME "machine" \notin Lagging, "node" \notin Lagging, CordonLeftAlone, CordonHeeded
  PROVE  Spec => []QuietInv
  <1>1. Init => QuietInv
    BY InitOutOfService DEF InService, QuietInv
  <1>2. /\ TypeOK /\ CordonInv /\ CordonedInv /\ QuietInv /\ [Next]_vars
        => QuietInv'
    BY NextKeepsQuiet
  <1> QED BY <1>1, <1>2, TypeCorrect, CordonHolds, CordonedHolds, PTL DEF Spec

\* An agent that trails acts on an old episode at most while the host has not
\* been down since, and then the Machine has not come back into service.
LEMMA NextKeepsStaleAgent ==
  ASSUME "machine" \notin Lagging, "node" \notin Lagging, CordonLeftAlone, CordonHeeded,
         BoardLeftAlone, "reset" \notin OperatorMoves,
         Inv, DownInv, CordonInv, CordonedInv, QuietInv, StaleAgentInv, [Next]_vars
  PROVE  StaleAgentInv'
  <1> USE FaultsAssumption
  <1>0. TypeOK /\ Good(agentCache, now) /\ now \in Nat /\ bootTime \in Nat
    BY CachedIsGood, NodeTypes DEF Inv
  <1>1. agentCache.state = "ShuttingDown" =>
          agentCache.shutdownStart \in Nat /\ agentCache.shutdownStart <= now
    BY <1>0 DEF Good, Anchored, MachineRecord, Time
  <1>2. NewMachine.state # "ShuttingDown"
    BY DEF NewMachine
  <1>3. UNCHANGED <<node, pods>> => Quiet' = Quiet
    BY DEF Quiet, podsKeepingNodeOn, keepsNodeOn, isWorkload
  <1>4. CASE Controller(~Faults)
    <2>1. Reconcile(~Faults) /\ PassEffect
      BY <1>0, <1>4, PassHasEffect DEF Controller
    <2>2. agentCache' = agentCache
      BY <1>4, <2>1
      DEF Controller, AgentFollowsHost, agentVars, PassEffect, BoardStarts, hostVars
    <2>3. CASE BoardStarts
      BY <1>0, <1>1, <2>2, <2>3 DEF BoardStarts, StaleAgentInv
    <2>4. CASE UNCHANGED hostVars /\ machine.state = "ShuttingDown"
      <3>1. Quiet'
        BY <1>0, <2>1, <2>4, PassKeepsQuiet
      <3>2. host = "on" => machine'.state \in {"ShuttingDown", "Failed"}
        <4>1. machine'.state \in {"ShuttingDown", "Off", "Failed"}
          BY <2>1, <2>4, PassTakesEdge DEF ControllerEdges
        <4> QED BY <2>1, <2>4, <4>1, OffOnEvidence
      <3> QED BY <2>2, <2>4, <3>1, <3>2 DEF StaleAgentInv, hostVars
    <2>5. CASE UNCHANGED hostVars /\ machine.state # "ShuttingDown"
      BY <2>1, <2>2, <2>5 DEF StaleAgentInv, hostVars, PassEffect
    <2> QED BY <2>1, <2>3, <2>4, <2>5 DEF PassEffect
  <1>5. CASE Environment /\ AgentFollowsHost
    <2>1. agentCache' = agentCache \/ agentCache' = NewMachine
      BY <1>5 DEF AgentFollowsHost, ProcessIsGone, agentVars
    <2>2. machine'.state = machine.state
      BY <1>0, <1>5, OthersKeepState DEF ResetFailed, Does
    <2>3. Quiet => Quiet'
      BY <1>0, <1>5, OthersKeepQuiet
    <2>4. UNCHANGED hostVars \/ host' # "on"
      BY <1>5
      DEF Environment, Operator, RequestWake, RequestDrain, ScaleDown, ResetFailed,
          OperatorCordon, OperatorUncordon, ToggleAlwaysOn, DeleteNode, ToggleDuplicate,
          PressPower, Does, BoardLeftAlone, HostHalts, BoardIsOff, NodeRegisters,
          NodeBecomesReady, NodeBecomesNotReady, PodSteps, PodBinds, PodFinishes,
          PodIsDeleted, PodIsRemoved, PodStep, SyncMachine, SyncNode, SyncPods, Tick
    <2> QED BY <1>2, <2>1, <2>2, <2>3, <2>4 DEF StaleAgentInv, hostVars
  <1>6. CASE SyncAgent
    <2>1. agentCache' = machine /\ UNCHANGED <<machine, node, pods, host, bootTime>>
      BY <1>6 DEF SyncAgent, clusterVars, objects, hostVars
    <2> QED BY <1>3, <2>1 DEF StaleAgentInv, QuietInv
  <1>7. CASE Agent(~Faults) \/ AgentRestart \/ UNCHANGED vars
    <2>1. /\ UNCHANGED <<machine, node, pods>>
          /\ UNCHANGED hostVars \/ host' # "on"
      BY <1>7, AgentTouchesHostOnly DEF objects
    <2>2. agentCache' = agentCache \/ agentCache' = NewMachine
      BY <1>7 DEF Agent, AgentReconcile, AgentRestart, ProcessIsGone, vars, agentVars
    <2> QED BY <1>2, <1>3, <2>1, <2>2 DEF StaleAgentInv, hostVars
  <1> QED BY <1>4, <1>5, <1>6, <1>7 DEF Next

\* The agent never takes a host down under a pod that keeps its Node on, if no
\* cordon is lifted or overlooked by others and either the agent's copy of the
\* Machine is current, or it can read the boot time and nobody puts a Failed
\* Machine back into service.  The drain saw the Node empty at an earlier
\* instant; this is why that is still so when the power goes.
THEOREM WorkloadNeverCut ==
  ASSUME "machine" \notin Lagging, "node" \notin Lagging, CordonLeftAlone, CordonHeeded,
         AgentKeepsUp
  PROVE  Spec => NoWorkloadAtPowerOff
  <1>1. CASE "agent" \notin Lagging
    <2>1. Inv /\ QuietInv /\ [Next]_vars =>
            [HostPowersOff => podsKeepingNodeOn(pods) = {}]_vars
      <3> SUFFICES ASSUME Inv, QuietInv, [Next]_vars, HostPowersOff
                   PROVE  podsKeepingNodeOn(pods) = {}
        OBVIOUS
      <3>1. AgentReconcile(~Faults)
        BY OnlyAgentPowersOff
      <3>2. machine.state = "ShuttingDown"
        BY <1>1, <3>1 DEF AgentReconcile, AgentMachine
      <3> QED BY <3>2 DEF QuietInv, Quiet
    <2> QED BY <2>1, QuietHolds, InvHolds, PTL DEF Spec, NoWorkloadAtPowerOff
  <1>2. CASE /\ "agent" \in Lagging
             /\ BootTimeReadable /\ "reset" \notin OperatorMoves /\ BoardLeftAlone
    <2>1. Init => DownInv /\ StaleAgentInv
      BY InitHasDown, InitOutOfService DEF StaleAgentInv
    <2>2. Inv /\ DownInv /\ [Next]_vars => DownInv'
      BY <1>2, NextKeepsDown
    <2>3. /\ Inv /\ DownInv /\ CordonInv /\ CordonedInv /\ QuietInv /\ StaleAgentInv
          /\ [Next]_vars
          => StaleAgentInv'
      BY <1>2, NextKeepsStaleAgent
    <2>4. Inv /\ StaleAgentInv /\ [Next]_vars =>
            [HostPowersOff => podsKeepingNodeOn(pods) = {}]_vars
      <3> SUFFICES ASSUME Inv, StaleAgentInv, [Next]_vars, HostPowersOff
                   PROVE  podsKeepingNodeOn(pods) = {}
        OBVIOUS
      <3>1. AgentReconcile(~Faults) /\ host = "on"
        BY OnlyAgentPowersOff DEF HostPowersOff
      <3>2. agentCache.state = "ShuttingDown" /\ ~bootedAfter(agentCache.shutdownStart)
        BY <1>2, <3>1
        DEF AgentReconcile, AgentMachine, agentSkips, agentPowersOff, shutdownEpisode,
            HostPowersOff, hostVars
      <3>3. agentCache.shutdownStart \in Nat /\ bootTime \in Nat
        BY <3>2, CachedIsGood
        DEF Inv, Good, Anchored, MachineRecord, Time, TypeOK, ClusterTypeOK
      <3>4. bootTime <= agentCache.shutdownStart
        BY <1>2, <3>2, <3>3, NoneAssumption DEF bootedAfter
      <3> QED BY <3>1, <3>2, <3>4 DEF StaleAgentInv, Quiet
    <2> QED
      BY <2>1, <2>2, <2>3, <2>4, InvHolds, CordonHolds, CordonedHolds, QuietHolds, PTL
      DEF Spec, NoWorkloadAtPowerOff
  <1> QED BY <1>1, <1>2 DEF AgentKeepsUp

-----------------------------------------------------------------------------
(* The way back into service.                                              *)

\* What a Machine in service rests on: ONP's cordon carries ONP's marker.
MarkedInv ==
  cordonedBy = "ONP" => node.present /\ node.unschedulable /\ node.cordonedByONP

\* A pass that ends in Ready has lifted ONP's cordon, or found the Machine Ready
\* and cordoned nothing.
LEMMA ReadyIsUncordoned ==
  ASSUME "machine" \notin Lagging, TypeOK, NEW ok \in BOOLEAN, Reconcile(ok),
         machine'.state = "Ready"
  PROVE  \/ node' = uncordoned
         \/ machine.state = "Ready" /\ node' \in {node, dropStaleCordonMarker}
  <1> DEFINE h == removeDrainAnnotation
             failed == [h.copy EXCEPT !.state = "Failed"]
             down == [h.copy EXCEPT !.state = "ShuttingDown", !.shutdownStart = now]
  <1>1. PassEffect
    BY PassHasEffect
  <1>2. /\ CachedMachine = machine /\ h.server \in MachineRecord /\ h.copy = h.server
        /\ h.server.state = machine.state
    BY HandledMachine, CurrentHandles DEF MachineRecord
  <1>3. /\ failed \in MachineRecord /\ failed.state = "Failed"
        /\ down \in MachineRecord /\ down.state = "ShuttingDown"
    <2>1. \A c \in MachineRecord :
            /\ [c EXCEPT !.state = "Failed"] \in MachineRecord
            /\ [c EXCEPT !.state = "Failed"].state = "Failed"
            /\ [c EXCEPT !.state = "ShuttingDown", !.shutdownStart = now] \in MachineRecord
            /\ [c EXCEPT !.state = "ShuttingDown", !.shutdownStart = now].state = "ShuttingDown"
      BY HandledMachine DEF MachineRecord, States
    <2> QED BY <1>2, <2>1
  <1>4. ASSUME machine' = h.server PROVE machine.state = "Ready"
    BY <1>2, <1>4
  <1>5. CASE reconcileOff(ok) \/ reconcileBooting(ok)
    <2>1. machine.state \in {"Off", "Booting"} /\ nodeIsReady(CachedNode)
      BY <1>1, <1>2, <1>5 DEF reconcileOff, reconcileBooting, PassEffect
    <2>2. promoteToReady(h, ok) /\ machine' # h.server
      BY <1>4, <1>5, <2>1 DEF reconcileOff, reconcileBooting
    <2> QED BY <2>2 DEF promoteToReady, uncordonIfONPCordoned
  <1>6. CASE reconcileReady(ok)
    <2>1. machine.state = "Ready"
      BY <1>2, <1>6 DEF reconcileReady
    <2> QED
      BY <1>6, <2>1
      DEF reconcileReady, startDraining, reconcileReadyNodeLost, nodeInService
  <1>7. CASE reconcileDraining(ok)
    <2>1. machine.state = "Draining" /\ machine' # h.server
      BY <1>2, <1>4, <1>7 DEF reconcileDraining
    <2>2. \/ abortDrain(h, ok)
          \/ StatusUpdate(h, failed, ok) \/ StatusUpdate(h, down, ok)
      BY <1>7, <2>1
      DEF reconcileDraining, failDrain, uncordonIfONPCordoned, drainPass, powerOffDrained
    <2>3. ~StatusUpdate(h, failed, ok) /\ ~StatusUpdate(h, down, ok)
      <3> HIDE DEF h, failed, down
      <3> QED BY <1>2, <1>3, <2>1, UpdatesLand DEF Lands
    <2>4. abortDrain(h, ok)
      BY <2>2, <2>3
    <2> QED BY <2>1, <2>4 DEF abortDrain, uncordonIfONPCordoned
  <1>8. CASE initialize(ok) \/ reconcileShuttingDown(ok)
    <2>1. machine.state \in {"", "ShuttingDown"}
      BY <1>2, <1>8 DEF initialize, reconcileShuttingDown
    <2> QED BY <1>1, <2>1, PassTakesEdge DEF ControllerEdges
  <1> QED BY <1>5, <1>6, <1>7, <1>8 DEF Reconcile

\* Every step keeps the marker on ONP's cordon, and ONP's cordon off a Machine
\* in service.
LEMMA NextKeepsService ==
  ASSUME "machine" \notin Lagging, "node" \notin Lagging, Inv, MarkedInv, ReadyIsSchedulable,
         [Next]_vars
  PROVE  MarkedInv' /\ ReadyIsSchedulable'
  <1> USE FaultsAssumption
  <1>0. TypeOK /\ node \in NodeRecord /\ CachedNode = node
    BY NodeTypes DEF Inv, CachedNode
  <1>1. CASE Controller(~Faults)
    <2>1. Reconcile(~Faults) /\ node' \in NodeWrites /\ NodeHistory
      BY <1>1, PassWritesNode DEF Controller, Reconcile
    <2>2. node'.present = node.present
      BY <1>0, <2>1, NodeWritesKeepReady
    <2>3. cordonedBy' = "ONP" =>
            node'.unschedulable /\ (node.unschedulable => cordonedBy = "ONP")
      BY <2>1 DEF NodeHistory
    <2>4. \A n \in NodeWrites : n.unschedulable =>
            /\ node.unschedulable /\ node.cordonedByONP => n.cordonedByONP
            /\ ~node.unschedulable => n.present /\ n.cordonedByONP
      BY <1>0
      DEF NodeWrites, setCordon, uncordoned, dropStaleCordonMarker, markedByONP, staleMarker,
          needsCordon, NodeRecord
    <2>5. MarkedInv'
      BY <2>1, <2>2, <2>3, <2>4 DEF MarkedInv
    <2>6. /\ uncordoned.unschedulable =>
               node.unschedulable /\ ~(node.present /\ node.cordonedByONP)
          /\ dropStaleCordonMarker.unschedulable = node.unschedulable
      BY <1>0 DEF uncordoned, markedByONP, dropStaleCordonMarker, NodeRecord
    <2>7. ReadyIsSchedulable'
      BY <1>0, <2>1, <2>2, <2>3, <2>6, ReadyIsUncordoned DEF MarkedInv, ReadyIsSchedulable
    <2> QED BY <2>5, <2>7
  <1>2. CASE OperatorCordon
    <2>1. cordonedBy' # "ONP"
      BY <1>2 DEF OperatorCordon
    <2> QED BY <2>1 DEF MarkedInv, ReadyIsSchedulable
  <1>3. CASE OperatorUncordon \/ DeleteNode
    <2>1. NodeHistory /\ ~node'.unschedulable
      BY <1>0, <1>3 DEF OperatorUncordon, DeleteNode, NodeRecord, NoNode
    <2> QED BY <2>1 DEF NodeHistory, MarkedInv, ReadyIsSchedulable
  <1>4. CASE NodeRegisters
    <2>1. UNCHANGED nodeHistory /\ ~node.present /\ ~node'.unschedulable
      BY <1>4 DEF NodeRegisters, NoNode
    <2> QED BY <2>1 DEF nodeHistory, MarkedInv, ReadyIsSchedulable
  <1>5. CASE /\ UNCHANGED <<nodeHistory, node.present, node.unschedulable, node.cordonedByONP>>
             /\ machine'.state = "Ready" => machine.state = "Ready"
    BY <1>5 DEF nodeHistory, MarkedInv, ReadyIsSchedulable
  <1>6. CASE Environment
    <2>1. machine'.state = "Ready" => machine.state = "Ready"
      BY <1>0, <1>6, OthersKeepState
    <2>2. CASE ToggleAlwaysOn \/ NodeBecomesReady \/ NodeBecomesNotReady
      <3>1. UNCHANGED <<nodeHistory, node.present, node.unschedulable, node.cordonedByONP>>
        BY <1>0, <2>2 DEF ToggleAlwaysOn, NodeBecomesReady, NodeBecomesNotReady, NodeRecord
      <3> QED BY <1>5, <2>1, <3>1
    <2>3. \/ OperatorCordon \/ OperatorUncordon \/ DeleteNode \/ ToggleAlwaysOn
          \/ NodeBecomesReady \/ NodeBecomesNotReady \/ NodeRegisters
          \/ UNCHANGED <<node, nodeHistory>>
      BY <1>6
      DEF Environment, Operator, RequestWake, RequestDrain, ScaleDown, ResetFailed,
          ToggleDuplicate, PressPower, Does, HostHalts, PodSteps, PodBinds, PodFinishes,
          PodIsDeleted, PodIsRemoved, PodStep, SyncMachine, SyncNode, SyncPods, Tick, objects
    <2> QED BY <1>2, <1>3, <1>4, <1>5, <2>1, <2>2, <2>3
  <1>7. CASE Agent(~Faults) \/ SyncAgent \/ AgentRestart \/ UNCHANGED vars
    BY <1>5, <1>7, AgentTouchesHostOnly DEF objects
  <1> QED BY <1>1, <1>6, <1>7 DEF Next

\* With current Machine and Node caches a Machine in service never keeps the
\* cordon of a drain, whatever operators do to the Node, whichever write of the
\* way back fails and however often it is tried again.
THEOREM ServiceIsSchedulable ==
  ASSUME "machine" \notin Lagging, "node" \notin Lagging
  PROVE  Spec => []ReadyIsSchedulable
  <1>1. Init => MarkedInv /\ ReadyIsSchedulable
    BY DEF Init, ClusterInit, MarkedInv, ReadyIsSchedulable
  <1>2. Inv /\ MarkedInv /\ ReadyIsSchedulable /\ [Next]_vars =>
          MarkedInv' /\ ReadyIsSchedulable'
    BY NextKeepsService
  <1> QED BY <1>1, <1>2, InvHolds, PTL DEF Spec

=============================================================================
