-------------------------- MODULE PowerCycleProofs --------------------------
(***************************************************************************)
(* Proofs about PowerCycle for every value of its constants: any number of *)
(* pods and pools, any budgets, any lag of any cache, with and without     *)
(* faults.                                                                 *)
(***************************************************************************)
EXTENDS PowerCycle, TLAPS

\* A well-formed, anchored copy of the Machine, and a handler that holds one.
Good(m, t) == m \in MachineRecord /\ Anchored(m, t)

GoodHandle(h) == Good(h.copy, now) /\ Good(h.server, now) /\ h.current \in BOOLEAN

\* Every episode a command ran for is past, and older than a running kernel.
EpisodesInPast ==
  \A e \in poweredFor : e \in 0 .. now /\ (host = "on" => bootTime > e)

Inv == TypeOK /\ AnchoredStates /\ EpisodesInPast

-----------------------------------------------------------------------------
(* Handles.                                                                *)

\* What a Patch answers, decoded over an anchored copy, is anchored.
LEMMA DecodedIsGood ==
  ASSUME NEW o, NEW m, NEW t \in Nat, Good(o, t), Good(m, t)
  PROVE  /\ Good(Decoded(o, m), t)
         /\ m.drainStart # None => Decoded(o, m).drainStart # None
  <1>1. /\ o.state \in States /\ o.wakeNow \in BOOLEAN /\ o.drainNow \in BOOLEAN
        /\ o.bootStart \in Time /\ o.drainStart \in Time
        /\ o.shutdownStart \in Time /\ o.notReadySince \in Time
    BY DEF Good, MachineRecord
  <1>2. /\ m.wakeNow \in BOOLEAN /\ m.drainNow \in BOOLEAN
        /\ m.bootStart \in Time /\ m.drainStart \in Time
        /\ m.shutdownStart \in Time /\ m.notReadySince \in Time
    BY DEF Good, MachineRecord
  <1>3. Decoded(o, m) \in MachineRecord
    BY <1>1, <1>2 DEF Decoded, Kept, MachineRecord
  <1>4. Anchored(Decoded(o, m), t)
    BY <1>1, <1>2 DEF Good, Anchored, Decoded, Kept
  <1>5. m.drainStart # None => Decoded(o, m).drainStart # None
    BY DEF Decoded, Kept
  <1> QED BY <1>3, <1>4, <1>5 DEF Good

\* Setting or clearing a trigger, or the node-loss anchor, leaves a copy good.
LEMMA TriggerKeepsGood ==
  ASSUME NEW m, NEW t \in Nat, Good(m, t), NEW b \in BOOLEAN, NEW c \in Time
  PROVE  /\ Good([m EXCEPT !.drainNow = b], t)
         /\ Good([m EXCEPT !.wakeNow = b], t)
         /\ Good([m EXCEPT !.notReadySince = c], t)
  BY DEF Good, Anchored, MachineRecord

\* The invariant makes the cached reads and the handles good.
LEMMA CachedIsGood ==
  ASSUME TypeOK, AnchoredStates
  PROVE  /\ Good(machine, now) /\ Good(machineCache, now) /\ Good(agentCache, now)
         /\ Good(CachedMachine, now) /\ Good(AgentMachine, now)
         /\ now \in Nat
  BY DEF TypeOK, ClusterTypeOK, AgentTypeOK, AnchoredStates, Good, CachedMachine, AgentMachine

\* So are the copies a handler holds after its patches.
LEMMA HandlesAreGood ==
  ASSUME TypeOK, AnchoredStates
  PROVE  /\ GoodHandle(Unpatched)
         /\ GoodHandle(removeDrainAnnotation)
         /\ GoodHandle(removeWakeAnnotation)
         /\ CachedMachine.state = "Draining" => removeDrainAnnotation.copy.drainStart # None
  <1> USE CachedIsGood
  <1> DEFINE noDrain(m) == [m EXCEPT !.drainNow = FALSE]
             noWake(m) == [m EXCEPT !.wakeNow = FALSE]
  <1>1. GoodHandle(Unpatched)
    BY DEF Unpatched, GoodHandle
  <1>2. /\ Good(noDrain(machine), now) /\ Good(noDrain(CachedMachine), now)
        /\ Good(noWake(machine), now) /\ Good(noWake(CachedMachine), now)
    BY TriggerKeepsGood DEF Time
  <1>3. /\ GoodHandle(Patched(noDrain(machine), noDrain(CachedMachine)))
        /\ GoodHandle(Patched(noWake(machine), noWake(CachedMachine)))
    BY <1>2, DecodedIsGood DEF Patched, GoodHandle
  <1>4. CachedMachine.state = "Draining" => noDrain(CachedMachine).drainStart # None
    BY DEF Good, Anchored, MachineRecord
  <1>5. CachedMachine.state = "Draining" =>
          Patched(noDrain(machine), noDrain(CachedMachine)).copy.drainStart # None
    BY <1>2, <1>4, DecodedIsGood DEF Patched
  <1>6. CachedMachine.state = "Draining" => Unpatched.copy.drainStart # None
    BY DEF Unpatched, Good, Anchored
  <1> QED
    BY <1>1, <1>3, <1>5, <1>6 DEF removeDrainAnnotation, removeWakeAnnotation
-----------------------------------------------------------------------------
(* Writes.                                                                 *)

\* A status update from a good handle to a good status leaves a good Machine.
LEMMA UpdateKeepsGood ==
  ASSUME NEW h, NEW new, NEW ok \in BOOLEAN,
         now \in Nat, GoodHandle(h), Good(new, now),
         \/ StatusUpdate(h, new, ok)
         \/ StatusUpdateAndDropWake(h, new, ok)
         \/ StatusUpdateAndDropDrain(h, new, ok)
  PROVE  Good(machine', now)
  <1>1. h.server.wakeNow \in BOOLEAN /\ h.server.drainNow \in BOOLEAN
    BY DEF GoodHandle, Good, MachineRecord
  <1>2. Good(Written(h, new), now)
    BY <1>1 DEF Written, Good, Anchored, MachineRecord
  <1>3. /\ Good([Written(h, new) EXCEPT !.wakeNow = FALSE], now)
        /\ Good([Written(h, new) EXCEPT !.drainNow = FALSE], now)
    BY <1>2, TriggerKeepsGood DEF Time
  <1>4. Good(h.server, now)
    BY DEF GoodHandle
  <1> QED
    BY <1>2, <1>3, <1>4 DEF StatusUpdate, StatusUpdateAndDropWake, StatusUpdateAndDropDrain

\* The statuses the handlers write are good.
LEMMA StatusesAreGood ==
  ASSUME NEW m, now \in Nat, Good(m, now)
  PROVE  /\ Good([m EXCEPT !.state = "Off"], now)
         /\ Good([m EXCEPT !.state = "Failed"], now)
         /\ Good([m EXCEPT !.state = "Booting", !.bootStart = now], now)
         /\ Good([m EXCEPT !.state = "Ready", !.bootStart = None], now)
         /\ Good([m EXCEPT !.state = "Ready", !.drainStart = None], now)
         /\ Good([m EXCEPT !.state = "Draining", !.drainStart = now], now)
         /\ Good([m EXCEPT !.state = "Off", !.notReadySince = None], now)
         /\ Good([m EXCEPT !.state = "Off", !.shutdownStart = None], now)
         /\ Good([m EXCEPT !.state = "Failed", !.shutdownStart = None], now)
         /\ m.drainStart # None =>
              Good([m EXCEPT !.state = "ShuttingDown", !.shutdownStart = now], now)
  <1>0. now # None /\ now \in Time /\ None \in Time /\ now <= now
    BY NoneAssumption DEF Time
  <1>1. Good([m EXCEPT !.state = "Off"], now)
    BY <1>0 DEF Good, Anchored, MachineRecord, States
  <1>2. Good([m EXCEPT !.state = "Failed"], now)
    BY <1>0 DEF Good, Anchored, MachineRecord, States
  <1>3. Good([m EXCEPT !.state = "Booting", !.bootStart = now], now)
    BY <1>0 DEF Good, Anchored, MachineRecord, States
  <1>4. Good([m EXCEPT !.state = "Ready", !.bootStart = None], now)
    BY <1>0 DEF Good, Anchored, MachineRecord, States
  <1>5. Good([m EXCEPT !.state = "Ready", !.drainStart = None], now)
    BY <1>0 DEF Good, Anchored, MachineRecord, States
  <1>6. Good([m EXCEPT !.state = "Draining", !.drainStart = now], now)
    BY <1>0 DEF Good, Anchored, MachineRecord, States
  <1>7. Good([m EXCEPT !.state = "Off", !.notReadySince = None], now)
    BY <1>0 DEF Good, Anchored, MachineRecord, States
  <1>8. Good([m EXCEPT !.state = "Off", !.shutdownStart = None], now)
    BY <1>0 DEF Good, Anchored, MachineRecord, States
  <1>9. Good([m EXCEPT !.state = "Failed", !.shutdownStart = None], now)
    BY <1>0 DEF Good, Anchored, MachineRecord, States
  <1>10. m.drainStart # None =>
           Good([m EXCEPT !.state = "ShuttingDown", !.shutdownStart = now], now)
    BY <1>0 DEF Good, Anchored, MachineRecord, States
  <1> QED BY <1>1, <1>2, <1>3, <1>4, <1>5, <1>6, <1>7, <1>8, <1>9, <1>10
-----------------------------------------------------------------------------
(* The controller.                                                         *)

\* What a step of the controller leaves behind.
GoodStep ==
  /\ Good(machine', now)
  /\ node' \in NodeRecord
  /\ pods' \in [Pods -> PodPhases]
  /\ BoardStarts \/ UNCHANGED hostVars

\* The Node each cordon write leaves has its type.
LEMMA NodeWritesAreTyped ==
  ASSUME TypeOK
  PROVE  /\ node \in NodeRecord /\ pods \in [Pods -> PodPhases]
         /\ setCordon \in NodeRecord
         /\ uncordoned \in NodeRecord
         /\ dropStaleCordonMarker \in NodeRecord
  <1>1. node \in NodeRecord /\ CachedNode \in NodeRecord /\ pods \in [Pods -> PodPhases]
    BY DEF TypeOK, ClusterTypeOK, CachedNode
  <1>2. CachedNode.unschedulable \in BOOLEAN /\ CachedNode.cordonedByONP \in BOOLEAN
    BY <1>1 DEF NodeRecord
  <1>3. setCordon \in NodeRecord
    BY <1>1, <1>2 DEF setCordon, NodeRecord
  <1>4. uncordoned \in NodeRecord
    BY <1>1, <1>2 DEF uncordoned, NodeRecord
  <1>5. dropStaleCordonMarker \in NodeRecord
    BY <1>1 DEF dropStaleCordonMarker, NodeRecord
  <1> QED BY <1>1, <1>3, <1>4, <1>5

\* failBoot leaves a good Machine.
LEMMA FailBootIsGood ==
  ASSUME now \in Nat, NEW h, NEW ok \in BOOLEAN, GoodHandle(h), failBoot(h, ok)
  PROVE  Good(machine', now)
  <1> DEFINE new == [h.copy EXCEPT !.state = "Failed"]
  <1>1. Good(new, now)
    BY StatusesAreGood DEF GoodHandle
  <1>2. StatusUpdateAndDropWake(h, new, ok)
    BY DEF failBoot
  <1> HIDE DEF new
  <1> QED BY <1>1, <1>2, UpdateKeepsGood

\* So does promoteToReady, whichever way it ends.
LEMMA PromotionIsGood ==
  ASSUME TypeOK, NEW h, NEW ok \in BOOLEAN, GoodHandle(h), promoteToReady(h, ok),
         pods' = pods
  PROVE  GoodStep
  <1>1. now \in Nat /\ Good(h.copy, now) /\ Good(h.server, now)
    BY DEF TypeOK, ClusterTypeOK, GoodHandle
  <1> DEFINE new == [h.copy EXCEPT !.state = "Ready", !.bootStart = None]
  <1>2. Good(new, now)
    BY <1>1, StatusesAreGood
  <1>3. applyNodeTemplate(h, ok) =>
          \/ StatusUpdateAndDropWake(h, new, ok)
          \/ failBoot(h, ok)
          \/ machine' = h.server
    BY DEF applyNodeTemplate
  <1> HIDE DEF new
  <1>4. applyNodeTemplate(h, ok) => Good(machine', now)
    BY <1>1, <1>2, <1>3, FailBootIsGood, UpdateKeepsGood
  <1> QED
    BY <1>1, <1>4, NodeWritesAreTyped
    DEF promoteToReady, uncordonIfONPCordoned, GoodStep

\* So does reconcileOff: the boot it starts is anchored.
LEMMA OffIsGood ==
  ASSUME TypeOK, AnchoredStates, NEW ok \in BOOLEAN, reconcileOff(ok)
  PROVE  GoodStep
  <1> DEFINE h == removeDrainAnnotation
  <1>1. GoodHandle(h)
    BY HandlesAreGood
  <1> HIDE DEF h
  <1>2. now \in Nat /\ Good(h.copy, now) /\ Good(h.server, now)
    BY <1>1 DEF TypeOK, ClusterTypeOK, GoodHandle
  <1>3. pods' = pods
    BY DEF reconcileOff
  <1>4. CASE promoteToReady(h, ok)
    BY <1>1, <1>3, <1>4, PromotionIsGood
  <1>5. CASE wake(h, ok)
    <2> DEFINE new == [h.copy EXCEPT !.state = "Booting", !.bootStart = now]
    <2>1. Good(new, now)
      BY <1>2, StatusesAreGood
    <2>2. StatusUpdate(h, new, ok) \/ StatusUpdate(h, h.copy, ok)
      BY <1>5 DEF wake
    <2> HIDE DEF new
    <2>3. Good(machine', now)
      BY <1>1, <1>2, <2>1, <2>2, UpdateKeepsGood
    <2> QED
      BY <1>3, <1>5, <2>3, NodeWritesAreTyped DEF wake, PowerOn, GoodStep
  <1>6. CASE machine' = h.server /\ UNCHANGED <<node, hostVars>>
    BY <1>2, <1>3, <1>6, NodeWritesAreTyped DEF GoodStep
  <1> QED BY <1>4, <1>5, <1>6 DEF reconcileOff, h

\* So does reconcileBooting.
LEMMA BootingIsGood ==
  ASSUME TypeOK, AnchoredStates, NEW ok \in BOOLEAN, reconcileBooting(ok)
  PROVE  GoodStep
  <1> DEFINE h == removeDrainAnnotation
  <1>1. GoodHandle(h)
    BY HandlesAreGood
  <1> HIDE DEF h
  <1>2. now \in Nat /\ Good(h.copy, now) /\ Good(h.server, now)
    BY <1>1 DEF TypeOK, ClusterTypeOK, GoodHandle
  <1>3. pods' = pods
    BY DEF reconcileBooting
  <1>4. CASE promoteToReady(h, ok)
    BY <1>1, <1>3, <1>4, PromotionIsGood
  <1>5. CASE failBoot(h, ok) /\ UNCHANGED <<node, hostVars>>
    <2>1. Good(machine', now)
      BY <1>1, <1>2, <1>5, FailBootIsGood
    <2> QED
      BY <1>3, <1>5, <2>1, NodeWritesAreTyped DEF GoodStep
  <1>6. CASE machine' = h.server /\ resendPowerOn(h.copy, ok) /\ UNCHANGED node
    BY <1>2, <1>3, <1>6, NodeWritesAreTyped DEF GoodStep, resendPowerOn, PowerOn
  <1> QED BY <1>4, <1>5, <1>6 DEF reconcileBooting, h

\* So does reconcileReady: the drain it starts is anchored.
LEMMA ReadyIsGood ==
  ASSUME TypeOK, AnchoredStates, NEW ok \in BOOLEAN, reconcileReady(ok)
  PROVE  GoodStep
  <1> DEFINE h == removeWakeAnnotation
  <1>1. GoodHandle(h)
    BY HandlesAreGood
  <1> HIDE DEF h
  <1>2. now \in Nat /\ Good(h.copy, now) /\ Good(h.server, now)
    BY <1>1 DEF TypeOK, ClusterTypeOK, GoodHandle
  <1>3. pods' = pods /\ UNCHANGED hostVars
    BY DEF reconcileReady
  <1>4. now \in Time /\ None \in Time
    BY <1>2 DEF Time
  <1>5. CASE startDraining(h, ok)
    <2> DEFINE new == [h.copy EXCEPT !.state = "Draining", !.drainStart = now]
               dropped == [h.server EXCEPT !.drainNow = FALSE]
    <2>1. Good(new, now) /\ Good(dropped, now)
      BY <1>2, <1>4, StatusesAreGood, TriggerKeepsGood
    <2>2. StatusUpdateAndDropDrain(h, new, ok) \/ machine' = dropped \/ machine' = h.server
      BY <1>5 DEF startDraining, Patch
    <2> HIDE DEF new, dropped
    <2>3. Good(machine', now)
      BY <1>1, <1>2, <2>1, <2>2, UpdateKeepsGood
    <2> QED BY <1>3, <1>5, <2>3, NodeWritesAreTyped DEF startDraining, GoodStep
  <1>6. CASE reconcileReadyNodeLost(h, ok)
    <2> DEFINE new == [h.copy EXCEPT !.state = "Off", !.notReadySince = None]
               stamped == [h.server EXCEPT !.notReadySince = now]
    <2>1. Good(new, now) /\ Good(stamped, now)
      BY <1>2, <1>4, StatusesAreGood, TriggerKeepsGood
    <2>2. StatusUpdate(h, new, ok) \/ machine' = stamped \/ machine' = h.server
      BY <1>6 DEF reconcileReadyNodeLost, stampNotReadySince, Patch
    <2> HIDE DEF new, stamped
    <2>3. Good(machine', now)
      BY <1>1, <1>2, <2>1, <2>2, UpdateKeepsGood
    <2> QED BY <1>3, <1>6, <2>3, NodeWritesAreTyped DEF reconcileReadyNodeLost, GoodStep
  <1>7. CASE nodeInService(h, ok)
    <2>1. Good([h.server EXCEPT !.notReadySince = None], now)
      BY <1>2, <1>4, TriggerKeepsGood
    <2>2. Good(machine', now)
      BY <1>2, <1>7, <2>1 DEF nodeInService, clearNotReadySince, Patch
    <2> QED BY <1>3, <1>7, <2>2, NodeWritesAreTyped DEF nodeInService, GoodStep
  <1> QED BY <1>5, <1>6, <1>7 DEF reconcileReady, h

\* So does reconcileDraining: the shutdown it starts is anchored.
LEMMA DrainingIsGood ==
  ASSUME TypeOK, AnchoredStates, NEW ok \in BOOLEAN, reconcileDraining(ok)
  PROVE  GoodStep
  <1> DEFINE h == removeDrainAnnotation
  <1>1. GoodHandle(h) /\ h.copy.drainStart # None
    BY HandlesAreGood DEF reconcileDraining
  <1> HIDE DEF h
  <1>2. now \in Nat /\ Good(h.copy, now) /\ Good(h.server, now)
    BY <1>1 DEF TypeOK, ClusterTypeOK, GoodHandle
  <1>3. UNCHANGED hostVars
    BY DEF reconcileDraining
  <1>4. CASE abortDrain(h, ok) /\ UNCHANGED pods
    <2> DEFINE new == [h.copy EXCEPT !.state = "Ready", !.drainStart = None]
    <2>1. Good(new, now)
      BY <1>2, StatusesAreGood
    <2>2. /\ StatusUpdate(h, new, ok) \/ machine' = h.server
          /\ node' = node \/ node' = uncordoned
      BY <1>4 DEF abortDrain, uncordonIfONPCordoned
    <2> HIDE DEF new
    <2>3. Good(machine', now)
      BY <1>1, <1>2, <2>1, <2>2, UpdateKeepsGood
    <2> QED BY <1>3, <1>4, <2>2, <2>3, NodeWritesAreTyped DEF GoodStep
  <1>5. CASE failDrain(h, ok) /\ UNCHANGED pods
    <2> DEFINE new == [h.copy EXCEPT !.state = "Failed"]
    <2>1. Good(new, now)
      BY <1>2, StatusesAreGood
    <2>2. /\ StatusUpdate(h, new, ok) \/ machine' = h.server
          /\ node' = node \/ node' = uncordoned
      BY <1>5 DEF failDrain, uncordonIfONPCordoned
    <2> HIDE DEF new
    <2>3. Good(machine', now)
      BY <1>1, <1>2, <2>1, <2>2, UpdateKeepsGood
    <2> QED BY <1>3, <1>5, <2>2, <2>3, NodeWritesAreTyped DEF GoodStep
  <1>6. CASE drainPass(h, ok)
    <2> DEFINE new == [h.copy EXCEPT !.state = "ShuttingDown", !.shutdownStart = now]
    <2>1. Good(new, now)
      BY <1>1, <1>2, StatusesAreGood
    <2>2. /\ StatusUpdate(h, new, ok) \/ machine' = h.server
          /\ node' = node \/ node' = setCordon
          /\ pods' = pods \/ evictPods
      BY <1>6 DEF drainPass, powerOffDrained
    <2> HIDE DEF new
    <2>3. Good(machine', now)
      BY <1>1, <1>2, <2>1, <2>2, UpdateKeepsGood
    <2>4. evictPods => pods' \in [Pods -> PodPhases]
      BY NodeWritesAreTyped DEF evictPods, PodPhases
    <2> QED BY <1>3, <2>2, <2>3, <2>4, NodeWritesAreTyped DEF GoodStep
  <1> QED BY <1>4, <1>5, <1>6 DEF reconcileDraining, h

\* So does reconcileShuttingDown.
LEMMA ShuttingDownIsGood ==
  ASSUME TypeOK, AnchoredStates, NEW ok \in BOOLEAN, reconcileShuttingDown(ok)
  PROVE  GoodStep
  <1> DEFINE new(state) == [CachedMachine EXCEPT !.state = state, !.shutdownStart = None]
  <1>1. Good(CachedMachine, now) /\ Good(machine, now) /\ now \in Nat
    BY CachedIsGood
  <1>2. Good(new("Off"), now) /\ Good(new("Failed"), now)
    BY <1>1, StatusesAreGood
  <1>3. /\ \/ StatusUpdate(Unpatched, new("Off"), ok)
           \/ StatusUpdate(Unpatched, new("Failed"), ok)
           \/ machine' = machine
        /\ UNCHANGED <<node, pods, hostVars>>
    BY DEF reconcileShuttingDown
  <1> HIDE DEF new
  <1>4. Good(machine', now)
    BY <1>1, <1>2, <1>3, HandlesAreGood, UpdateKeepsGood
  <1> QED BY <1>3, <1>4, NodeWritesAreTyped DEF GoodStep

\* So does a pass of the MachineReconciler, whatever state it dispatches on.
LEMMA ReconcileIsGood ==
  ASSUME TypeOK, AnchoredStates, NEW ok \in BOOLEAN, Reconcile(ok)
  PROVE  GoodStep
  <1>1. CASE initialize(ok)
    <2> DEFINE new == [CachedMachine EXCEPT !.state = "Off"]
    <2>1. Good(new, now) /\ now \in Nat
      BY CachedIsGood, StatusesAreGood
    <2>2. StatusUpdate(Unpatched, new, ok) /\ UNCHANGED <<node, pods, hostVars>>
      BY <1>1 DEF initialize
    <2> HIDE DEF new
    <2>3. Good(machine', now)
      BY <2>1, <2>2, HandlesAreGood, UpdateKeepsGood
    <2> QED BY <2>2, <2>3, NodeWritesAreTyped DEF GoodStep
  <1> QED
    BY <1>1, OffIsGood, BootingIsGood, ReadyIsGood, DrainingIsGood, ShuttingDownIsGood
    DEF Reconcile
-----------------------------------------------------------------------------
(* The environment.                                                        *)

\* A good Machine stays good as the clock moves on.
LEMMA GoodLater ==
  ASSUME NEW m, NEW t \in Nat, NEW u \in Nat, t <= u, Good(m, t)
  PROVE  Good(m, u)
  <1>1. /\ m.bootStart \in Time /\ m.drainStart \in Time /\ m.shutdownStart \in Time
    BY DEF Good, MachineRecord
  <1> QED BY <1>1 DEF Good, Anchored, Time

\* A Machine just created is good.
LEMMA NewMachineIsGood ==
  ASSUME NEW t \in Nat
  PROVE  Good(NewMachine, t)
  BY DEF Good, Anchored, NewMachine, MachineRecord, States, Time

\* What any step but the agent's leaves of the cluster.
GoodCluster ==
  /\ ClusterTypeOK'
  /\ Anchored(machine', now') /\ Anchored(machineCache', now')
  /\ now <= now'
  /\ \/ UNCHANGED hostVars \/ host' # "on"
     \/ bootTime' = now + 1

\* The history variables keep their type.
LEMMA HistoryIsTyped ==
  ASSUME TypeOK, NodeHistory
  PROVE  cordonedAt' \in Time /\ cordonedBy' \in Cordoners
  <1>1. cordonedAt' \in {now, cordonedAt} /\ now \in Time /\ cordonedAt \in Time
    BY DEF NodeHistory, TypeOK, ClusterTypeOK, Time
  <1>2. cordonedBy' \in Cordoners
    BY DEF NodeHistory, TypeOK, ClusterTypeOK, Cordoners
  <1> QED BY <1>1, <1>2

\* What operators and the pool-level reconcilers do leaves a good cluster.
LEMMA OperatorIsGood ==
  ASSUME TypeOK, AnchoredStates, Operator
  PROVE  GoodCluster
  <1>1. /\ Good(machine, now) /\ Good(machineCache, now) /\ now \in Nat
        /\ machine \in MachineRecord /\ node \in NodeRecord
    BY CachedIsGood DEF TypeOK, ClusterTypeOK
  <1>2. /\ UNCHANGED <<now, pods, caches>>
        /\ ops' \in Nat
    BY DEF Operator, RequestWake, RequestDrain, ScaleDown, ResetFailed, OperatorCordon,
           OperatorUncordon, ToggleAlwaysOn, DeleteNode, ToggleDuplicate, PressPower,
           Does, TypeOK, ClusterTypeOK
  <1>3. Good(machine', now)
    <2>1. /\ Good([machine EXCEPT !.wakeNow = TRUE], now)
          /\ Good([machine EXCEPT !.drainNow = TRUE], now)
      BY <1>1, TriggerKeepsGood DEF Time
    <2>2. Good([machine EXCEPT !.state = "Off"], now)
      BY <1>1, StatusesAreGood
    <2> QED
      BY <1>1, <2>1, <2>2
      DEF Operator, RequestWake, RequestDrain, ScaleDown, ResetFailed, OperatorCordon,
          OperatorUncordon, ToggleAlwaysOn, DeleteNode, ToggleDuplicate, PressPower
  <1>4. node' \in NodeRecord
    <2>1. /\ [node EXCEPT !.unschedulable = TRUE] \in NodeRecord
          /\ [node EXCEPT !.unschedulable = FALSE] \in NodeRecord
          /\ [node EXCEPT !.alwaysOn = ~node.alwaysOn] \in NodeRecord
          /\ NoNode \in NodeRecord
      BY <1>1 DEF NodeRecord, NoNode, Time
    <2> QED
      BY <1>1, <2>1
      DEF Operator, RequestWake, RequestDrain, ScaleDown, ResetFailed, OperatorCordon,
          OperatorUncordon, ToggleAlwaysOn, DeleteNode, ToggleDuplicate, PressPower
  <1>5. cordonedAt' \in Time /\ cordonedBy' \in Cordoners
    <2>1. cordonedAt \in Time /\ cordonedBy \in Cordoners /\ now \in Time
      BY DEF TypeOK, ClusterTypeOK, Time
    <2> QED
      BY <2>1, HistoryIsTyped
      DEF Operator, RequestWake, RequestDrain, ScaleDown, ResetFailed, OperatorCordon,
          OperatorUncordon, ToggleAlwaysOn, DeleteNode, ToggleDuplicate, PressPower,
          nodeHistory, Cordoners
  <1>6. duplicate' \in BOOLEAN
    BY DEF Operator, RequestWake, RequestDrain, ScaleDown, ResetFailed, OperatorCordon,
           OperatorUncordon, ToggleAlwaysOn, DeleteNode, ToggleDuplicate, PressPower,
           TypeOK, ClusterTypeOK
  <1>7. UNCHANGED hostVars \/ BoardIsOff \/ BoardStarts
    BY DEF Operator, RequestWake, RequestDrain, ScaleDown, ResetFailed, OperatorCordon,
           OperatorUncordon, ToggleAlwaysOn, DeleteNode, ToggleDuplicate, PressPower
  <1>8. /\ host' \in {"off", "on", "halting"} /\ bootTime' \in Nat
        /\ UNCHANGED hostVars \/ host' # "on" \/ bootTime' = now + 1
    BY <1>1, <1>7 DEF BoardIsOff, BoardStarts, hostVars, TypeOK, ClusterTypeOK
  <1>9. ClusterTypeOK'
    BY <1>2, <1>3, <1>4, <1>5, <1>6, <1>8
    DEF ClusterTypeOK, TypeOK, caches, Good
  <1> QED
    BY <1>1, <1>2, <1>3, <1>8, <1>9 DEF GoodCluster, Good, caches

\* So does what the host, the kubelet, the scheduler, the caches and the clock do.
LEMMA EnvironmentIsGood ==
  ASSUME TypeOK, AnchoredStates, Environment
  PROVE  GoodCluster
  <1>1. /\ Good(machine, now) /\ Good(machineCache, now) /\ now \in Nat
        /\ node \in NodeRecord /\ pods \in [Pods -> PodPhases]
        /\ ClusterTypeOK
    BY CachedIsGood DEF TypeOK, ClusterTypeOK
  <1>2. CASE Operator
    BY <1>2, OperatorIsGood
  <1>3. CASE HostHalts
    BY <1>1, <1>3
    DEF HostHalts, BoardIsOff, GoodCluster, ClusterTypeOK, objects, caches, nodeHistory,
        Good
  <1>4. CASE NodeRegisters \/ NodeBecomesReady \/ NodeBecomesNotReady
    <2>1. node' \in NodeRecord
      BY <1>1, <1>4
      DEF NodeRegisters, NodeBecomesReady, NodeBecomesNotReady, NodeRecord, NoNode, Time
    <2>2. UNCHANGED <<now, machine, pods, duplicate, caches, hostVars, nodeHistory, ops>>
      BY <1>4 DEF NodeRegisters, NodeBecomesReady, NodeBecomesNotReady
    <2> QED
      BY <1>1, <2>1, <2>2
      DEF GoodCluster, ClusterTypeOK, caches, nodeHistory, hostVars, Good
  <1>5. CASE PodSteps
    <2>1. pods' \in [Pods -> PodPhases]
      BY <1>1, <1>5
      DEF PodSteps, PodBinds, PodFinishes, PodIsDeleted, PodIsRemoved, PodStep, PodPhases
    <2>2. UNCHANGED <<now, machine, node, duplicate, caches, hostVars, nodeHistory, ops>>
      BY <1>5 DEF PodSteps, PodBinds, PodFinishes, PodIsDeleted, PodIsRemoved, PodStep
    <2> QED
      BY <1>1, <2>1, <2>2
      DEF GoodCluster, ClusterTypeOK, caches, nodeHistory, hostVars, Good
  <1>6. CASE SyncMachine \/ SyncNode \/ SyncPods
    BY <1>1, <1>6
    DEF SyncMachine, SyncNode, SyncPods, GoodCluster, ClusterTypeOK, objects, nodeHistory,
        hostVars, Good
  <1>7. CASE Tick
    <2>1. now' = now + 1 /\ UNCHANGED <<objects, caches, hostVars, nodeHistory, ops>>
      BY <1>7 DEF Tick
    <2>2. Good(machine, now') /\ Good(machineCache, now')
      BY <1>1, <2>1, GoodLater
    <2> QED
      BY <1>1, <2>1, <2>2
      DEF GoodCluster, ClusterTypeOK, objects, caches, nodeHistory, hostVars, Good
  <1> QED BY <1>2, <1>3, <1>4, <1>5, <1>6, <1>7 DEF Environment
-----------------------------------------------------------------------------
(* The invariant.                                                          *)

\* A step of the controller leaves a good cluster.
LEMMA ControllerIsGood ==
  ASSUME TypeOK, AnchoredStates, NEW ok \in BOOLEAN, Reconcile(ok)
  PROVE  GoodCluster
  <1>1. GoodStep
    BY ReconcileIsGood
  <1>2. UNCHANGED <<now, duplicate, caches, ops>> /\ NodeHistory
    BY DEF Reconcile
  <1>3. cordonedAt' \in Time /\ cordonedBy' \in Cordoners
    BY <1>2, HistoryIsTyped
  <1>4. /\ host' \in {"off", "on", "halting"} /\ bootTime' \in Nat
        /\ UNCHANGED hostVars \/ host' # "on" \/ bootTime' = now + 1
    BY <1>1 DEF GoodStep, BoardStarts, hostVars, TypeOK, ClusterTypeOK
  <1>5. ClusterTypeOK'
    BY <1>1, <1>2, <1>3, <1>4 DEF GoodStep, Good, ClusterTypeOK, TypeOK, caches
  <1>6. Anchored(machine', now') /\ Anchored(machineCache', now') /\ now <= now'
    BY <1>1, <1>2 DEF GoodStep, Good, AnchoredStates, caches, TypeOK, ClusterTypeOK
  <1> QED BY <1>4, <1>5, <1>6 DEF GoodCluster

\* A good step of the cluster, with the agent's process following the host.
LEMMA ClusterStepKeepsInv ==
  ASSUME Inv, GoodCluster, AgentFollowsHost
  PROVE  Inv'
  <1>1. now \in Nat /\ now' \in Nat /\ now <= now' /\ Good(agentCache, now)
    BY CachedIsGood DEF Inv, GoodCluster, ClusterTypeOK
  <1>2. Good(agentCache, now') /\ Good(NewMachine, now')
    BY <1>1, GoodLater, NewMachineIsGood
  <1>3. AgentTypeOK' /\ Anchored(agentCache', now') /\ poweredFor' = poweredFor
    BY <1>2
    DEF AgentFollowsHost, ProcessIsGone, AgentTypeOK, agentVars, Inv, TypeOK, Good, Time
  <1>4. EpisodesInPast'
    <2> SUFFICES ASSUME NEW e \in poweredFor
                 PROVE  e \in 0 .. now' /\ (host' = "on" => bootTime' > e)
      BY <1>3 DEF EpisodesInPast
    <2>1. e \in 0 .. now /\ (host = "on" => bootTime > e)
      BY DEF Inv, EpisodesInPast
    <2> QED BY <1>1, <2>1 DEF GoodCluster, hostVars
  <1> QED BY <1>3, <1>4 DEF Inv, GoodCluster, TypeOK, AnchoredStates

\* A step of the shutdown agent keeps the invariant.
LEMMA AgentKeepsInv ==
  ASSUME Inv, NEW ok \in BOOLEAN, AgentReconcile(ok)
  PROVE  Inv'
  <1>1. /\ Good(AgentMachine, now) /\ AgentMachine.state = "ShuttingDown"
        /\ now \in Nat /\ bootTime \in Nat
    BY CachedIsGood DEF Inv, AgentReconcile, TypeOK, ClusterTypeOK
  <1>2. shutdownEpisode \in 0 .. now /\ shutdownEpisode \in Time
    BY <1>1 DEF shutdownEpisode, Good, Anchored, MachineRecord, Time
  <1>3. UNCHANGED <<agentCache, now, objects, caches, nodeHistory, ops>>
    BY DEF AgentReconcile
  <1>4. /\ \/ UNCHANGED <<hostVars, poweredFor>>
           \/ /\ host' = "halting" /\ bootTime' = bootTime
              /\ poweredFor' = poweredFor \cup {shutdownEpisode}
        /\ \/ issued' = TRUE /\ issuedFor' = shutdownEpisode
           \/ UNCHANGED <<issued, issuedFor>>
    BY DEF AgentReconcile, agentSkips, agentPowersOff, PowerOff, recordEpisode
  <1>5. AgentTypeOK'
    BY <1>2, <1>3, <1>4 DEF AgentTypeOK, Inv, TypeOK
  <1>6. ClusterTypeOK'
    BY <1>3, <1>4 DEF ClusterTypeOK, Inv, TypeOK, objects, caches, nodeHistory, hostVars
  <1>7. AnchoredStates'
    BY <1>3 DEF AnchoredStates, Inv, objects, caches
  <1>8. EpisodesInPast'
    BY <1>2, <1>3, <1>4 DEF EpisodesInPast, Inv, hostVars
  <1> QED BY <1>5, <1>6, <1>7, <1>8 DEF Inv, TypeOK

\* Every step of the power cycle keeps the invariant.
LEMMA NextKeepsInv == Inv /\ [Next]_vars => Inv'
  <1> SUFFICES ASSUME Inv, [Next]_vars PROVE Inv'
    OBVIOUS
  <1> USE FaultsAssumption
  <1>1. CASE Controller(~Faults)
    BY <1>1, ControllerIsGood, ClusterStepKeepsInv DEF Controller, Inv
  <1>2. CASE Agent(~Faults)
    BY <1>2, AgentKeepsInv DEF Agent
  <1>3. CASE Environment /\ AgentFollowsHost
    BY <1>3, EnvironmentIsGood, ClusterStepKeepsInv DEF Inv
  <1>4. CASE SyncAgent
    <2>1. agentCache' = machine /\ UNCHANGED <<issued, issuedFor, poweredFor, clusterVars>>
      BY <1>4 DEF SyncAgent
    <2> QED
      BY <2>1
      DEF Inv, TypeOK, ClusterTypeOK, AgentTypeOK, AnchoredStates, EpisodesInPast,
          clusterVars, objects, caches, hostVars, nodeHistory
  <1>5. CASE AgentRestart
    <2>1. ProcessIsGone /\ UNCHANGED clusterVars
      BY <1>5 DEF AgentRestart
    <2>2. Good(NewMachine, now)
      BY NewMachineIsGood DEF Inv, TypeOK, ClusterTypeOK
    <2> QED
      BY <2>1, <2>2
      DEF Inv, TypeOK, ClusterTypeOK, AgentTypeOK, AnchoredStates, EpisodesInPast, Good,
          ProcessIsGone, clusterVars, objects, caches, hostVars, nodeHistory, Time
  <1>6. CASE UNCHANGED vars
    BY <1>6
    DEF Inv, TypeOK, ClusterTypeOK, AgentTypeOK, AnchoredStates, EpisodesInPast, vars,
        clusterVars, agentVars, objects, caches, hostVars, nodeHistory
  <1> QED BY <1>1, <1>2, <1>3, <1>4, <1>5, <1>6 DEF Next

\* The invariant holds at the start.
LEMMA InitHasInv == Init => Inv
  <1> SUFFICES ASSUME Init PROVE Inv
    OBVIOUS
  <1>1. now = 0 /\ Good(NewMachine, 0)
    BY NewMachineIsGood DEF Init, ClusterInit
  <1>2. NoPods \in [Pods -> PodPhases]
    BY DEF NoPods, PodPhases
  <1>3. \A r \in BOOLEAN : [NoNode EXCEPT !.present = TRUE, !.ready = r, !.readyChanged = 0]
                             \in NodeRecord
    BY DEF NodeRecord, NoNode, Time
  <1>4. /\ [NoNode EXCEPT !.present = TRUE, !.readyChanged = 0] \in NodeRecord
        /\ NoNode \in NodeRecord
    BY DEF NodeRecord, NoNode, Time
  <1>5. node \in NodeRecord /\ host \in {"off", "on", "halting"}
    BY <1>3, <1>4 DEF Init, ClusterInit
  <1>6. ClusterTypeOK
    <2>1. duplicate \in BOOLEAN /\ cordonedBy \in Cordoners
      BY Zenon DEF Init, ClusterInit, Cordoners
    <2>2. machine \in MachineRecord /\ machineCache \in MachineRecord
      BY <1>1 DEF Init, ClusterInit, Good
    <2>3. now \in Nat /\ bootTime \in Nat /\ ops \in Nat /\ cordonedAt \in Time
      BY DEF Init, ClusterInit, Time
    <2>4. nodeCache \in NodeRecord /\ pods \in [Pods -> PodPhases]
          /\ podCache \in [Pods -> PodPhases]
      BY <1>2, <1>5 DEF Init, ClusterInit
    <2> QED BY <1>5, <2>1, <2>2, <2>3, <2>4 DEF ClusterTypeOK
  <1>7. AgentTypeOK /\ EpisodesInPast
    BY <1>1 DEF Init, AgentInit, AgentTypeOK, EpisodesInPast, Good, Time
  <1>8. AnchoredStates
    BY <1>1 DEF Init, ClusterInit, AgentInit, AnchoredStates, Good
  <1> QED BY <1>6, <1>7, <1>8 DEF Inv, TypeOK

\* The invariant holds always.
LEMMA InvHolds == Spec => []Inv
  BY InitHasInv, NextKeepsInv, PTL DEF Spec

-----------------------------------------------------------------------------

\* Every object and every copy of one keeps its type.
THEOREM TypeCorrect == Spec => []TypeOK
  BY InvHolds, PTL DEF Inv

\* A Machine that is Booting, Draining or ShuttingDown has its anchor, in the
\* object and in every cached copy, however stale those are: the nil checks of
\* the timeout functions never keep a budget from running out.
THEOREM AlwaysAnchored == Spec => []AnchoredStates
  BY InvHolds, PTL DEF Inv

\* Nothing but the agent takes a running host into its halt.
LEMMA OnlyAgentPowersOff ==
  ASSUME Inv, [Next]_vars, HostPowersOff
  PROVE  AgentReconcile(~Faults)
  <1> USE FaultsAssumption DEF HostPowersOff
  <1>1. ASSUME Controller(~Faults) PROVE FALSE
    BY <1>1, ReconcileIsGood DEF Controller, GoodStep, BoardStarts, hostVars, Inv
  <1>2. ASSUME Environment PROVE FALSE
    BY <1>2
    DEF Environment, Operator, RequestWake, RequestDrain, ScaleDown, ResetFailed,
        OperatorCordon, OperatorUncordon, ToggleAlwaysOn, DeleteNode, ToggleDuplicate,
        PressPower, BoardIsOff, BoardStarts, HostHalts, NodeRegisters, NodeBecomesReady,
        NodeBecomesNotReady, PodSteps, PodBinds, PodFinishes, PodIsDeleted, PodIsRemoved,
        PodStep, SyncMachine, SyncNode, SyncPods, Tick, hostVars
  <1> QED
    BY <1>1, <1>2
    DEF Next, Agent, SyncAgent, AgentRestart, vars, clusterVars, hostVars

\* Where the boot time can be read, no host goes down twice for one episode,
\* although the agent forgets what it did whenever it restarts.
THEOREM PowersOffOnce ==
  ASSUME BootTimeReadable PROVE Spec => OnePowerOffPerEpisode
  <1>1. Inv /\ [Next]_vars => [HostPowersOff => shutdownEpisode \notin poweredFor]_vars
    <2> SUFFICES ASSUME Inv, [Next]_vars, HostPowersOff
                 PROVE  shutdownEpisode \notin poweredFor
      OBVIOUS
    <2>1. AgentReconcile(~Faults)
      BY OnlyAgentPowersOff
    <2>2. ~bootedAfter(shutdownEpisode) /\ host = "on"
      BY <2>1
      DEF HostPowersOff, AgentReconcile, agentSkips, agentPowersOff, hostVars
    <2>3. now \in Nat /\ \A e \in poweredFor : e \in 0 .. now /\ bootTime > e
      BY <2>2 DEF Inv, EpisodesInPast, TypeOK, ClusterTypeOK
    <2> QED BY <2>2, <2>3, NoneAssumption DEF bootedAfter
  <1> QED BY <1>1, InvHolds, PTL DEF Spec, OnePowerOffPerEpisode

=============================================================================
