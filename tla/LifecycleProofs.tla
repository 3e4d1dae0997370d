-------------------------- MODULE LifecycleProofs --------------------------
(***************************************************************************)
(* The power cycle implements MachineLifecycle: as long as the controller  *)
(* reads the Machine it writes, every step of the system is a step of the  *)
(* documented state graph or leaves it where it is.  The Node, pod and     *)
(* agent caches may trail, writes may fail and processes may crash.  (With *)
(* a trailing Machine cache it does not: a handler picked for an old state *)
(* patches the Machine and then writes a status over the state it has now.)*)
(***************************************************************************)
EXTENDS PowerCycleProofs

-----------------------------------------------------------------------------
(* What a handler holds, and what its writes leave.                        *)

\* A handler that reads a current cache holds the Machine as it is on the
\* server, less the trigger its opening Patch strips.
LEMMA CurrentHandles ==
  ASSUME "machine" \notin Lagging, machine \in MachineRecord
  PROVE  /\ CachedMachine = machine
         /\ removeDrainAnnotation.current /\ removeWakeAnnotation.current
         /\ removeDrainAnnotation.server = [machine EXCEPT !.drainNow = FALSE]
         /\ removeDrainAnnotation.copy = removeDrainAnnotation.server
         /\ removeWakeAnnotation.server = [machine EXCEPT !.wakeNow = FALSE]
         /\ removeWakeAnnotation.copy = removeWakeAnnotation.server
         /\ Unpatched.copy = machine /\ Unpatched.server = machine /\ Unpatched.current
  <1>1. CachedMachine = machine
    BY DEF CachedMachine
  <1>2. ASSUME NEW o \in MachineRecord PROVE Decoded(o, o) = o
    <2>1. Decoded(o, o) = [state |-> o.state, wakeNow |-> o.wakeNow, drainNow |-> o.drainNow,
                           bootStart |-> o.bootStart, drainStart |-> o.drainStart,
                           shutdownStart |-> o.shutdownStart, notReadySince |-> o.notReadySince]
      BY DEF Decoded, Kept, MachineRecord
    <2> QED BY <2>1 DEF MachineRecord
  <1>3. /\ [machine EXCEPT !.drainNow = FALSE] \in MachineRecord
        /\ [machine EXCEPT !.wakeNow = FALSE] \in MachineRecord
        /\ machine.drainNow \in BOOLEAN /\ machine.wakeNow \in BOOLEAN
    BY DEF MachineRecord
  <1>4. /\ ~machine.drainNow => [machine EXCEPT !.drainNow = FALSE] = machine
        /\ ~machine.wakeNow => [machine EXCEPT !.wakeNow = FALSE] = machine
    BY DEF MachineRecord
  <1>5. Unpatched.copy = machine /\ Unpatched.server = machine /\ Unpatched.current
    BY <1>1 DEF Unpatched
  <1>6. \A o \in MachineRecord :
          Patched(o, o).copy = o /\ Patched(o, o).server = o /\ Patched(o, o).current
    BY <1>2 DEF Patched
  <1> QED BY <1>1, <1>3, <1>4, <1>5, <1>6 DEF removeDrainAnnotation, removeWakeAnnotation

\* The Machine after a write: its state, and what its triggers may be.
Lands(state, wakes, drains) ==
  machine'.state = state /\ machine'.wakeNow \in wakes /\ machine'.drainNow \in drains

\* A status update lands with the server's triggers, or not at all; the Patch
\* behind it may strip one more.
LEMMA UpdatesLand ==
  ASSUME NEW h, NEW new \in MachineRecord, NEW ok,
         h.server \in MachineRecord, machine' # h.server
  PROVE  /\ StatusUpdate(h, new, ok) =>
              Lands(new.state, {h.server.wakeNow}, {h.server.drainNow})
         /\ StatusUpdateAndDropWake(h, new, ok) =>
              Lands(new.state, {h.server.wakeNow, FALSE}, {h.server.drainNow})
         /\ StatusUpdateAndDropDrain(h, new, ok) =>
              Lands(new.state, {h.server.wakeNow}, {h.server.drainNow, FALSE})
  <1>1. StatusUpdate(h, new, ok) =>
          Lands(new.state, {h.server.wakeNow}, {h.server.drainNow})
    BY DEF StatusUpdate, Written, Lands, MachineRecord
  <1>2. StatusUpdateAndDropWake(h, new, ok) =>
          Lands(new.state, {h.server.wakeNow, FALSE}, {h.server.drainNow})
    BY <1>1 DEF StatusUpdateAndDropWake, Written, Lands, MachineRecord
  <1>3. StatusUpdateAndDropDrain(h, new, ok) =>
          Lands(new.state, {h.server.wakeNow}, {h.server.drainNow, FALSE})
    BY <1>1 DEF StatusUpdateAndDropDrain, Written, Lands, MachineRecord
  <1> QED BY <1>1, <1>2, <1>3

-----------------------------------------------------------------------------
(* One lemma per handler.                                                  *)

\* The Machine types a handler's lemma starts from.
LEMMA HandledMachine ==
  ASSUME TypeOK, "machine" \notin Lagging
  PROVE  /\ machine \in MachineRecord /\ machine.wakeNow \in BOOLEAN
         /\ machine.drainNow \in BOOLEAN
         /\ [machine EXCEPT !.drainNow = FALSE] \in MachineRecord
         /\ [machine EXCEPT !.wakeNow = FALSE] \in MachineRecord
         /\ now \in Time
  BY DEF TypeOK, ClusterTypeOK, MachineRecord, Time

\* failBoot moves to Failed and may strip the wake-now.
LEMMA FailBootLands ==
  ASSUME NEW h, NEW ok, h.server \in MachineRecord, h.copy \in MachineRecord,
         failBoot(h, ok), machine' # h.server
  PROVE  Lands("Failed", {h.server.wakeNow, FALSE}, {h.server.drainNow})
  <1> DEFINE new == [h.copy EXCEPT !.state = "Failed"]
  <1>1. new \in MachineRecord /\ new.state = "Failed"
    BY DEF MachineRecord, States
  <1>2. StatusUpdateAndDropWake(h, new, ok)
    BY DEF failBoot
  <1> HIDE DEF new
  <1> QED BY <1>1, <1>2, UpdatesLand

\* Promotion, template and all, ends in Ready, in Failed or where it began.
LEMMA PromotionLands ==
  ASSUME NEW h, NEW ok, h.server \in MachineRecord, h.copy \in MachineRecord,
         promoteToReady(h, ok), machine' # h.server
  PROVE  \E s \in {"Ready", "Failed"} :
           Lands(s, {h.server.wakeNow, FALSE}, {h.server.drainNow})
  <1> DEFINE new == [h.copy EXCEPT !.state = "Ready", !.bootStart = None]
  <1>1. new \in MachineRecord /\ new.state = "Ready"
    BY DEF MachineRecord, States, Time
  <1>2. StatusUpdateAndDropWake(h, new, ok) \/ failBoot(h, ok)
    BY DEF promoteToReady, uncordonIfONPCordoned, applyNodeTemplate
  <1> HIDE DEF new
  <1> QED BY <1>1, <1>2, UpdatesLand, FailBootLands

\* Leaving the Machine as the opening Patch left it drops a trigger at most.
LEMMA PatchDrops ==
  ASSUME TypeOK, "machine" \notin Lagging,
         \/ machine' = machine
         \/ machine' = [machine EXCEPT !.drainNow = FALSE]
         \/ machine' = [machine EXCEPT !.wakeNow = FALSE]
  PROVE  Lifecycle!DropTrigger
  BY HandledMachine DEF Lifecycle!DropTrigger, MachineRecord

\* reconcileOff drops a stale drain-now, wakes on wake-now, or adopts a Node
\* that is up already.
LEMMA OffFollows ==
  ASSUME TypeOK, "machine" \notin Lagging, NEW ok \in BOOLEAN, reconcileOff(ok)
  PROVE  Lifecycle!ControllerStep
  <1> DEFINE h == removeDrainAnnotation
             o == [machine EXCEPT !.drainNow = FALSE]
             new == [h.copy EXCEPT !.state = "Booting", !.bootStart = now]
  <1>1. h.current /\ h.server = o /\ h.copy = o /\ CachedMachine = machine
    BY HandledMachine, CurrentHandles
  <1>2. /\ o \in MachineRecord /\ o.state = machine.state
        /\ o.wakeNow = machine.wakeNow /\ o.drainNow = FALSE
    BY HandledMachine DEF MachineRecord
  <1>3. new \in MachineRecord /\ new.state = "Booting"
    BY <1>1, <1>2, HandledMachine DEF MachineRecord, States
  <1>4. machine.state = "Off"
    BY <1>1 DEF reconcileOff
  <1>5. CASE machine' = o
    BY <1>5, PatchDrops DEF Lifecycle!ControllerStep
  <1>6. CASE machine' # o /\ promoteToReady(h, ok)
    <2> HIDE DEF h, o
    <2>1. \E s \in {"Ready", "Failed"} : Lands(s, {machine.wakeNow, FALSE}, {FALSE})
      BY <1>1, <1>2, <1>6, PromotionLands
    <2> QED
      BY <1>4, <2>1
      DEF Lands, Lifecycle!ControllerStep, Lifecycle!Adopted, Lifecycle!BootFailed,
          Lifecycle!Goes
  <1>7. CASE machine' # o /\ h.copy.wakeNow /\ wake(h, ok)
    <2>1. StatusUpdate(h, new, ok) \/ StatusUpdate(h, h.copy, ok)
      BY <1>7 DEF wake
    <2>2. machine.wakeNow = TRUE
      BY <1>1, <1>2, <1>7, HandledMachine
    <2> HIDE DEF new, o, h
    <2>3. \/ Lands("Booting", {machine.wakeNow}, {FALSE})
          \/ Lands("Off", {machine.wakeNow}, {FALSE})
      BY <1>1, <1>2, <1>3, <1>4, <1>7, <2>1, UpdatesLand
    <2> QED
      BY <1>4, <2>2, <2>3
      DEF Lands, Lifecycle!ControllerStep, Lifecycle!Woken, Lifecycle!DropTrigger,
          Lifecycle!Goes
  <1> QED BY <1>1, <1>5, <1>6, <1>7 DEF reconcileOff

\* reconcileBooting drops a stale drain-now, promotes or gives the boot up.
LEMMA BootingFollows ==
  ASSUME TypeOK, "machine" \notin Lagging, NEW ok \in BOOLEAN, reconcileBooting(ok)
  PROVE  Lifecycle!ControllerStep
  <1> DEFINE h == removeDrainAnnotation
             o == [machine EXCEPT !.drainNow = FALSE]
  <1>1. h.current /\ h.server = o /\ h.copy = o /\ CachedMachine = machine
    BY HandledMachine, CurrentHandles
  <1>2. /\ o \in MachineRecord /\ o.state = machine.state
        /\ o.wakeNow = machine.wakeNow /\ o.drainNow = FALSE
    BY HandledMachine DEF MachineRecord
  <1>3. machine.state = "Booting"
    BY <1>1 DEF reconcileBooting
  <1>4. CASE machine' = o
    BY <1>4, PatchDrops DEF Lifecycle!ControllerStep
  <1>5. CASE machine' # o /\ (promoteToReady(h, ok) \/ failBoot(h, ok))
    <2> HIDE DEF h, o
    <2>1. \E s \in {"Ready", "Failed"} : Lands(s, {machine.wakeNow, FALSE}, {FALSE})
      BY <1>1, <1>2, <1>5, PromotionLands, FailBootLands
    <2> QED
      BY <1>3, <2>1
      DEF Lands, Lifecycle!ControllerStep, Lifecycle!Adopted, Lifecycle!BootFailed,
          Lifecycle!Goes
  <1> QED BY <1>1, <1>4, <1>5 DEF reconcileBooting

\* reconcileReady drops a stale wake-now, starts a drain on drain-now, or gives
\* a Node up that nobody asked to drain.
LEMMA ReadyFollows ==
  ASSUME TypeOK, "machine" \notin Lagging, NEW ok \in BOOLEAN, reconcileReady(ok)
  PROVE  Lifecycle!ControllerStep
  <1> DEFINE h == removeWakeAnnotation
             o == [machine EXCEPT !.wakeNow = FALSE]
             draining == [h.copy EXCEPT !.state = "Draining", !.drainStart = now]
             off == [h.copy EXCEPT !.state = "Off", !.notReadySince = None]
  <1>1. h.current /\ h.server = o /\ h.copy = o /\ CachedMachine = machine
    BY HandledMachine, CurrentHandles
  <1>2. /\ o \in MachineRecord /\ o.state = machine.state
        /\ o.wakeNow = FALSE /\ o.drainNow = machine.drainNow
    BY HandledMachine DEF MachineRecord
  <1>3. /\ draining \in MachineRecord /\ draining.state = "Draining"
        /\ off \in MachineRecord /\ off.state = "Off"
    BY <1>1, <1>2, HandledMachine DEF MachineRecord, States, Time
  <1>4. machine.state = "Ready"
    BY <1>1 DEF reconcileReady
  <1>5. CASE machine' = o
    BY <1>5, PatchDrops DEF Lifecycle!ControllerStep
  <1>6. CASE machine' # o /\ h.copy.drainNow /\ startDraining(h, ok)
    <2>1. machine.drainNow = TRUE
      BY <1>1, <1>2, <1>6, HandledMachine
    <2> HIDE DEF h, o, draining, off
    <2>2. \/ StatusUpdateAndDropDrain(h, draining, ok)
          \/ machine' = [o EXCEPT !.drainNow = FALSE]
      BY <1>1, <1>6 DEF startDraining, Patch, draining
    <2>3. \/ Lands("Draining", {FALSE}, {machine.drainNow, FALSE})
          \/ Lands("Ready", {FALSE}, {FALSE})
      <3>1. CASE StatusUpdateAndDropDrain(h, draining, ok)
        BY <1>1, <1>2, <1>3, <1>6, <3>1, UpdatesLand
      <3>2. CASE machine' = [o EXCEPT !.drainNow = FALSE]
        BY <1>2, <1>4, <3>2 DEF Lands, MachineRecord
      <3> QED BY <2>2, <3>1, <3>2
    <2> QED
      BY <1>4, <2>1, <2>3
      DEF Lands, Lifecycle!ControllerStep, Lifecycle!DrainStarted, Lifecycle!DropTrigger,
          Lifecycle!Goes
  <1>7. CASE machine' # o /\ ~h.copy.drainNow /\ reconcileReadyNodeLost(h, ok)
    <2>1. machine.drainNow = FALSE
      BY <1>1, <1>2, <1>7, HandledMachine
    <2> HIDE DEF h, o, draining, off
    <2>2. StatusUpdate(h, off, ok) \/ machine' = [o EXCEPT !.notReadySince = now]
      BY <1>1, <1>7 DEF reconcileReadyNodeLost, stampNotReadySince, Patch, off
    <2>3. Lands("Off", {FALSE}, {FALSE}) \/ Lands("Ready", {FALSE}, {FALSE})
      <3>1. CASE StatusUpdate(h, off, ok)
        BY <1>1, <1>2, <1>3, <1>7, <2>1, <3>1, UpdatesLand
      <3>2. CASE machine' = [o EXCEPT !.notReadySince = now]
        BY <1>2, <1>4, <2>1, <3>2 DEF Lands, MachineRecord
      <3> QED BY <2>2, <3>1, <3>2
    <2> QED
      BY <1>4, <2>1, <2>3
      DEF Lands, Lifecycle!ControllerStep, Lifecycle!NodeLost, Lifecycle!DropTrigger,
          Lifecycle!Goes
  <1>8. CASE machine' # o /\ nodeInService(h, ok)
    <2>1. machine' = [o EXCEPT !.notReadySince = None]
      BY <1>1, <1>8 DEF nodeInService, clearNotReadySince, Patch
    <2>2. Lands("Ready", {FALSE}, {machine.drainNow})
      BY <1>2, <1>4, <2>1 DEF Lands, MachineRecord
    <2> QED
      BY <1>4, <2>2 DEF Lands, Lifecycle!ControllerStep, Lifecycle!DropTrigger
  <1> QED BY <1>1, <1>5, <1>6, <1>7, <1>8 DEF reconcileReady

\* reconcileDraining drops the drain-now and ends the drain in Ready, Failed or
\* ShuttingDown, or goes on with it.
LEMMA DrainingFollows ==
  ASSUME TypeOK, "machine" \notin Lagging, NEW ok \in BOOLEAN, reconcileDraining(ok)
  PROVE  Lifecycle!ControllerStep
  <1> DEFINE h == removeDrainAnnotation
             o == [machine EXCEPT !.drainNow = FALSE]
             ready == [h.copy EXCEPT !.state = "Ready", !.drainStart = None]
             failed == [h.copy EXCEPT !.state = "Failed"]
             down == [h.copy EXCEPT !.state = "ShuttingDown", !.shutdownStart = now]
  <1>1. h.current /\ h.server = o /\ h.copy = o /\ CachedMachine = machine
    BY HandledMachine, CurrentHandles
  <1>2. /\ o \in MachineRecord /\ o.state = machine.state
        /\ o.wakeNow = machine.wakeNow /\ o.drainNow = FALSE
    BY HandledMachine DEF MachineRecord
  <1>3. /\ ready \in MachineRecord /\ ready.state = "Ready"
        /\ failed \in MachineRecord /\ failed.state = "Failed"
        /\ down \in MachineRecord /\ down.state = "ShuttingDown"
    BY <1>1, <1>2, HandledMachine DEF MachineRecord, States, Time
  <1>4. machine.state = "Draining"
    BY <1>1 DEF reconcileDraining
  <1>5. CASE machine' = o
    BY <1>5, PatchDrops DEF Lifecycle!ControllerStep
  <1>6. CASE machine' # o
    <2>1. abortDrain(h, ok) \/ failDrain(h, ok) \/ drainPass(h, ok)
      BY DEF reconcileDraining
    <2> HIDE DEF h, o
    <2>2. \/ StatusUpdate(h, ready, ok)
          \/ StatusUpdate(h, failed, ok)
          \/ StatusUpdate(h, down, ok)
      BY <1>1, <1>6, <2>1
      DEF abortDrain, failDrain, drainPass, powerOffDrained, uncordonIfONPCordoned
    <2> HIDE DEF ready, failed, down
    <2>3. \E s \in {"Ready", "Failed", "ShuttingDown"} :
            Lands(s, {machine.wakeNow}, {FALSE})
      BY <1>1, <1>2, <1>3, <1>6, <2>2, UpdatesLand
    <2> QED
      BY <1>4, <2>3
      DEF Lands, Lifecycle!ControllerStep, Lifecycle!DrainEnded, Lifecycle!Goes
  <1> QED BY <1>5, <1>6

\* initialize and reconcileShuttingDown touch no trigger.
LEMMA UnpatchedFollows ==
  ASSUME TypeOK, "machine" \notin Lagging, NEW ok \in BOOLEAN,
         initialize(ok) \/ reconcileShuttingDown(ok)
  PROVE  Lifecycle!ControllerStep
  <1> DEFINE h == Unpatched
             declared == [machine EXCEPT !.state = "Off"]
             left(s) == [machine EXCEPT !.state = s, !.shutdownStart = None]
  <1>1. h.current /\ h.server = machine /\ h.copy = machine /\ CachedMachine = machine
    BY HandledMachine, CurrentHandles
  <1>2. /\ declared \in MachineRecord /\ declared.state = "Off"
        /\ \A s \in {"Off", "Failed"} : left(s) \in MachineRecord /\ left(s).state = s
    BY HandledMachine DEF MachineRecord, States, Time
  <1>3. CASE machine' = machine
    BY <1>3, PatchDrops DEF Lifecycle!ControllerStep
  <1>4. CASE machine' # machine /\ initialize(ok)
    <2>1. machine.state = "" /\ StatusUpdate(h, declared, ok)
      BY <1>1, <1>4 DEF initialize
    <2> HIDE DEF h, declared, left
    <2>2. Lands("Off", {machine.wakeNow}, {machine.drainNow})
      BY <1>1, <1>2, <1>4, <2>1, HandledMachine, UpdatesLand
    <2> QED
      BY <2>1, <2>2 DEF Lands, Lifecycle!ControllerStep, Lifecycle!Declared, Lifecycle!Goes
  <1>5. CASE machine' # machine /\ reconcileShuttingDown(ok)
    <2>1. /\ machine.state = "ShuttingDown"
          /\ StatusUpdate(h, left("Off"), ok) \/ StatusUpdate(h, left("Failed"), ok)
      BY <1>1, <1>5 DEF reconcileShuttingDown
    <2> HIDE DEF h, declared, left
    <2>2. \E s \in {"Off", "Failed"} : Lands(s, {machine.wakeNow}, {machine.drainNow})
      BY <1>1, <1>2, <1>5, <2>1, HandledMachine, UpdatesLand
    <2> QED
      BY <2>1, <2>2
      DEF Lands, Lifecycle!ControllerStep, Lifecycle!ShutdownEnded, Lifecycle!Goes
  <1> QED BY <1>3, <1>4, <1>5

-----------------------------------------------------------------------------
(* The refinement.                                                         *)

\* A pass of the controller is a step of the lifecycle.
LEMMA ControllerFollows ==
  ASSUME TypeOK, "machine" \notin Lagging, NEW ok \in BOOLEAN, Reconcile(ok)
  PROVE  Lifecycle!LifecycleNext
  BY OffFollows, BootingFollows, ReadyFollows, DrainingFollows, UnpatchedFollows
  DEF Reconcile, Lifecycle!LifecycleNext

\* Others set a trigger or resolve a Failed Machine, or leave it alone.
LEMMA EnvironmentFollows ==
  ASSUME TypeOK, Environment
  PROVE  [Lifecycle!LifecycleNext]_(Lifecycle!lifecycleVars)
  <1>0. machine \in MachineRecord
    BY DEF TypeOK, ClusterTypeOK
  <1>1. CASE RequestWake
    <2>1. machine' = [machine EXCEPT !.wakeNow = TRUE]
      BY <1>1 DEF RequestWake
    <2> QED
      BY <1>0, <2>1 DEF MachineRecord, Lifecycle!LifecycleNext, Lifecycle!SetTrigger
  <1>2. CASE RequestDrain \/ ScaleDown
    <2>1. machine' = [machine EXCEPT !.drainNow = TRUE]
      BY <1>2 DEF RequestDrain, ScaleDown
    <2> QED
      BY <1>0, <2>1 DEF MachineRecord, Lifecycle!LifecycleNext, Lifecycle!SetTrigger
  <1>3. CASE ResetFailed
    <2>1. machine.state = "Failed" /\ machine' = [machine EXCEPT !.state = "Off"]
      BY <1>3 DEF ResetFailed
    <2> QED
      BY <1>0, <2>1
      DEF MachineRecord, Lifecycle!LifecycleNext, Lifecycle!Resolved, Lifecycle!Goes
  <1>4. CASE machine' = machine
    BY <1>4 DEF Lifecycle!lifecycleVars
  <1> QED
    BY <1>1, <1>2, <1>3, <1>4
    DEF Environment, Operator, OperatorCordon, OperatorUncordon, ToggleAlwaysOn,
        DeleteNode, ToggleDuplicate, PressPower, HostHalts, NodeRegisters,
        NodeBecomesReady, NodeBecomesNotReady, PodSteps, PodBinds, PodFinishes,
        PodIsDeleted, PodIsRemoved, PodStep, SyncMachine, SyncNode, SyncPods, Tick,
        objects

\* With a current Machine cache the controller, the agent and everything around
\* them take the Machine along the documented state graph only: every edge on
\* its trigger, no wake-now surviving into a drain, no drain-now into Ready.
THEOREM LifecycleImplemented ==
  ASSUME "machine" \notin Lagging PROVE Spec => FollowsLifecycle
  <1>1. Init => Lifecycle!LifecycleInit
    <2>1. /\ NewMachine.state = "" /\ NewMachine.wakeNow = FALSE
          /\ NewMachine.drainNow = FALSE
      BY DEF NewMachine
    <2>2. Init => machine = NewMachine
      BY DEF Init, ClusterInit
    <2> QED BY <2>1, <2>2, Zenon DEF Lifecycle!LifecycleInit
  <1>2. TypeOK /\ [Next]_vars => [Lifecycle!LifecycleNext]_(Lifecycle!lifecycleVars)
    <2> SUFFICES ASSUME TypeOK, [Next]_vars
                 PROVE  [Lifecycle!LifecycleNext]_(Lifecycle!lifecycleVars)
      OBVIOUS
    <2> USE FaultsAssumption
    <2>1. CASE Controller(~Faults)
      BY <2>1, ControllerFollows DEF Controller
    <2>2. CASE Environment
      BY <2>2, EnvironmentFollows
    <2>3. CASE Agent(~Faults) \/ SyncAgent \/ AgentRestart \/ UNCHANGED vars
      BY <2>3
      DEF Agent, AgentReconcile, SyncAgent, AgentRestart, vars, clusterVars, objects,
          Lifecycle!lifecycleVars
    <2> QED BY <2>1, <2>2, <2>3 DEF Next
  <1> QED
    BY <1>1, <1>2, TypeCorrect, PTL DEF Spec, FollowsLifecycle, Lifecycle!LifecycleSpec

=============================================================================
