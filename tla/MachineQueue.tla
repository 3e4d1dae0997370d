---------------------------- MODULE MachineQueue ----------------------------
(***************************************************************************)
(* What makes the MachineReconciler run: the Machine's key in the          *)
(* controller's workqueue.  A change that an informer delivers of the      *)
(* Machine or of its Node enqueues the key, and so does the timer of a     *)
(* pass that asked to be run again; nothing else does.  PowerCycle lets    *)
(* passes happen at any time; here they happen when there is a reason.     *)
(***************************************************************************)
EXTENDS PowerCycle

CONSTANTS
  ShutdownPoll,      \* shutdownPollInterval
  DrainPoll,         \* drainPollInterval
  DuplicateRecheck,  \* duplicateNodeRecheck
  DeadlineRaces      \* may a deadline pass between a pass's two looks at the clock

ASSUME QueueAssumption ==
  /\ ShutdownPoll \in Nat /\ DrainPoll \in Nat /\ DuplicateRecheck \in Nat
  /\ DeadlineRaces \in BOOLEAN

VARIABLES
  queued,   \* the key is in the workqueue
  timer     \* when it is added to it: the earliest delayed add, or None

queueVars == <<vars, queued, timer>>

QueueTypeOK == TypeOK /\ queued \in BOOLEAN /\ timer \in Time

\* The informers' first list enqueues every object.
QueueInit == Init /\ queued = TRUE /\ timer = None

-----------------------------------------------------------------------------
(* How a pass ends.                                                        *)

\* The informers deliver a change of the Machine or the Node with this step.
Delivered == CachedMachine' # CachedMachine \/ CachedNode' # CachedNode

Earliest(a, b) == IF a # None /\ a <= b THEN a ELSE b

\* Result{}: the next event brings the Machine back.
Done == queued' = Delivered /\ UNCHANGED timer

\* An error, or Result{Requeue: true}.
Requeued == queued' = TRUE /\ UNCHANGED timer

\* Result{RequeueAfter: d}, computed at instant t.  A delay of zero is no delay
\* but Result{}: the key is forgotten.
RequeueAfter(d, t) ==
  IF d > 0 THEN queued' = Delivered /\ timer' = Earliest(timer, t + d) ELSE Done

Smaller(a, b) == IF a < b THEN a ELSE b

requeueForBoot_early(m, t) == Smaller(BootTimeout - (t - m.bootStart) - 1, BootPoll)

requeueForBoot(m, t) ==
  IF m.bootStart = None
    THEN BootPoll
    ELSE Smaller(BootTimeout - (t - m.bootStart), BootPoll)

requeueForShutdown(m, t) ==
  IF m.shutdownStart = None
    THEN ShutdownPoll
    ELSE Smaller(ShutdownTimeout - (t - m.shutdownStart), ShutdownPoll)

\* The handler's copy of the Machine once its opening Patch is through.
Held ==
  CASE CachedMachine.state \in {"Off", "Booting", "Draining"} -> removeDrainAnnotation.copy
    [] CachedMachine.state = "Ready" -> removeWakeAnnotation.copy
    [] OTHER -> CachedMachine

\* The power-on of a Booting pass is a call of seconds between the look at the
\* clock that finds the boot in its budget and the one that sets the timer.
SecondLook ==
  IF /\ DeadlineRaces /\ CanPowerOn
     /\ Held.bootStart # None /\ now - Held.bootStart >= BootPoll
    THEN {now, now + 1} ELSE {now}

MovedOn == machine'.state # machine.state

\* The handler a pass runs is that of the cached state, whatever the copy says
\* after its opening Patch.
dispatched == CachedMachine.state

\* A Node's loss is being waited out.
lossWaits(m) ==
  /\ dispatched = "Ready" /\ ~m.drainNow /\ ~nodeIsReady(CachedNode)
  /\ ~MovedOn /\ machine'.notReadySince # None
  /\ m.notReadySince = None \/ now - m.notReadySince < NodeLossGrace

\* The passes that wait for the Machine's next move, each with the delay they
\* ask for.  A pass that moves the Machine on leaves the next one to the watch,
\* as one does that has nothing to do; the rest return an error or Requeue.
HandlerResult(m) ==
  LET ready == nodeIsReady(CachedNode)
      bootsOn == dispatched = "Booting" /\ ~ready /\ ~bootTimedOut(m, now)
      drainsOn == /\ dispatched = "Draining" /\ ~labelStopsDrain
                  /\ ~drainTimedOut(m, now, drainTimeout) /\ ~MovedOn
      shutsOn == /\ dispatched = "ShuttingDown" /\ ~shutdownTimedOut(m, now)
                 /\ ~nodeWentDownSince(CachedNode, m.shutdownStart)
      idle == \/ dispatched = "Off" /\ ~ready /\ ~(m.wakeNow /\ CanPowerOn)
              \/ /\ dispatched = "Ready" /\ ~m.drainNow /\ ready
                 /\ machine'.notReadySince = None
                 /\ staleMarker => node.present
      refused == /\ dispatched = "Ready" /\ m.drainNow
                 /\ nodeAlwaysOn(CachedNode) /\ ~machine'.drainNow
      startsBoot == dispatched = "Off" /\ Enters("Booting")
      waits == bootsOn \/ startsBoot \/ lossWaits(m) \/ drainsOn \/ shutsOn
      requeues == dispatched = NewMachine.state \/ Enters("Draining")
  IN  CASE bootsOn -> \E t \in SecondLook : RequeueAfter(requeueForBoot(m, t), t)
        [] startsBoot -> RequeueAfter(requeueForBoot(machine', now), now)
        [] lossWaits(m) -> RequeueAfter(NodeLossGrace - (now - machine'.notReadySince), now)
        [] drainsOn -> RequeueAfter(DrainPoll, now)
        [] shutsOn -> RequeueAfter(requeueForShutdown(m, now), now)
        [] (MovedOn \/ idle \/ refused) /\ ~requeues /\ ~waits -> Done
        [] OTHER -> Requeued

-----------------------------------------------------------------------------

\* Unless deadlines race, no pass reads the clock at the very instant at which
\* the shutdown budget is used up but not exceeded.
OffTheDeadline ==
  ~DeadlineRaces /\ CachedMachine.state = "ShuttingDown"
    => CachedMachine.shutdownStart # now - ShutdownTimeout

MachinePass(ok) ==
  /\ queued /\ OffTheDeadline
  /\ Controller(ok)
  /\ (\E m \in {Held} : HandlerResult(m)) \/ (~ok /\ Requeued)

\* Failed is terminal, and a Node claimed twice holds every action.
HeldPass ==
  /\ queued
  /\ UNCHANGED vars
  /\ \/ duplicate /\ RequeueAfter(DuplicateRecheck, now)
     \/ ~duplicate /\ CachedMachine.state = "Failed" /\ Done

\* The clock stops at MaxTime, and the polls go on.
TimerFires ==
  /\ timer # None /\ (now >= timer \/ now = MaxTime)
  /\ queued' = TRUE /\ timer' = None
  /\ UNCHANGED vars

\* Delayed adds die with the process; the next one lists everything again.
ControllerRestart ==
  /\ Faults
  /\ queued' = TRUE /\ timer' = None
  /\ UNCHANGED vars

\* A step of anyone else enqueues the key when an informer delivers a change.
Watched(A) ==
  /\ A
  /\ queued' = (queued \/ Delivered)
  /\ UNCHANGED timer

QueueNext ==
  \/ MachinePass(~Faults)
  \/ HeldPass
  \/ TimerFires
  \/ ControllerRestart
  \/ Watched(Agent(~Faults))
  \/ Watched(Environment /\ AgentFollowsHost)
  \/ Watched(SyncAgent)
  \/ Watched(Faults /\ AgentRestart)

QueueSpec == QueueInit /\ [][QueueNext]_queueVars

-----------------------------------------------------------------------------
(* Safety.                                                                 *)

\* The controller has something to do on this copy of the Machine, now or when
\* some time has passed.
Unfinished(m) ==
  \/ m.state \in {NewMachine.state, "Booting", "Draining", "ShuttingDown"}
  \/ m.state = "Off" /\ m.wakeNow /\ CanPowerOn
  \/ m.state = "Ready" /\ (m.drainNow \/ m.notReadySince # None)

\* No wake-up is lost: a Machine the controller sees unfinished is in the queue
\* or on a timer, or news of it is on its way, so that a budget runs out even if
\* nothing ever happens again.
\* "fails on timeout, and otherwise requeues to keep polling for readiness"
KeepsPolling ==
  Unfinished(CachedMachine) => queued \/ timer # None \/ CachedMachine # machine

-----------------------------------------------------------------------------
(* Liveness.  A worker takes a queued key, no call fails for ever, timers  *)
(* fire, news gets through, and time goes on or a host told to halt does.  *)
(* Nothing else is assumed of the host, the kubelet, the pods or the       *)
(* shutdown agent, and no pass runs without a reason.                      *)

Steps(A) == Watched(A /\ AgentFollowsHost)

Fairness ==
  /\ SF_queueVars(MachinePass(TRUE)) /\ WF_queueVars(TimerFires)
  /\ WF_queueVars(Steps(SyncMachine \/ SyncNode \/ SyncPods))
  /\ WF_queueVars(Steps(Tick \/ HostHalts))

QueueFairSpec == QueueSpec /\ Fairness

\* No boot outlasts its budget: it ends, in Ready or in Failed.
BootEnds ==
  []<>(machine.state = "Booting" => machine.bootStart + BootTimeout > MaxTime)

DrainBudgets ==
  IF MatchingPools = {} THEN {DefaultDrainTimeout}
                        ELSE {poolDrainTimeout(p) : p \in MatchingPools}

\* No drain, stuck on a pod it may not evict or not, outlasts the budget of any
\* pool the Machine matches.
DrainEnds ==
  []<>(machine.state = "Draining" =>
         \A budget \in DrainBudgets : machine.drainStart + budget >= MaxTime)

\* No shutdown outlasts its budget: it ends, in Off or in Failed, even if no
\* agent ever acts on it.
ShutdownEnds ==
  []<>(machine.state = "ShuttingDown" =>
         machine.shutdownStart + ShutdownTimeout >= MaxTime)

\* A wake whose packet was lost, or reached a board still going down, starts it
\* all the same: the power-on is sent again for as long as the Machine boots.
WakeReachesBoard ==
  []<>(machine.state = "Booting" /\ host # "on" =>
         machine.bootStart + BootPoll > MaxTime)

-----------------------------------------------------------------------------
(* What the repository says of the program and the program does not keep.  *)

\* "The wake request is spent": no failed boot leaves its wake-now behind.
FailedBootSpendsWake == (machine.state = "Failed" /\ machine.wakeNow) ~> ~machine.wakeNow

=============================================================================
