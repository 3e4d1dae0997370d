------------------------- MODULE MachineQueueProofs -------------------------
(***************************************************************************)
(* Proofs about MachineQueue for every value of its constants.  Running a  *)
(* pass only when there is a reason allows nothing that PowerCycle does    *)
(* not, and no unfinished Machine is left without a reason to run one.     *)
(***************************************************************************)
EXTENDS MachineQueue, PowerCycleProofs

\* What the code's intervals are: a poll interval of zero would be no poll.
PollsArePositive ==
  BootPoll > 0 /\ DrainPoll > 0 /\ ShutdownPoll > 0 /\ DuplicateRecheck > 0

\* KeepsPolling as an invariant of a step, when reads of the Machine are current.
Attended == Unfinished(machine) => queued \/ timer # None

-----------------------------------------------------------------------------
(* The queue only restricts when a pass runs.                              *)

LEMMA QueueStepIsStep == [QueueNext]_queueVars => [Next]_vars
  <1> SUFFICES ASSUME [QueueNext]_queueVars PROVE [Next]_vars
    OBVIOUS
  <1>1. CASE UNCHANGED queueVars
    BY <1>1 DEF queueVars
  <1>2. CASE MachinePass(~Faults)
    BY <1>2 DEF MachinePass, Next
  <1>3. CASE HeldPass \/ TimerFires \/ ControllerRestart
    BY <1>3 DEF HeldPass, TimerFires, ControllerRestart
  <1>4. CASE Watched(Agent(~Faults))
    BY <1>4 DEF Watched, Next
  <1>5. CASE Watched(Environment /\ AgentFollowsHost)
    BY <1>5 DEF Watched, Next
  <1>6. CASE Watched(SyncAgent)
    BY <1>6 DEF Watched, Next
  <1>7. CASE Watched(Faults /\ AgentRestart)
    BY <1>7 DEF Watched, Next
  <1> QED BY <1>1, <1>2, <1>3, <1>4, <1>5, <1>6, <1>7 DEF QueueNext

\* The controller run from its workqueue implements the controller that may run
\* at any time: everything proved of PowerCycle holds of the queued one.
THEOREM QueueImplementsPowerCycle == QueueSpec => Spec
  <1>1. QueueInit => Init
    BY DEF QueueInit
  <1> QED BY <1>1, QueueStepIsStep, PTL DEF QueueSpec, Spec

-----------------------------------------------------------------------------
(* How a pass ends.                                                        *)

\* A positive delay sets the timer, and so does any delay after news.
LEMMA DelayAttends ==
  ASSUME NEW d \in Int, NEW t \in Int, RequeueAfter(d, t), d > 0 \/ Delivered
  PROVE  queued' \/ timer' # None
  <1>1. CASE Delivered
    BY <1>1, Zenon DEF RequeueAfter, Done
  <1>2. CASE d > 0
    <2>1. timer' = Earliest(timer, t + d)
      BY <1>2 DEF RequeueAfter
    <2>2. t + d # None
      BY NoneAssumption
    <2> QED BY <2>1, <2>2 DEF Earliest
  <1> QED BY <1>1, <1>2

\* What the handler's copy agrees with the Machine on, when reads are current.
LEMMA HeldIsCurrent ==
  ASSUME "machine" \notin Lagging, TypeOK, AnchoredStates
  PROVE  /\ CachedMachine = machine
         /\ Held.state = machine.state
         /\ Held.bootStart = machine.bootStart
         /\ Held.shutdownStart = machine.shutdownStart
         /\ Held.notReadySince = machine.notReadySince
         /\ machine.state = "Off" => Held.wakeNow = machine.wakeNow
         /\ machine.state = "Ready" => Held.drainNow = machine.drainNow
  <1>1. CachedMachine = machine /\ machine \in MachineRecord
    BY DEF CachedMachine, TypeOK, ClusterTypeOK
  <1>2. CASE machine.state \in {"Off", "Booting", "Draining"}
    <2>1. Held = removeDrainAnnotation.copy
      BY <1>1, <1>2 DEF Held
    <2> QED BY <1>1, <1>2, <2>1
            DEF removeDrainAnnotation, Patched, Unpatched, Decoded, Kept, MachineRecord
  <1>3. CASE machine.state = "Ready"
    <2>1. Held = removeWakeAnnotation.copy
      BY <1>1, <1>3 DEF Held
    <2> QED BY <1>1, <1>3, <2>1
            DEF removeWakeAnnotation, Patched, Unpatched, Decoded, Kept, MachineRecord
  <1>4. CASE machine.state \notin {"Off", "Booting", "Draining", "Ready"}
    BY <1>1, <1>4 DEF Held
  <1> QED BY <1>1, <1>2, <1>3, <1>4

-----------------------------------------------------------------------------
(* No unfinished Machine is forgotten.                                     *)

\* A pass that gives a delay gives a positive one, or changes the Machine.
LEMMA WaitingPassAttends ==
  ASSUME "machine" \notin Lagging, ~DeadlineRaces, PollsArePositive,
         TypeOK, AnchoredStates, OffTheDeadline, HandlerResult(Held)
  PROVE  \/ queued' \/ timer' # None
         \/ Done /\ Held.state # NewMachine.state
            /\ \/ MovedOn
               \/ Held.state = "Off" /\ ~(Held.wakeNow /\ CanPowerOn)
               \/ Held.state = "Ready" /\ ~Held.drainNow /\ machine'.notReadySince = None
               \/ Held.state = "Ready" /\ Held.drainNow /\ ~machine'.drainNow
  <1> DEFINE m == Held
             ready == nodeIsReady(CachedNode)
             bootsOn == dispatched = "Booting" /\ ~ready /\ ~bootTimedOut(m, now)
             startsBoot == dispatched = "Off" /\ Enters("Booting")
             drainsOn == /\ dispatched = "Draining" /\ ~labelStopsDrain
                         /\ ~drainTimedOut(m, now, drainTimeout) /\ ~MovedOn
             shutsOn == /\ dispatched = "ShuttingDown" /\ ~shutdownTimedOut(m, now)
                        /\ ~nodeWentDownSince(CachedNode, m.shutdownStart)
             idle == \/ dispatched = "Off" /\ ~ready /\ ~(m.wakeNow /\ CanPowerOn)
                     \/ /\ dispatched = "Ready" /\ ~m.drainNow /\ ready
                        /\ machine'.notReadySince = None
                        /\ staleMarker => node.present
             refused == /\ dispatched = "Ready" /\ m.drainNow
                        /\ nodeAlwaysOn(CachedNode) /\ ~machine'.drainNow
             waits == bootsOn \/ startsBoot \/ lossWaits(m) \/ drainsOn \/ shutsOn
             requeues == dispatched = NewMachine.state \/ Enters("Draining")
  <1>1. /\ Held.state = machine.state /\ CachedMachine = machine
        /\ Held.bootStart = machine.bootStart
        /\ Held.shutdownStart = machine.shutdownStart
        /\ Held.notReadySince = machine.notReadySince
    BY HeldIsCurrent
  <1>2. /\ now \in Nat /\ machine.bootStart \in Time /\ machine.shutdownStart \in Time
        /\ machine.notReadySince \in Time
    BY DEF TypeOK, ClusterTypeOK, MachineRecord
  <1>3. /\ BootPoll \in Nat /\ BootTimeout \in Nat /\ ShutdownPoll \in Nat
        /\ ShutdownTimeout \in Nat /\ DrainPoll \in Nat /\ NodeLossGrace \in Nat
    BY TimeoutAssumption, QueueAssumption
  <1>4. CASE bootsOn
    <2>1. PICK t \in SecondLook : RequeueAfter(requeueForBoot(m, t), t)
      BY <1>4 DEF HandlerResult, lossWaits
    <2>2. t = now
      BY <2>1 DEF SecondLook
    <2>3. requeueForBoot(m, now) \in Int /\ requeueForBoot(m, now) > 0
      BY <1>1, <1>2, <1>3, <1>4, NoneAssumption
         DEF requeueForBoot, bootTimedOut, Smaller, PollsArePositive, Time
    <2> QED BY <1>2, <2>1, <2>2, <2>3, DelayAttends
  <1>5. CASE startsBoot
    <2>1. RequeueAfter(requeueForBoot(machine', now), now)
      BY <1>5 DEF HandlerResult, lossWaits
    <2>2. Delivered
      BY <1>1, <1>5 DEF Delivered, Enters, CachedMachine, dispatched
    <2> QED BY <2>1, <2>2, Zenon DEF RequeueAfter, Done
  <1>6. CASE lossWaits(m)
    <2> DEFINE d == NodeLossGrace - (now - machine'.notReadySince)
    <2>1. RequeueAfter(d, now)
      BY <1>6 DEF HandlerResult, lossWaits
    <2>2. CASE Delivered
      BY <2>1, <2>2, Zenon DEF RequeueAfter, Done
    <2>3. CASE ~Delivered
      <3>1. machine' = machine
        BY <2>3 DEF Delivered, CachedMachine
      <3>2. d \in Int /\ d > 0
        BY <1>1, <1>2, <1>3, <1>6, <3>1 DEF lossWaits, Time
      <3> HIDE DEF d
      <3> QED BY <1>2, <2>1, <3>2, DelayAttends
    <2> QED BY <2>2, <2>3
  <1>7. CASE drainsOn
    <2>1. RequeueAfter(DrainPoll, now)
      BY <1>7 DEF HandlerResult, lossWaits
    <2> QED BY <1>2, <1>3, <2>1, DelayAttends DEF PollsArePositive
  <1>8. CASE shutsOn
    <2>1. RequeueAfter(requeueForShutdown(m, now), now)
      BY <1>8 DEF HandlerResult, lossWaits
    <2>2. machine.shutdownStart # now - ShutdownTimeout
      BY <1>1, <1>8 DEF OffTheDeadline, dispatched
    <2>3. requeueForShutdown(m, now) \in Int /\ requeueForShutdown(m, now) > 0
      BY <1>1, <1>2, <1>3, <1>8, <2>2, NoneAssumption
         DEF requeueForShutdown, shutdownTimedOut, Smaller, PollsArePositive, Time
    <2> QED BY <1>2, <2>1, <2>3, DelayAttends
  <1>9. CASE ~waits /\ ~requeues /\ (MovedOn \/ idle \/ refused)
    <2>1. Done
      BY <1>9 DEF HandlerResult
    <2> QED BY <1>1, <1>9, <2>1 DEF dispatched
  <1>10. CASE ~waits /\ ~(~requeues /\ (MovedOn \/ idle \/ refused))
    <2>1. Requeued
      BY <1>10 DEF HandlerResult
    <2> QED BY <2>1 DEF Requeued
  <1> QED BY <1>4, <1>5, <1>6, <1>7, <1>8, <1>9, <1>10

\* Failed, the one state with nothing to do, is not where a Machine starts.
LEMMA FailedIsFinished ==
  ASSUME machine.state = "Failed"
  PROVE  ~Unfinished(machine)
  <1>1. NewMachine.state # "Failed"
    BY DEF NewMachine
  <1> QED BY <1>1 DEF Unfinished

LEMMA QueueStepAttends ==
  ASSUME "machine" \notin Lagging, ~DeadlineRaces, PollsArePositive,
         TypeOK, AnchoredStates, Attended, [QueueNext]_queueVars
  PROVE  Attended'
  <1>1. CachedMachine = machine /\ CachedMachine' = machine'
    BY DEF CachedMachine
  <1>2. now \in Nat
    BY DEF TypeOK, ClusterTypeOK
  <1>3. CASE UNCHANGED queueVars
    BY <1>3 DEF queueVars, vars, clusterVars, objects, Attended, Unfinished
  <1>4. CASE MachinePass(~Faults)
    <2>1. CASE Requeued
      BY <2>1 DEF Requeued, Attended
    <2>2. CASE HandlerResult(Held)
      <3>1. OffTheDeadline
        BY <1>4 DEF MachinePass
      <3>2. CASE queued' \/ timer' # None
        BY <3>2 DEF Attended
      <3>3. CASE Delivered /\ Done
        BY <3>3 DEF Done, Attended
      <3>4. CASE /\ ~Delivered /\ Held.state # NewMachine.state
                 /\ \/ MovedOn
                    \/ Held.state = "Off" /\ ~(Held.wakeNow /\ CanPowerOn)
                    \/ /\ Held.state = "Ready" /\ ~Held.drainNow
                       /\ machine'.notReadySince = None
                    \/ Held.state = "Ready" /\ Held.drainNow /\ ~machine'.drainNow
        <4>1. machine' = machine
          BY <1>1, <3>4 DEF Delivered
        <4>2. /\ Held.state = machine.state
              /\ machine.state = "Off" => Held.wakeNow = machine.wakeNow
              /\ machine.state = "Ready" => Held.drainNow = machine.drainNow
          BY HeldIsCurrent
        <4>3. ~Unfinished(machine)
          BY <3>4, <4>1, <4>2 DEF Unfinished, MovedOn
        <4> QED BY <4>1, <4>3 DEF Attended, Unfinished
      <3> QED BY <2>2, <3>1, <3>2, <3>3, <3>4, WaitingPassAttends
    <2> QED BY <1>4, <2>1, <2>2 DEF MachinePass
  <1>5. CASE HeldPass
    <2>1. machine' = machine
      BY <1>5 DEF HeldPass, vars, clusterVars, objects
    <2>2. CASE RequeueAfter(DuplicateRecheck, now)
      <3>1. DuplicateRecheck \in Int /\ DuplicateRecheck > 0
        BY QueueAssumption DEF PollsArePositive
      <3> QED BY <1>2, <2>2, <3>1, DelayAttends DEF Attended
    <2>3. CASE CachedMachine.state = "Failed"
      <3>1. ~Unfinished(machine)
        BY <1>1, <2>3, FailedIsFinished
      <3> QED BY <2>1, <3>1 DEF Attended, Unfinished
    <2> QED BY <1>5, <2>2, <2>3 DEF HeldPass
  <1>6. CASE TimerFires \/ ControllerRestart
    BY <1>6 DEF TimerFires, ControllerRestart, Attended
  <1>7. ASSUME queued' = (queued \/ Delivered), UNCHANGED timer
        PROVE  Attended'
    <2>1. CASE Delivered
      BY <1>7, <2>1 DEF Attended
    <2>2. CASE ~Delivered
      <3>1. machine' = machine
        BY <1>1, <2>2 DEF Delivered
      <3> QED BY <1>7, <2>2, <3>1 DEF Attended, Unfinished
    <2> QED BY <2>1, <2>2
  <1> QED BY <1>3, <1>4, <1>5, <1>6, <1>7 DEF QueueNext, Watched

\* No wake-up is lost, whatever the events, faults and restarts: a Machine that
\* boots, drains, shuts down, waits out a loss or holds a trigger is queued or
\* on a timer.  Reads of the Machine are taken to be current, and no deadline to
\* pass between a pass's two looks at the clock, which is how the poll is lost.
THEOREM PollingNeverStops ==
  ASSUME "machine" \notin Lagging, ~DeadlineRaces, PollsArePositive
  PROVE  QueueSpec => []KeepsPolling
  <1>1. QueueInit => Attended
    BY DEF QueueInit, Attended
  <1>2. TypeOK /\ AnchoredStates /\ Attended /\ [QueueNext]_queueVars => Attended'
    BY QueueStepAttends
  <1>3. Attended => KeepsPolling
    BY DEF Attended, KeepsPolling, CachedMachine
  <1> QED
    BY <1>1, <1>2, <1>3, QueueImplementsPowerCycle, TypeCorrect, AlwaysAnchored, PTL
       DEF QueueSpec

=============================================================================
