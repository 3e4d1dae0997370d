# On-Prem Node Provisioner in TLA+

ONP powers the nodes of a bare-metal Kubernetes cluster on when pods need them
and off when they are empty. Its parts never call one another: they meet in the
`Machine`, `NodePool` and `Node` objects, which each of them reads from a cache
that trails the API server and writes one call at a time. This directory models
that protocol, model-checks it with TLC and proves its safety with TLAPS. Names
follow the Go source; `PROJECT.json` maps each definition to its lines.

## 1. The system

| Part | Source | State it owns | What it does |
|---|---|---|---|
| MachineReconciler | `internal/controller/machine_controller.go`, `guards.go` | `Machine.status` (state, time anchors, conditions), the Node's cordon and its marker | drives "" → Off → Booting → Ready → Draining → ShuttingDown → Off, with Failed on the side |
| Shutdown agent | `internal/shutdownagent` | in memory: the episode it handled | powers its own host off when its Machine is ShuttingDown |
| ScaleUpReconciler | `scaleup_controller.go` | `wake-now`, `NodePool.status.lastScaleUpTime` | wakes the smallest fitting Machine for an unschedulable pod |
| ScaleDownReconciler | `scaledown_controller.go` | `drain-now`, `Machine.status.emptySince`, `NodePool.status.lastScaleDownTime` | asks for the drain of a Machine that stayed empty |
| NodePoolReconciler | `nodepool_controller.go` | the counts of `NodePool.status` | counts members |
| Fit check | `internal/scheduler/fit.go` | none | would this pod run on that Machine |
| Watches | `mapping.go`, the `SetupWithManager` methods | the workqueues | decide which event runs which reconciler |
| Power provider, Wake-on-LAN client and agent | `internal/power`, `internal/agent` | none | sends a magic packet |
| Metrics, logging, commands, generated code | `internal/metrics`, `internal/logging`, `cmd`, `zz_generated.deepcopy.go` | none that others read | |

The behaviours that make it hard, each listed with its line under `hazards` in
`PROJECT.json`:

* every read but a few is from a cache that may be behind. A full status update
  carries a resourceVersion and conflicts when stale; a merge patch does not, and
  its answer even refreshes the copy it was made from;
* a handler makes several writes, and any of them may fail or be the last one
  before the process stops;
* a reconciler runs only on an event that passes its predicates, on a timer it
  asked for or on a retry, and a timer of zero is no timer;
* the Node that a wake was decided for exists only minutes later, built by
  several writers;
* the triggers (`wake-now`, `drain-now`) are one-shot, set by one party and
  removed by another;
* the only sign of a power-off is a Node condition, in whole seconds;
* the agent is restarted by the very boot it must not answer with a power-off;
* packets get lost, boards halt slowly, operators cordon, label, reset, delete
  and press buttons at any moment;
* the pool guards (`minNodes`, `maxNodes`, `maxConcurrent`, cooldowns,
  `consolidateAfter`) relate Machines that are reconciled one at a time.

## 2. The modules

```
MachineObjects            the objects and the predicates of the source on them
   |
Cluster                   API server, caches, host, clock, operator, kubelet, pods
   |        \
MachineController   ShutdownAgent
   |        /
PowerCycle  --implements-->  MachineLifecycle   the abstract Machine
   |      \                       |
   |  MCPowerCycle                |
   |                              |
MachineQueue -- MCMachineQueue    |      what makes the MachineReconciler run
                                  v
Fleet                     many Machines that follow MachineLifecycle, pods, pools
   |        |         \
ScaleDown  ScaleUp   NodePoolStatus
   |   \    |   \     /
   |    Autoscaler -- MCAutoscaler
   |        |
  Watches -- MCWatches            what makes scale-up and scale-down run

NodeFit                   the synthetic Node and the fit check
   |
WakeForPod -- MCWakeForPod        one wake, from the decision to the bound pod

PowerCycleProofs <-- LifecycleProofs <-- PowerOffProofs
       ^------------ MachineQueueProofs
FleetProofs      <-- AutoscalerProofs, WatchesProofs
WakeForPodProofs
```

An arrow between proof modules means that the one on the right uses the lemmas
of the one on the left; section 4 goes through them.

**MachineObjects** has the Machine's status as a record (state, `bootStart`,
`drainStart`, `shutdownStart`, `notReadySince`, and the two annotations), the
Node (present, Ready and since when, unschedulable, ONP's marker, always-on
label) and a pod by its phase, with the source's predicates: `bootTimedOut` and
its siblings, `nodeWentDownSince`, `isWorkload`, `keepsNodeOn`, `isDrainable`,
`drainPolicy`.

**Cluster** holds the truth and the caches. `Lagging` names the caches that may
be behind; a cache outside it is always current. One that is behind holds an
earlier version and catches up in one step, without the versions in between.
Everyone but ONP acts here: an
operator with at most `MaxOps` moves of the kinds in `OperatorMoves`, the board
(off, on, halting; a boot takes a tick), the kubelet, the scheduler, which may
ignore a cordon for `SchedulerLag` ticks, pods, caches and the clock. The history
`cordonedBy` records who placed the cordon that stands: ONP, the operator, or
both, when an operator cordons a Node that carries a left-over marker.

**MachineController** has one operator per handler of `machine_controller.go`,
dispatched on the *cached* state. A write is one of two kinds:

* `StatusUpdate` replaces the status and succeeds only if the handle is current.
  A handle is the copy and whether its resourceVersion is the server's.
* `Patch` changes one field and cannot conflict. `Decoded` models what
  client-go does with the answer: it is decoded *into* the caller's object, so
  fields that are absent in the answer keep their stale value while the
  resourceVersion becomes current.

A handler is one action. It may stop after any of its writes when `ok` is FALSE,
which is a failed call or a crash. Reads inside a handler are cached, so with a
trailing cache they are already arbitrarily old, and the write that decides is
guarded by the Machine's lock; what another party does to the Machine between two
writes of one pass is either what it does just before or after the pass, or a
conflict, which is the `ok = FALSE` case. The lock says nothing of the Node.
`reconcileDraining` reads the always-on label once (line 542) and writes
ShuttingDown some calls later (line 619), and a label set in between does not stop
the power-off. In the model that label comes right after the pass, or is hidden by
a trailing Node copy; no property here says that it is honoured.

**ShutdownAgent** is the agent's `Reconcile` on its own cache, with the memory
`issued`/`issuedFor` that dies with the process, and `bootedAfter`.

**MachineQueue** adds the Machine's key in the workqueue and its delayed add.
PowerCycle lets a pass happen at any time, which is the right excess for safety
and the wrong one for liveness. Here a pass needs a queued key; `HandlerResult`
is what each handler returns (`Result{}`, `Requeue`, `RequeueAfter` with
`requeueForBoot` and `requeueForShutdown`, or an error); a change that an
informer delivers, of the Machine or the Node, enqueues the key, the
controller's own writes included; the handler is that of the state the cache had
when the pass began (`dispatched`), whatever a patch's answer brings later; a restart lists everything and forgets the
timers. `DeadlineRaces` says whether a deadline may pass between the two looks
at the clock of one pass.

**MachineLifecycle** is the promise to everyone who watches a Machine: which
state follows which, which trigger an edge needs, and which triggers survive it.
`FollowsLifecycle` states that PowerCycle implements it.

**Fleet** has several Machines, each of which moves as MachineLifecycle's
`ControllerStep` says, as far as its Node justifies (`Justified`), with the
conditions scale-up reads. A behaviour starts with any of the Machines up and
any booting that the cap allows, under any policy in `Policies`, which then
stays. Labels, taints and volumes are the set of Machines a pod is fine with;
resources are one number. The Node and pod caches of the pool-level reconcilers
are current here; those of Machines and pools may lag. Around them Nodes get
lost and return, hosts come up unasked or too late for their boot (`HostReturns`)
and are adopted, power-ons are refused and exemptions come and go.

**ScaleDown**, **ScaleUp** are the two reconcilers. Each is served by one worker,
and each decision and its annotation are two steps: `drainFor` and `wakeFor`
hold the Machine in between, the pool stamp having been written. The second
write may fail. **NodePoolStatus** writes the whole pool status from a cached
copy. **Autoscaler** composes the three and records when drains were decided
(`decided`), what gave a reason for a wake (`wanted`) and by how much a pool is
above its cap through no wake that scale-up could have refused (`excess`).

**Watches** is scale-up and scale-down with their queues and timers. The events
of a step are computed from what it changed, through the predicates of the
source (`podEmptinessPredicate`, `nodeExemptionChanged`,
`unschedulablePodPredicate`, the generation filter on pools) and its mappings.
A pass has the results of the code, `scaleDownWaits` and `scaleUpWaits`; the
second write may fail, an operator edits the pool, and the process restarts
between any two writes.

**NodeFit** has the pure functions behind a wake: `mergeTaints`, the synthetic
Node of a powered-off Machine with its labels, taints and room
(`nodeForMachine`, `syntheticAllocatable`), every predicate of `Fit`, and what
the template wants on the Node. Labels and resource lists are functions with
`Unset` for a missing key and `Empty` for the empty string, which a missing key
reads as in Go. A taint list is a set here: of several entries of a
template with one key and effect, `LastOf` leaves open which one is the last.

**WakeForPod** is one wake of one Machine for one pod: scale-up's choice, the
boot, and the three writes of `promoteToReady`, each of which may fail and start
over, made from a cached Node with the semantics of a merge patch (labels key by
key, taints as one list). Around them the kubelet registers and reports, device
plugins come late, the node controller writes its taints, deleted pods leave and
an operator taints, cordons, labels and edits pools. `Admits`, what
kube-scheduler asks of the real Node, is written apart from `Fit`, so that
comparing the two says something.

## 3. What is checked

Run one with `tlc -config <run>.cfg <module>`.

| Run, module | Properties | Question | Distinct states |
|---|---|---|---|
| lifecycle, MCPowerCycle | TypeOK, FollowsLifecycle, OnePowerOffPerEpisode, OperatorCordonKept | does every pass, with failing writes, template errors, flapping and deleted Nodes, keep to the state graph and its triggers; can a host be powered off twice for one request; does ONP ever take an operator's cordon for its own | 878,000 |
| drain, MCPowerCycle | CordonHeld, ReadyIsSchedulable, NoWorkloadAtPowerOff | does anything ride a host down, with stale pods, a stale agent and a label that comes and goes; does a drain that is called off leave its cordon behind | 1,120,000 |
| queue, MCMachineQueue | KeepsPolling, AnchoredStates, BootEnds, DrainEnds, ShutdownEnds, WakeReachesBoard, FollowsLifecycle, OffMeansDown | when passes run for a reason only, and on stale copies of Machine and Node, in the agent too: is a Machine ever forgotten, does every state with a budget end, does a wake sent to a halting board get through, is a running host ever reported Off | 249,000 |
| scale_down, MCAutoscaler | TypeOK, PacedDrains, FloorHeld, DrainsSpaced | does automatic scale-down respect `minNodes`, `maxConcurrent` and `cooldown.scaleDown` on stale caches, while the pool status is written whole by another reconciler | 341,000 |
| scale_up, MCAutoscaler | CapHeld, OneWakePerPod | on a Machine list that trails, with hosts that come up unasked: is `maxNodes` exceeded by a wake that scale-up could have refused, and has every Machine on its way up a reason of its own | 364,000 |
| watches, MCWatches | IdleAttended, PendingAttended, PendingPodRuns | do watches and timed re-checks together cover everything scale-up and scale-down decide on, and does a pod that the cap keeps out get to run once scale-down freed a place | 58,000 |
| prediction, MCWakeForPod | PredictionKept, TaintsUnique, TemplateOnlyAdds, ReservedLabelsKept | does the Node that enters service admit the pod it was woken for; what may the template do to a Node | 831,000 |

Each property has a mutant: a changed definition, kept next to the original
(`keptOn_booting` next to `keptOn`), under which TLC finds the property violated.

### Disagreements with the documentation

These runs end in a counterexample. Each quotes a comment of the repository that
the program does not keep; `findings` in `PROJECT.json` has the lines.

| Run | Property | What happens |
|---|---|---|
| failed_wake | FailedBootSpendsWake | Failed is written, the removal of `wake-now` fails, and the retry returns at once |
| one_poll | NoWorkloadAtPowerOff | the event of the drain's own cordon brings the next pass at once instead of one poll later, and a pod bound a moment after that look rides the Node down |
| lost_poll | KeepsPolling | the boot deadline passes while the power-on is sent again; the delay is clamped to zero, which is no requeue |
| failed_terminal | FailedIsTerminal | a patch from a stale copy makes the next status update pass the lock, and a Failed Machine becomes Ready |
| reserved_label | PredictionKept | the fit check counts a label of the template that the promotion leaves out, a reserved one or one with an empty value: the Machine is woken and the pod never binds |

Three properties are in both lists. NoWorkloadAtPowerOff holds when the
scheduler sees a cordon before anyone looks again, and fails when it may take a
tick. KeepsPolling holds when no deadline falls between the two looks at the
clock of one pass. PredictionKept holds for pods
that select neither a reserved label nor an empty value of the template.

Behaviours of the same sort that are part of the models and have no run of their
own; each is a hazard in `PROJECT.json`:

* `maxNodes` is exceeded in two ways. A wake is judged on a cached list that does
  not show the last one yet; and a host that comes up by itself, or after its boot
  was given up, is adopted into a full pool. CapHeld allows those and nothing
  else;
* two short NotReady spells with no pass in between count as one long one;
* the anchor of a failed boot outlives a reset and can fail an adoption;
* an operator's cordon is lifted although setCordon's comment says it never is:
  when it was placed over a left-over marker, or when the copy of the Node does
  not show it yet (OperatorCordonKept without `CachedNode = node` is violated in
  lifecycle);
* a pass on a stale Draining copy changes the cordon before its status update
  conflicts: it uncordons a Node on its way down, when its drain timed out, or
  cordons the Node of a Machine whose drain was called off, and nothing lifts that
  cordon until the next drain ends (CordonHeld and ReadyIsSchedulable fail when
  the Machine cache trails). A Node copy that shows the always-on label and not yet
  the cordon that was placed after it can do the same. The models have no such
  copy, because a handler reads one version and a cache skips to the latest, so
  ReadyIsSchedulable is claimed for current caches only;
* a lagging pool cache hides the last wake from its cooldown;
* a pod that comes and goes between two passes does not restart the empty timer;
* the template's patch drops a taint that its copy of the Node did not show yet,
  an operator's too, if the template has a taint of its own to add.

### Bounds

* Power cycle and queue: one Machine, at most one pod, 1 to 3 outside moves, a
  clock of 2 to 4 ticks. With budgets of 1 and 2 ticks the 4 ticks of drain are
  enough for a full cycle (wake, boot, drain, shutdown) with one timeout anywhere
  in it. lifecycle has 2 ticks, in which each of its budgets runs out, since it may
  start with a running host that is adopted. It has the trailing Node copy, and
  drain the trailing agent: both at once are beyond the time a run may take. The
  queue run has 2 ticks, in which each budget but the drain's default runs out; its two pools overlap, so that a
  conflict resolves the drain budget. One Machine is enough since Machines share
  nothing below the pool; a second Machine that claims the same Node is the flag
  `duplicate`.
* Autoscaler: one pool of two Machines under each of the policies of the run
  (scale_down: a floor, the pace alone, a cooldown; scale_up: a cap, a cooldown),
  no pods in scale_down and one in scale_up, which fits either Machine, two
  outside moves in scale_up. No Machine is drained by scale-down in scale_up:
  `consolidateAfter` is unset. Two Machines are the least with which floor, pace and cap can be exceeded. The
  clock has one tick, which lets every delay expire; the scale-down cooldown that
  starts at that tick does not expire. A run with two ticks passes on 4.6 million
  states, and section 4 proves the properties for every bound.
* Watches: two Machines, a pod only the larger one admits, a cap of one, with and
  without a floor of one, and one outside move (an exemption, an edit of the
  pool, a failing call, a restart). `consolidateAfter` is zero, its hard case;
  timers fire at any moment, so the clock stands still. Informers are current:
  a later event is an event at a later moment.
* WakeForPod: two templates, two Machines, two pods, two hosts, leftovers of an
  earlier template, three kinds of cordon, one extended resource, two edits.
* `BootPoll` and the other poll intervals are one tick: a poll is only the time
  after which a pass may run again.
* `CHECK_DEADLOCK FALSE`: a Machine at rest waits for an outside event, and both
  the clock and the outside moves are bounded.
* `Blips`, a Node that is NotReady for a moment while its host runs, is FALSE
  outside lifecycle. In queue it must be: the code takes a NotReady after
  the request as evidence of the power-off by design, so a blip at that moment
  is reported Off. Elsewhere it only adds states.
* queue asks for drains as scale-down does, of a Ready Machine. A
  `drain-now` set by hand while the Machine boots is the finding
  failed_terminal.
* scale_down excludes lost Nodes, which lower the Ready count without ONP, and
  pods, whose arrival only ends a timer. Both autoscaler runs exclude what an
  operator does by hand to a member: a wake or a drain by hand is outside the
  pool guards, and a reset is the finding failed_wake.

### Fairness

*MachineQueue.* A pass is not fair by itself: it needs a queued key. `Fairness`
assumes that a worker takes a queued key and that its calls do not fail for ever
(strong fairness of the successful pass: a failed one is put back with backoff),
that timers fire, and that neither the informers nor the clock and a halting
board stand still altogether. It
assumes nothing of the shutdown agent, the kubelet, the scheduler or the pods:
the budgets exist because those may never act. The bounded clock is accounted
for in the properties: an obligation counts only if its budget ends before
`MaxTime`, and at `MaxTime` timers still fire. KeepsPolling is the safety half:
whoever is unfinished is queued, on a timer or about to hear news. Two instants
are set aside there by `DeadlineRaces = FALSE`; lost_poll is about them.

*Watches.* The same for the two pool-level workers and their timers. A Machine in
transit arrives, which is what the queue run shows of the MachineReconciler, a
pod that fits binds some day, and a trigger is dropped any number of times but
not always. PendingPodRuns excuses a pod only while an operator keeps idle
Machines on (an exemption, a floor) or has a Failed one to repair.

## 4. What is proved

Every safety invariant and every action property of the passing runs is a
theorem for all values of the constants that the assumptions allow: any number
of Machines, pools, pods, labels, taints and resources, any policies, budgets
and bounds, with and without faults. Where a theorem has a hypothesis beyond
types, the tables name it and say what becomes of the property without it. The
inductive invariants were checked with TLC before they were proved.

The assumptions on constants (`ClusterAssumption`, `FleetAssumption`,
`FitAssumption` and the other `ASSUME`s) are about types and finiteness, but for
`InformersCurrent` of Watches, which is part of that module's model: it has no
trailing caches. TLC evaluates them on every run. A hypothesis is part of the
statement of a theorem.

### The power cycle

| Theorem | Property | Hypotheses |
|---|---|---|
| TypeCorrect, PowerCycleProofs | TypeOK | none |
| AlwaysAnchored, PowerCycleProofs | AnchoredStates | none |
| PowersOffOnce, PowerCycleProofs | OnePowerOffPerEpisode | the boot time can be read: otherwise a restarted agent has nothing to tell the episode by |
| LifecycleImplemented, LifecycleProofs | FollowsLifecycle | the Machine cache is current |
| OffIsReportedDown, PowerOffProofs | OffMeansDown | the Machine cache is current; `BoardLeftAlone`: no one else switches the board or deletes the Node, no blips |
| OperatorCordonStands, PowerOffProofs | OperatorCordonKept | none; the property speaks of passes that see the Node as it is |
| CordonIsHeld, PowerOffProofs | CordonHeld | Machine and Node cache are current; `CordonLeftAlone`: no one uncordons or deletes the Node |
| ServiceIsSchedulable, PowerOffProofs | ReadyIsSchedulable | Machine and Node cache are current |
| WorkloadNeverCut, PowerOffProofs | NoWorkloadAtPowerOff | Machine and Node cache are current; `CordonLeftAlone`; `CordonHeeded`: no scheduler lag, no do-not-disrupt pod of a DaemonSet; `AgentKeepsUp`: the agent's copy is current, or the boot time can be read and there are no resets, `BoardLeftAlone` |

The pod cache may trail in all of them, and the Node cache in the first six. Where
the Node cache must be current a hypothesis also covers the versions that the
model's caches skip.

*Anchors.* The timeout functions read a missing anchor as "not timed out", so a
Booting, Draining or ShuttingDown Machine without its anchor would be polled for
ever. The invariant is `TypeOK /\ AnchoredStates /\ EpisodesInPast`.
AnchoredStates speaks of the cached copies too, because a handler computes the
status it writes from a copy and a patch's answer is decoded over one: the lemma
`DecodedIsGood` shows that mixing a stale copy with the server's answer keeps
every anchor a state needs. EpisodesInPast says that a running host that was
powered off for an episode booted after it, from which PowersOffOnce follows.

*The lifecycle.* With a current Machine cache a handler's copy is the Machine
less the trigger it has just removed (`CurrentHandles`), its status update lands
on that (`UpdatesLand`), and one lemma per handler matches what it writes with
one step of MachineLifecycle (`OffFollows`, ...). With a trailing cache the
refinement is checked by TLC for the moves the runs allow, and false when a
`drain-now` is set by hand during a boot (failed_terminal).

*Off means down.* The evidence for a power-off is a Node condition's timestamp,
which an earlier boot could have left behind. `DownInv` ties the timestamps to
the boot: a Node, or a cached copy, that is not Ready turned so before the
host's last boot, and a Machine in service on a running host has seen that boot
through. So a NotReady younger than the shutdown request cannot be found while
the host is on, even in a stale copy.

*Cordons.* `CordonInv` says that an operator's cordon stands on a Node without
ONP's marker, so no pass takes it for ONP's own; a claim through a stale copy turns
it into a cordon of both. `MarkedInv` is the converse, ONP's cordon has the marker,
and `ReadyIsUncordoned` shows that a pass that ends in Ready has lifted a marked
cordon, or found the Machine Ready and cordoned nothing.

*No workload.* `QuietInv`: a ShuttingDown Machine has a cordoned Node with
nothing on it that keeps it on. The drain confirms this with the API server, and
no step brings a pod back as long as the cordon is held and heeded. For a stale
agent `StaleAgentInv` adds that an episode younger than the running boot belongs
to a Machine that has gone no further than Failed: a reset of one would let the
agent power off a Machine that serves again.

These hypotheses are not for convenience. With TLC, a counterexample turns up for
each of: a trailing Machine cache (CordonHeld, ReadyIsSchedulable, NoWorkloadAtPowerOff), a trailing
Node cache (CordonHeld, NoWorkloadAtPowerOff), a blip, a power button or a deleted Node (OffMeansDown), an
uncordon, a deleted Node, a scheduler lag or a do-not-disrupt pod of a DaemonSet
(NoWorkloadAtPowerOff), and a stale agent with resets or blips
(NoWorkloadAtPowerOff). For four we know none: a trailing Machine cache in
OffMeansDown, a trailing Node cache in ReadyIsSchedulable, and, with a stale agent in NoWorkloadAtPowerOff, an unreadable boot
time or a power button.

### The queue

`MachineQueueProofs` has two theorems.

* `QueueImplementsPowerCycle`: `QueueSpec => Spec`. Running passes only for a
  reason adds no behaviour, so all of the above holds of the queued controller.
* `PollingNeverStops`: `QueueSpec => []KeepsPolling`, if reads of the Machine are
  current, the poll intervals are positive and no deadline falls between a
  pass's two looks at the clock, the case of lost_poll. It goes by how a pass
  ends: one that waits asks for a positive delay, because it has just found its
  budget not used up; one that returns `Result{}` has changed the Machine, whose
  event brings it back, or leaves nothing to do.

With a trailing Machine cache KeepsPolling is only model-checked, by the run
queue, which finds no violation: the argument above needs a pass to have seen the
Machine it leaves behind.

### The pools

`FleetProofs` has the lemmas about Machines, pods and pools that the next two
modules share.

| Theorem, AutoscalerProofs | Property | Hypotheses |
|---|---|---|
| TypesHold | TypeOK | none |
| PaceHolds | PacedDrains | none: caches of any age |
| SpacingHolds | DrainsSpaced | none: caches of any age |
| CapHolds | CapHeld | none: what a trailing list or a host that came up by itself adds is counted in `excess` |
| FloorHolds | FloorHeld | no host is lost between the guards and the write, which the program cannot see |
| WakesArePaired | OneWakePerPod | none: a host that came up by itself and a choice from a trailing list are reasons of their own |

None of these is inductive as it stands, because a decision and its annotation
are two writes. The strengthenings count what is decided as if it were written:

| Theorem | Strengthening | Why |
|---|---|---|
| PaceHolds | `DrainsPaced` counts `drainFor` among the Machines on their way down | the guard ran before the stamp; members move until `drain-now` lands |
| CapHolds | `CapKept` counts `wakeFor` among those on, up to `maxNodes + excess` | the same for a wake: `ChoiceKeepsCap` shows that a choice whose list hides nothing that is on finds a place |
| FloorHolds | `FloorKept` takes `drainFor` out of `Staying`; `ServingIsUp` | Ready Machines that were counted stay Ready until the write |
| SpacingHolds | `AnchorIsLastDecision`: the pool's `lastScaleDownTime` on the server is the last decision | the guard reads it fresh, and the whole-status writer must not put an old one back, for which its optimistic lock is needed |
| WakesArePaired | `IsReason`: an injection that gives every Machine woken for a pod, or about to be, one that waited and fits it; `WakesRecorded` | a bound on two counts says nothing of the step; a pod that has a Machine finds it by `wakeInFlight` for as long as it fits it |

`StepsOfMembers`, `StepStartsOnlyTheChosen` and `StepWakesOnlyTheChosen` say what
one step may do to the Machines, once for all theorems: nobody but the two
reconcilers sets a trigger, and only on the Machine they chose.
`WinnerIsCandidate` shows that `smallestCandidate` returns a candidate, from a
least element of a set of sizes and of names. WakesArePaired needs that a pod
goes on fitting a Machine when others leave it (`FitOutlivesLeaving`). What the
bound pods request is a fold over a set in the order of `CHOOSE`; `SumExtends`,
`SumExists` and `FoldIsSum` show by induction on the size that it is the sum in
any order, the induction being carried by a least counterexample
(`SmallestExists`).

`WatchesProofs` proves that no event is needed that does not come:
`IdleNeverForgotten` (IdleAttended) and `PendingNeverForgotten`
(PendingAttended), across failing calls, edits of pools, restarts and timers that
fire at any moment. IdleAttended is strengthened to `StopsAttended` and
`IdleWatched`, which follow a Machine before its timer is due. The step with
content is `NoEventNoChange`: a step that raises no event for a Machine, through
the predicates and mappings of the source, changes nothing that scale-down reads
of it.

### The prediction

`WakeForPodProofs` proves, for any templates, Machines, pods, hosts, labels,
taints and resources, and a Node cache that trails or not:

* `PredictionIsKept` (PredictionKept), if no pod requires a reserved label that a
  template sets (`ReservedNotPromised`) or the empty value of a label that it
  empties (`EmptyNotPromised`), which is what reserved_label is about;
* `TaintsStayUnique` (TaintsUnique), `TemplateAddsOnly` (TemplateOnlyAdds) and
  `ReservedLabelsStay` (ReservedLabelsKept), with no hypothesis.

The invariant `WakeInv` follows the Node through its writers. `LabelsInv` is
where a trailing copy could hurt, since the stamp is skipped for what the copy
shows to be there: a copy that shows a wanted label, of a Node that is up, shows
what the Node has. `ChoiceInv` carries what scale-up found of the synthetic Node
over to the real one, taint by taint, label by label and resource by resource,
until the promotion has stamped it.

### Only model-checked

* Liveness (BootEnds, DrainEnds, ShutdownEnds, WakeReachesBoard, PendingPodRuns):
  fairness and ENABLED are out of the prover's reach. Their safety halves
  KeepsPolling, IdleAttended and PendingAttended are proved.
* FollowsLifecycle, OffMeansDown and KeepsPolling with a trailing Machine cache,
  which the run queue allows, within its bounds and moves.

## 5. What is not modelled

* The operators of a node affinity (`In`, `Gt`, ...) and the sum of a pod's
  requests over its containers: functions of the Kubernetes libraries. A
  required affinity is a set of label values here, a request one number per
  resource.
* `capacityDrift`, which only warns. `WakeForPod` assumes `Honest` declarations;
  with others the prediction does fail, and the code says so in an event.
* The bytes of the magic packet and the HTTP exchange with the Wake-on-LAN agent,
  which keeps no state: a power-on that is refused, lost or delivered.
* The NodePool controller's own watch. Its count may be taken at any time, and no
  decision reads it.
* Changes of a pool's selector, and Machines created or deleted, while the
  program runs. A pool's policies are edited in `Watches`.
* Metrics, events, logs, command lines, charts, generated code.
