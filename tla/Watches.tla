------------------------------ MODULE Watches ------------------------------
(***************************************************************************)
(* What makes the pool-level reconcilers run.  Each has a workqueue and    *)
(* one worker; a key enters the queue with an event that passes the        *)
(* predicates of its watch, with the timer of a pass that asked to be run  *)
(* again, or with the first list of a process.  Autoscaler lets passes     *)
(* happen at any time; here they happen when there is a reason, on caches  *)
(* that are current.  A pass that fails before it writes leaves its key in *)
(* the queue.                                                              *)
(***************************************************************************)
EXTENDS ScaleDown, ScaleUp

ASSUME InformersCurrent == Lagging = {}

VARIABLES
  downQueue,   \* scale-down: the Machines in its queue
  downTimer,   \*   and on a timer
  upQueue,     \* scale-up: the pods in its queue
  upTimer,     \*   and on a timer
  wakePod      \* the pod for which wakeFor is about to be asked to wake

queueVars == <<downQueue, downTimer, upQueue, upTimer, wakePod>>
vars == <<fleetVars, drainFor, wakeFor, queueVars>>

\* The informers' first list passes every object to the watches' predicates.
Init ==
  /\ FleetInit
  /\ drainFor = None /\ wakeFor = None /\ wakePod = None
  /\ downQueue = Members /\ upQueue = pending
  /\ downTimer = {} /\ upTimer = {}

-----------------------------------------------------------------------------
(* The events of a step.                                                   *)

machineEvents == {m \in Members : members'[m] # members[m]}

\* A pod is bound to a Node, or leaves the one it was bound to.
podEmptinessPredicate == {p \in Pods : bound'[p] # bound[p]}

machinesForPod == (UNION {{bound[p], bound'[p]} : p \in podEmptinessPredicate}) \ {None}

generationChanged == {pool \in Pools : poolSpec'[pool] # poolSpec[pool]}

membersOfPool == UNION {Selects[pool] : pool \in generationChanged}

nodeExemptionChanged_set == exempt' \ exempt

nodeExemptionChanged == (exempt' \ exempt) \cup (exempt \ exempt')

scaleDownEvents ==
  machineEvents \cup machinesForPod \cup membersOfPool \cup nodeExemptionChanged

\* An update that leaves a pod unschedulable.
unschedulablePodPredicate == pending' \ pending

\* What the step's events add to the queues, once a worker took some keys.
Enqueued(ms, ps) ==
  /\ downQueue' = (downQueue \ ms) \cup scaleDownEvents
  /\ upQueue' = (upQueue \ ps) \cup unschedulablePodPredicate

Watched(A) ==
  /\ A
  /\ Enqueued({}, {})
  /\ UNCHANGED <<downTimer, upTimer, wakePod>>

-----------------------------------------------------------------------------
(* Results.  A pass asks to be run again after a delay or leaves it to the *)
(* watches.  How long the delay is does not matter here: a timer may fire  *)
(* at any time.  But a delay of zero is none.                              *)

\* A drain the guards hold back waits for them, unless the cache was behind.
waitsForGuards(m) ==
  freshPoolState[m].state = "Ready" /\ ~freshPoolState[m].drainNow

\* Does a pass over Machine m that asks for no drain ask to be run again.
scaleDownWaits(m) ==
  /\ keepsTimer(m) /\ ~CachedMembers[m].drainNow
  /\ CASE startsTimer(m) -> consolidateAfter(m) > 0
       [] ~startsTimer(m) /\ ~idleLongEnough(m) -> TRUE
       [] OTHER -> waitsForGuards(m)

\* A pod that stays unschedulable is looked at again, whether a wake is under
\* way, a cooldown or the cap is in the way or no Machine fits.
scaleUpWaits_inFlight(p) == p \in pending /\ wakeInFlight(p)

scaleUpWaits(p) == p \in pending

Timed(timers, key, waits) == IF waits THEN timers \cup {key} ELSE timers

-----------------------------------------------------------------------------
(* Passes.                                                                 *)

Undisturbed == UNCHANGED <<fleetVars, drainFor, wakeFor>>

\* Does the pass get past every guard.
decidesDrain(m) == idleLongEnough(m) /\ \E pool \in poolsOf(m) : mayDrain(m, pool)

ScaleDownWrites(m) == stopsTimer(m) \/ startsTimer(m) \/ decidesDrain(m)

ScaleDownPass(m) ==
  /\ m \in downQueue /\ drainFor = None
  /\ IF ScaleDownWrites(m) THEN ScaleDownReconcile(m) /\ UNCHANGED <<poolSpec, wakeFor>>
                           ELSE Undisturbed
  /\ Enqueued({m}, {})
  /\ downTimer' = Timed(downTimer, m, scaleDownWaits(m) /\ ~decidesDrain(m))
  /\ UNCHANGED <<upTimer, wakePod>>

\* The second write of a pass that decided.  If it fails the key comes back.
ScaleDownEnds ==
  /\ requestDrain /\ members'[drainFor].drainNow /\ UNCHANGED <<poolSpec, wakeFor>>
  /\ Enqueued({}, {})
  /\ UNCHANGED <<downTimer, upTimer, wakePod>>

ScaleDownFails ==
  /\ drainFor # None /\ Moving("callFails")
  /\ drainFor' = None /\ downQueue' = downQueue \cup {drainFor}
  /\ UNCHANGED <<poolSpec, now, members, up, exempt, podVars, pools, memberCache, poolCache>>
  /\ UNCHANGED <<wakeFor, downTimer, upQueue, upTimer, wakePod>>

wakesFor(p) == p \in pending /\ ~wakeInFlight(p) /\ candidates(p) # {}

ScaleUpPass(p) ==
  /\ p \in upQueue /\ wakeFor = None
  /\ IF wakesFor(p)
       THEN /\ ScaleUpReconcile(p) /\ UNCHANGED <<poolSpec, drainFor, upTimer>>
            /\ wakePod' = p
       ELSE /\ Undisturbed
            /\ upTimer' = Timed(upTimer, p, scaleUpWaits(p)) /\ UNCHANGED wakePod
  /\ Enqueued({}, {p})
  /\ UNCHANGED downTimer

ScaleUpEnds ==
  /\ requestWake /\ members'[wakeFor].wakeNow /\ UNCHANGED <<poolSpec, drainFor>>
  /\ Enqueued({}, {})
  /\ upTimer' = upTimer \cup {wakePod}
  /\ wakePod' = None
  /\ UNCHANGED downTimer

ScaleUpFails ==
  /\ wakeFor # None /\ Moving("callFails")
  /\ wakeFor' = None /\ wakePod' = None /\ upQueue' = upQueue \cup {wakePod}
  /\ UNCHANGED <<poolSpec, now, members, up, exempt, podVars, pools, memberCache, poolCache>>
  /\ UNCHANGED <<drainFor, downQueue, downTimer, upTimer>>

-----------------------------------------------------------------------------
(* Timers, edits of a pool, restarts.                                      *)

DownTimerFires(m) ==
  /\ m \in downTimer
  /\ downQueue' = downQueue \cup {m} /\ downTimer' = downTimer \ {m}
  /\ Undisturbed /\ UNCHANGED <<upQueue, upTimer, wakePod>>

UpTimerFires(p) ==
  /\ p \in upTimer
  /\ upQueue' = upQueue \cup {p} /\ upTimer' = upTimer \ {p}
  /\ Undisturbed /\ UNCHANGED <<downQueue, downTimer, wakePod>>

EditPolicy(pool) ==
  /\ Moving("policy")
  /\ poolSpec' \in {[poolSpec EXCEPT ![pool] = policy] : policy \in Policies \ {poolSpec[pool]}}
  /\ UNCHANGED <<now, members, up, exempt, podVars, pools, memberCache, poolCache>>

\* Whatever was decided and not yet written is forgotten with the process; the
\* next one lists everything again.
Restart ==
  /\ downQueue' = Members /\ upQueue' = pending
  /\ downTimer' = {} /\ upTimer' = {}
  /\ drainFor' = None /\ wakeFor' = None /\ wakePod' = None
  /\ Moving("restart")
  /\ UNCHANGED <<poolSpec, now, members, up, exempt, podVars, pools, memberCache, poolCache>>

Rest(A) == Watched(A /\ UNCHANGED <<drainFor, wakeFor>>)

Next ==
  \/ \E m \in Members : ScaleDownPass(m) \/ DownTimerFires(m)
  \/ \E p \in Pods : ScaleUpPass(p) \/ UpTimerFires(p)
  \/ \E pool \in Pools : Rest(EditPolicy(pool))
  \/ ScaleDownEnds \/ ScaleDownFails \/ ScaleUpEnds \/ ScaleUpFails
  \/ Rest(Others /\ UNCHANGED poolSpec)
  \/ Restart

Spec == Init /\ [][Next]_vars

-----------------------------------------------------------------------------
(* Safety: nothing that is to be done is forgotten.                        *)

\* A Machine on which scale-down has something to write, a timer to start or to
\* stop or a drain to ask for, is in its queue, on a timer or in the worker's
\* hands: the watches and the timed re-checks of SetupWithManager and reconcile
\* together cover all that the decision reads.
IdleAttended ==
  \A m \in Members : ScaleDownWrites(m) =>
    m \in downQueue \cup downTimer \cup {drainFor}

\* A pod that is unschedulable is never out of scale-up's sight, although no
\* Machine or pool event brings it back.
\* "RequeueAfter drives the re-checks; no Machine watch is needed"
PendingAttended ==
  \A p \in pending : p \in upQueue \cup upTimer \cup {wakePod}

-----------------------------------------------------------------------------
(* Liveness.  Workers take their keys in turn, timers fire and no call     *)
(* fails for ever.  A Machine in transit arrives, as MachineQueue shows of *)
(* the MachineReconciler; here a trigger may be dropped any number of      *)
(* times, but not always.  Nor is the scheduler too late for ever.         *)

Fixed(A) == Rest(A /\ UNCHANGED poolSpec)

\* The MachineReconciler moves a Machine on.
Arrives(m) == MachineReconcile(m) /\ members'[m].state \notin {members[m].state, "Failed"}

Fairness ==
  /\ \A m \in Members :
       /\ SF_vars(ScaleDownPass(m)) /\ WF_vars(DownTimerFires(m))
       /\ SF_vars(Fixed(Arrives(m)))
       /\ WF_vars(Fixed(HostBoots(m) \/ HostGoesDown(m)))
  /\ \A p \in Pods :
       /\ SF_vars(ScaleUpPass(p)) /\ WF_vars(UpTimerFires(p))
       /\ SF_vars(Fixed(PodBinds(p)))
  /\ WF_vars(ScaleDownEnds) /\ WF_vars(ScaleUpEnds)

FairSpec == Spec /\ Fairness

\* An operator keeps idle Machines on, or has one to repair.
NeedsHelp ==
  \/ exempt # {} \/ \E pool \in Pools : poolSpec[pool].minNodes > 0
  \/ \E m \in Members : members[m].state = "Failed"

\* A pod that no Node has room for gets to run: scale-up wakes a Machine for it,
\* and where the pool's cap is in the way scale-down frees a place by taking an
\* idle Machine off, whoever restarts or edits the pool in between.
PendingPodRuns == \A p \in Pods : []<>(p \in pending => NeedsHelp)

=============================================================================
