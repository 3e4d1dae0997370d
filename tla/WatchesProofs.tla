--------------------------- MODULE WatchesProofs ---------------------------
(***************************************************************************)
(* Proofs about Watches for every value of its constants: any number of    *)
(* Machines, pools and pods, any policies, restarts, failing calls and     *)
(* edits without a bound on when they happen.                              *)
(***************************************************************************)
EXTENDS Watches, FleetProofs

-----------------------------------------------------------------------------
(* The inductive invariants.                                               *)

MembersTyped == members \in [Members -> MemberRecord] /\ now \in Nat

\* A timer to be stopped is in the queue or waits for its own timer: the worker
\* only holds Machines it has found idle.
StopsAttended == \A m \in Members : stopsTimer(m) => m \in downQueue \cup downTimer

\* A Machine that may go idle and has not been asked to drain is never
\* forgotten, whether its timer runs, is due or has yet to be started.
IdleWatched ==
  \A m \in Members : keepsTimer(m) /\ ~members[m].drainNow =>
    m \in downQueue \cup downTimer \cup {drainFor}

DownAttended == MembersTyped /\ StopsAttended /\ IdleWatched

\* The worker holds a pod only as long as it holds a Machine to wake for it.
PendingWatched ==
  \A p \in pending : p \in upQueue \cup upTimer \/ (wakeFor # None /\ p = wakePod)

-----------------------------------------------------------------------------
(* What is read of a Machine, and what a step must change to change it.    *)

\* The caches are current.
LEMMA CachesCurrent == CachedMembers = members /\ CachedMembers' = members'
  BY InformersCurrent DEF CachedMembers

\* A step that raises no event for a Machine changes nothing that scale-down
\* reads of it: not the object, the exemption, the pods, the pool's delay.
LEMMA NoEventNoChange ==
  ASSUME NEW m \in Members, m \notin scaleDownEvents
  PROVE  /\ members'[m] = members[m]
         /\ keepsTimer(m)' = keepsTimer(m)
         /\ stopsTimer(m)' = stopsTimer(m)
  <1>1. members'[m] = members[m]
    BY DEF scaleDownEvents, machineEvents
  <1>2. m \in exempt' <=> m \in exempt
    BY DEF scaleDownEvents, nodeExemptionChanged
  <1>3. boundTo(m)' = boundTo(m)
    <2>1. m # None
      BY NobodyIsNone
    <2>2. \A p \in Pods : bound'[p] # bound[p] => bound[p] # m /\ bound'[p] # m
      BY <2>1 DEF scaleDownEvents, machinesForPod, podEmptinessPredicate
    <2> QED BY <2>2 DEF boundTo
  <1>4. consolidateAfter(m)' = consolidateAfter(m)
    <2>1. \A pool \in poolsOf(m) : poolSpec'[pool] = poolSpec[pool]
      BY DEF scaleDownEvents, membersOfPool, generationChanged, poolsOf
    <2>2. CASE \E pool \in Pools : poolsOf(m) = {pool}
      <3>1. (CHOOSE pool \in poolsOf(m) : TRUE) \in poolsOf(m)
        BY <2>2
      <3> QED BY <2>1, <2>2, <3>1 DEF consolidateAfter, poolsOf
    <2>3. CASE ~\E pool \in Pools : poolsOf(m) = {pool}
      BY <2>3 DEF consolidateAfter, poolsOf
    <2> QED BY <2>2, <2>3
  <1>5. keepsTimer(m)' = keepsTimer(m)
    BY <1>1, <1>2, <1>3, <1>4, CachesCurrent DEF keepsTimer, nodeEmpty
  <1>6. stopsTimer(m)' = stopsTimer(m)
    BY <1>1, <1>5, CachesCurrent DEF stopsTimer
  <1> QED BY <1>1, <1>5, <1>6

\* Nothing written, no event.
LEMMA NoWriteNoEvent ==
  ASSUME UNCHANGED <<poolSpec, members, exempt, bound>>
  PROVE  scaleDownEvents = {}
  BY DEF scaleDownEvents, machineEvents, machinesForPod, podEmptinessPredicate,
         membersOfPool, generationChanged, nodeExemptionChanged

\* Writing one field of a Machine keeps the objects' shape, whoever it is.
LEMMA FieldKeepsShape ==
  ASSUME members \in [Members -> MemberRecord], NEW k
  PROVE  /\ \A t \in Time : [members EXCEPT ![k].emptySince = t] \in [Members -> MemberRecord]
         /\ [members EXCEPT ![k].drainNow = TRUE] \in [Members -> MemberRecord]
         /\ [members EXCEPT ![k].wakeNow = TRUE] \in [Members -> MemberRecord]
         /\ [members EXCEPT ![k].powerOnFailed = TRUE] \in [Members -> MemberRecord]
  BY DEF MemberRecord

\* Every step keeps the Machines' shape.
LEMMA NextKeepsShape ==
  ASSUME MembersTyped, [Next]_vars
  PROVE  MembersTyped'
  <1>0. members \in [Members -> MemberRecord] /\ now \in Nat /\ now \in Time /\ None \in Time
    BY DEF MembersTyped, Time
  <1>1. CASE UNCHANGED <<members, now>>
    BY <1>1 DEF MembersTyped
  <1>2. CASE \E m \in Members : MachineReconcile(m)
    <2>1. PICK m \in Members : MachineReconcile(m)
      BY <1>2
    <2>2. members' \in [Members -> MemberRecord]
      BY <2>1, ReconcileIsTyped DEF MembersTyped
    <2>3. now' = now
      BY <2>1 DEF MachineReconcile
    <2> QED BY <2>2, <2>3 DEF MembersTyped
  <1>3. CASE \E m \in Members : PowerOnFails(m)
    <2>1. PICK m \in Members :
            members' = [members EXCEPT ![m].powerOnFailed = TRUE] /\ now' = now
      BY <1>3 DEF PowerOnFails
    <2> QED BY <1>0, <2>1, FieldKeepsShape DEF MembersTyped
  <1>4. CASE Tick
    BY <1>4 DEF Tick, MembersTyped
  <1>5. CASE Others
    BY <1>1, <1>2, <1>3, <1>4, <1>5 DEF Others, PodBinds, PodIsUnschedulable, PodLeaves,
         HostBoots, HostGoesDown, HostIsLost, HostReturns, HostChanges, ToggleExemption
  <1>6. CASE \E m \in Members : ScaleDownPass(m)
    <2>1. PICK m \in Members : ScaleDownReconcile(m) \/ Undisturbed
      BY <1>6 DEF ScaleDownPass
    <2>2. CASE Undisturbed
      BY <1>1, <2>2 DEF Undisturbed, fleetVars
    <2>3. CASE ScaleDownReconcile(m)
      <3>1. /\ now' = now
            /\ \/ members' = members
               \/ \E t \in Time : members' = [members EXCEPT ![m].emptySince = t]
        BY <1>0, <2>3 DEF ScaleDownReconcile, stampEmptySince, clearEmptySince
      <3>2. \A t \in Time : [members EXCEPT ![m].emptySince = t] \in [Members -> MemberRecord]
        BY <1>0, FieldKeepsShape
      <3>3. members' \in [Members -> MemberRecord]
        BY Zenon, <1>0, <3>1, <3>2
      <3> QED BY <1>0, <3>1, <3>3 DEF MembersTyped
    <2> QED BY <2>1, <2>2, <2>3
  <1>7. CASE ScaleDownEnds \/ ScaleUpEnds
    <2>1. /\ now' = now
          /\ \/ members' = members
             \/ members' = [members EXCEPT ![drainFor].drainNow = TRUE]
             \/ members' = [members EXCEPT ![wakeFor].wakeNow = TRUE]
      BY <1>7 DEF ScaleDownEnds, ScaleUpEnds, requestDrain, requestWake
    <2>2. /\ [members EXCEPT ![drainFor].drainNow = TRUE] \in [Members -> MemberRecord]
          /\ [members EXCEPT ![wakeFor].wakeNow = TRUE] \in [Members -> MemberRecord]
      BY <1>0, FieldKeepsShape
    <2>3. members' \in [Members -> MemberRecord]
      BY Zenon, <1>0, <2>1, <2>2
    <2> QED BY <1>0, <2>1, <2>3 DEF MembersTyped
  <1>8. CASE \E p \in Pods : ScaleUpPass(p)
    BY <1>1, <1>8 DEF ScaleUpPass, ScaleUpReconcile, Undisturbed, fleetVars
  <1>9. CASE ScaleDownFails \/ ScaleUpFails \/ Restart \/ UNCHANGED vars
    BY <1>1, <1>9 DEF ScaleDownFails, ScaleUpFails, Restart, vars, fleetVars
  <1>10. CASE (\E m \in Members : DownTimerFires(m)) \/ (\E p \in Pods : UpTimerFires(p))
    BY <1>1, <1>10 DEF DownTimerFires, UpTimerFires, Undisturbed, fleetVars
  <1>11. CASE \E pool \in Pools : Rest(EditPolicy(pool))
    BY <1>1, <1>11 DEF Rest, Watched, EditPolicy
  <1> QED BY <1>5, <1>6, <1>7, <1>8, <1>9, <1>10, <1>11 DEF Next, Rest, Watched

-----------------------------------------------------------------------------
(* Scale-down.                                                             *)

\* A step keeps every Machine in sight if it takes none off scale-down's queue
\* and timers, leaves the worker alone, and queues what its events name.
LEMMA QueueingKeepsSight ==
  ASSUME DownAttended, MembersTyped',
         downQueue \cup downTimer \subseteq downQueue' \cup downTimer',
         scaleDownEvents \subseteq downQueue',
         drainFor' = drainFor
  PROVE  DownAttended'
  <1>1. ASSUME NEW m \in Members, stopsTimer(m)' PROVE m \in downQueue' \cup downTimer'
    BY <1>1, NoEventNoChange DEF DownAttended, StopsAttended
  <1>2. ASSUME NEW m \in Members, keepsTimer(m)', ~members'[m].drainNow
        PROVE  m \in downQueue' \cup downTimer' \cup {drainFor'}
    BY <1>2, NoEventNoChange DEF DownAttended, IdleWatched
  <1>3. StopsAttended'
    BY <1>1 DEF StopsAttended
  <1>4. IdleWatched'
    BY <1>2 DEF IdleWatched
  <1> QED BY <1>3, <1>4 DEF DownAttended

\* A pass that writes a Machine's empty timer queues it again.
LEMMA TimerWriteIsEvent ==
  ASSUME MembersTyped, NEW m \in Members,
         \/ stopsTimer(m) /\ clearEmptySince(m)
         \/ startsTimer(m) /\ stampEmptySince(m)
  PROVE  m \in scaleDownEvents
  <1>1. members \in [Members -> MemberRecord] /\ now # None
    BY FleetAssumption DEF MembersTyped
  <1>2. CASE stopsTimer(m) /\ clearEmptySince(m)
    <2>1. members[m].emptySince # None
      BY <1>2, CachesCurrent DEF stopsTimer
    <2>2. members'[m].emptySince = None
      BY <1>1, <1>2 DEF clearEmptySince, MemberRecord
    <2> QED BY <2>1, <2>2 DEF scaleDownEvents, machineEvents
  <1>3. CASE startsTimer(m) /\ stampEmptySince(m)
    <2>1. members[m].emptySince = None
      BY <1>3, CachesCurrent DEF startsTimer
    <2>2. members'[m].emptySince = now
      BY <1>1, <1>3 DEF stampEmptySince, MemberRecord
    <2> QED BY <1>1, <2>1, <2>2 DEF scaleDownEvents, machineEvents
  <1> QED BY <1>2, <1>3

\* A pass that writes nothing and leaves an idle Machine is to run again: the
\* only ways out of reconcile without a timer are those of a Machine that is
\* not idle or already has its drain-now.
LEMMA IdlePassWaits ==
  ASSUME NEW m \in Members, ~ScaleDownWrites(m), keepsTimer(m), ~members[m].drainNow
  PROVE  scaleDownWaits(m) /\ ~decidesDrain(m)
  <1>1. ~startsTimer(m) /\ ~decidesDrain(m)
    BY DEF ScaleDownWrites
  <1>2. members[m].state = "Ready"
    BY CachesCurrent DEF keepsTimer
  <1>3. waitsForGuards(m)
    BY <1>2 DEF waitsForGuards, freshPoolState
  <1> QED BY <1>1, <1>3, CachesCurrent DEF scaleDownWaits

\* A pass over one Machine keeps all in sight.
LEMMA PassKeepsSight ==
  ASSUME DownAttended, MembersTyped', NEW m \in Members, ScaleDownPass(m)
  PROVE  DownAttended'
  <1>1. /\ drainFor = None
        /\ downQueue' = (downQueue \ {m}) \cup scaleDownEvents
        /\ downTimer \subseteq downTimer'
        /\ scaleDownWaits(m) /\ ~decidesDrain(m) => m \in downTimer'
    BY DEF ScaleDownPass, Enqueued, Timed
  <1>2. \A k \in Members \ {m} : k \in downQueue \cup downTimer => k \in downQueue' \cup downTimer'
    BY <1>1
  <1>3. ASSUME NEW k \in Members, k # m
        PROVE  /\ stopsTimer(k)' => k \in downQueue' \cup downTimer'
               /\ keepsTimer(k)' /\ ~members'[k].drainNow => k \in downQueue' \cup downTimer'
    <2>1. CASE k \in scaleDownEvents
      BY <1>1, <2>1
    <2>2. CASE k \notin scaleDownEvents
      <3>1. /\ members'[k] = members[k]
            /\ keepsTimer(k)' = keepsTimer(k)
            /\ stopsTimer(k)' = stopsTimer(k)
        BY <2>2, NoEventNoChange
      <3>2. k # None
        BY NobodyIsNone
      <3>3. stopsTimer(k) => k \in downQueue \cup downTimer
        BY DEF DownAttended, StopsAttended
      <3>4. keepsTimer(k) /\ ~members[k].drainNow => k \in downQueue \cup downTimer
        BY <1>1, <3>2 DEF DownAttended, IdleWatched
      <3> QED BY <1>2, <1>3, <3>1, <3>3, <3>4
    <2> QED BY <2>1, <2>2
  <1>4. CASE m \in scaleDownEvents
    <2>1. m \in downQueue'
      BY <1>1, <1>4
    <2> QED BY <1>3, <2>1 DEF DownAttended, StopsAttended, IdleWatched
  <1>5. CASE m \notin scaleDownEvents
    <2>1. /\ members'[m] = members[m]
          /\ keepsTimer(m)' = keepsTimer(m)
          /\ stopsTimer(m)' = stopsTimer(m)
      BY <1>5, NoEventNoChange
    <2>2. /\ ~stopsTimer(m)
          /\ keepsTimer(m) /\ ~members[m].drainNow => m \in downTimer' \cup {drainFor'}
      <3>1. CASE ScaleDownWrites(m)
        <4>1. idleLongEnough(m) /\ drainFor' = m
          BY <1>5, <3>1, TimerWriteIsEvent
             DEF ScaleDownPass, ScaleDownReconcile, triggerScaleDown, DownAttended
        <4> QED BY <4>1 DEF idleLongEnough, stopsTimer
      <3>2. CASE ~ScaleDownWrites(m)
        <4>1. ~stopsTimer(m)
          BY <3>2 DEF ScaleDownWrites
        <4> QED BY <1>1, <3>2, <4>1, IdlePassWaits
      <3> QED BY <3>1, <3>2
    <2> QED BY <1>3, <2>1, <2>2 DEF DownAttended, StopsAttended, IdleWatched
  <1> QED BY <1>4, <1>5

\* The worker lets go of a Machine once it carries the drain-now.
LEMMA RequestKeepsSight ==
  ASSUME DownAttended, MembersTyped', ScaleDownEnds
  PROVE  DownAttended'
  <1>1. /\ downQueue' = downQueue \cup scaleDownEvents /\ downTimer' = downTimer
        /\ members'[drainFor].drainNow
    BY DEF ScaleDownEnds, Enqueued
  <1>2. ASSUME NEW m \in Members
        PROVE  /\ stopsTimer(m)' => m \in downQueue' \cup downTimer'
               /\ keepsTimer(m)' /\ ~members'[m].drainNow => m \in downQueue' \cup downTimer'
    <2>1. CASE m \in scaleDownEvents
      BY <1>1, <2>1
    <2>2. CASE m \notin scaleDownEvents
      <3>1. /\ members'[m] = members[m]
            /\ keepsTimer(m)' = keepsTimer(m)
            /\ stopsTimer(m)' = stopsTimer(m)
        BY <2>2, NoEventNoChange
      <3> QED BY <1>1, <3>1 DEF DownAttended, StopsAttended, IdleWatched
    <2> QED BY <2>1, <2>2
  <1> QED BY <1>2 DEF DownAttended, StopsAttended, IdleWatched

\* When the drain-now cannot be written the Machine is back in the queue.
LEMMA FailureKeepsSight ==
  ASSUME DownAttended, MembersTyped', ScaleDownFails
  PROVE  DownAttended'
  <1>1. /\ downQueue' = downQueue \cup {drainFor} /\ downTimer' = downTimer
        /\ UNCHANGED <<poolSpec, members, exempt, bound>>
    BY DEF ScaleDownFails, podVars
  <1>2. \A m \in Members : /\ members'[m] = members[m]
                           /\ keepsTimer(m)' = keepsTimer(m)
                           /\ stopsTimer(m)' = stopsTimer(m)
    BY <1>1, NoWriteNoEvent, NoEventNoChange
  <1> QED BY <1>1, <1>2 DEF DownAttended, StopsAttended, IdleWatched

\* A process that starts queues every Machine.
LEMMA StartKeepsSight ==
  ASSUME MembersTyped', downQueue' = Members
  PROVE  DownAttended'
  BY DEF DownAttended, StopsAttended, IdleWatched

\* Every step keeps every Machine in scale-down's sight.
LEMMA NextKeepsSight ==
  ASSUME DownAttended, [Next]_vars
  PROVE  DownAttended'
  <1>0. MembersTyped'
    BY NextKeepsShape DEF DownAttended
  <1>1. CASE \E m \in Members : ScaleDownPass(m)
    BY <1>0, <1>1, PassKeepsSight
  <1>2. CASE ScaleDownEnds
    BY <1>0, <1>2, RequestKeepsSight
  <1>3. CASE ScaleDownFails
    BY <1>0, <1>3, FailureKeepsSight
  <1>4. CASE Restart
    BY <1>0, <1>4, StartKeepsSight DEF Restart
  <1>5. CASE /\ downQueue \cup downTimer \subseteq downQueue' \cup downTimer'
             /\ scaleDownEvents \subseteq downQueue'
             /\ drainFor' = drainFor
    BY <1>0, <1>5, QueueingKeepsSight
  <1>6. CASE \E m \in Members : DownTimerFires(m)
    <2>1. scaleDownEvents = {}
      BY <1>6, NoWriteNoEvent DEF DownTimerFires, Undisturbed, fleetVars, podVars
    <2> QED BY <1>5, <1>6, <2>1 DEF DownTimerFires, Undisturbed
  <1>7. CASE (\E p \in Pods : UpTimerFires(p)) \/ ScaleUpFails \/ UNCHANGED vars
    <2>1. scaleDownEvents = {}
      BY <1>7, NoWriteNoEvent
         DEF UpTimerFires, Undisturbed, ScaleUpFails, vars, fleetVars, podVars
    <2>2. UNCHANGED <<downQueue, downTimer, drainFor>>
      BY <1>7 DEF UpTimerFires, Undisturbed, ScaleUpFails, vars, queueVars
    <2> QED BY <1>5, <2>1, <2>2
  <1>8. CASE (\E p \in Pods : ScaleUpPass(p)) \/ ScaleUpEnds
    <2>1. /\ downQueue' = downQueue \cup scaleDownEvents
          /\ UNCHANGED <<downTimer, drainFor>>
      BY <1>8 DEF ScaleUpPass, ScaleUpEnds, Enqueued, Undisturbed
    <2> QED BY <1>5, <2>1
  <1>9. CASE (\E pool \in Pools : Rest(EditPolicy(pool))) \/ Rest(Others /\ UNCHANGED poolSpec)
    <2>1. /\ downQueue' = downQueue \cup scaleDownEvents
          /\ UNCHANGED <<downTimer, drainFor>>
      BY <1>9 DEF Rest, Watched, Enqueued
    <2> QED BY <1>5, <2>1
  <1> QED BY <1>1, <1>2, <1>3, <1>4, <1>6, <1>7, <1>8, <1>9 DEF Next

\* No Machine on which scale-down has something to write is ever forgotten: it
\* is in the queue, on a timer or in the worker's hands, whatever the pools,
\* the Machines and the pods, across failing calls, edits and restarts.
THEOREM IdleNeverForgotten == Spec => []IdleAttended
  <1>1. Init => DownAttended
    <2> SUFFICES ASSUME Init PROVE DownAttended
      OBVIOUS
    <2>1. MembersTyped
      BY InitialMembers DEF Init, FleetInit, MembersTyped
    <2>2. downQueue = Members
      BY DEF Init
    <2> QED BY <2>1, <2>2 DEF DownAttended, StopsAttended, IdleWatched
  <1>2. DownAttended /\ [Next]_vars => DownAttended'
    BY NextKeepsSight
  <1>3. DownAttended => IdleAttended
    <2> SUFFICES ASSUME DownAttended, NEW m \in Members, ScaleDownWrites(m)
                 PROVE  m \in downQueue \cup downTimer \cup {drainFor}
      BY DEF IdleAttended
    <2>1. CASE stopsTimer(m)
      BY <2>1 DEF DownAttended, StopsAttended
    <2>2. CASE startsTimer(m) \/ decidesDrain(m)
      <3>1. keepsTimer(m) /\ ~members[m].drainNow
        BY <2>2, CachesCurrent DEF startsTimer, decidesDrain, idleLongEnough
      <3> QED BY <3>1 DEF DownAttended, IdleWatched
    <2> QED BY <2>1, <2>2 DEF ScaleDownWrites
  <1> QED BY <1>1, <1>2, <1>3, PTL DEF Spec

-----------------------------------------------------------------------------
(* Scale-up.                                                               *)

\* The Machine a pass chooses is one, so that the worker is seen to hold it.
LEMMA WinnerIsSomebody ==
  ASSUME NEW p \in Pods, ScaleUpReconcile(p)
  PROVE  wakeFor' # None
  <1>1. candidates(p) \in SUBSET Members /\ candidates(p) # {}
    BY DEF ScaleUpReconcile, candidates
  <1>2. wakeFor' \in candidates(p)
    BY <1>1, WinnerIsCandidate DEF ScaleUpReconcile
  <1> QED BY <1>1, <1>2, NobodyIsNone

\* Every step keeps every unschedulable pod in scale-up's sight.
LEMMA NextKeepsPending ==
  ASSUME PendingWatched, [Next]_vars
  PROVE  PendingWatched'
  <1>1. CASE \E p \in Pods : ScaleUpPass(p)
    <2>1. PICK p \in Pods : ScaleUpPass(p)
      BY <1>1
    <2>2. /\ wakeFor = None /\ pending' = pending
          /\ upQueue' = (upQueue \ {p}) \cup unschedulablePodPredicate
      BY <2>1 DEF ScaleUpPass, ScaleUpReconcile, Enqueued, Undisturbed, fleetVars, podVars
    <2>3. CASE wakesFor(p)
      <3>1. wakePod' = p /\ upTimer' = upTimer /\ ScaleUpReconcile(p)
        BY <2>1, <2>3 DEF ScaleUpPass
      <3>2. wakeFor' # None
        BY <3>1, WinnerIsSomebody
      <3> QED BY <2>2, <3>1, <3>2 DEF PendingWatched
    <2>4. CASE ~wakesFor(p)
      <3>1. upTimer' = IF p \in pending THEN upTimer \cup {p} ELSE upTimer
        BY <2>1, <2>4 DEF ScaleUpPass, Timed, scaleUpWaits
      <3> QED BY <2>2, <3>1 DEF PendingWatched
    <2> QED BY <2>3, <2>4
  <1>2. CASE ScaleUpEnds
    <2>1. /\ upQueue' = upQueue \cup unschedulablePodPredicate
          /\ upTimer' = upTimer \cup {wakePod} /\ pending' = pending
      BY <1>2 DEF ScaleUpEnds, requestWake, Enqueued, podVars
    <2> QED BY <2>1 DEF PendingWatched
  <1>3. CASE ScaleUpFails
    BY <1>3 DEF ScaleUpFails, PendingWatched, podVars
  <1>4. CASE Restart
    BY <1>4 DEF Restart, PendingWatched, podVars
  <1>5. CASE /\ upQueue \cup upTimer \subseteq upQueue' \cup upTimer'
             /\ pending' \ pending \subseteq upQueue'
             /\ UNCHANGED <<wakeFor, wakePod>>
    BY <1>5 DEF PendingWatched
  <1>6. CASE (\E m \in Members : DownTimerFires(m)) \/ ScaleDownFails \/ UNCHANGED vars
    <2>1. UNCHANGED <<upQueue, upTimer, wakeFor, wakePod, pending>>
      BY <1>6 DEF DownTimerFires, ScaleDownFails, Undisturbed, vars, fleetVars, podVars, queueVars
    <2> QED BY <1>5, <2>1
  <1>7. CASE \E p \in Pods : UpTimerFires(p)
    <2>1. PICK p \in Pods : UpTimerFires(p)
      BY <1>7
    <2>2. /\ upQueue' = upQueue \cup {p} /\ upTimer' = upTimer \ {p}
          /\ UNCHANGED <<wakeFor, wakePod, pending>>
      BY <2>1 DEF UpTimerFires, Undisturbed, fleetVars, podVars
    <2> QED BY <1>5, <2>2
  <1>8. CASE \/ \E m \in Members : ScaleDownPass(m)
             \/ ScaleDownEnds
             \/ \E pool \in Pools : Rest(EditPolicy(pool))
             \/ Rest(Others /\ UNCHANGED poolSpec)
    <2>1. /\ upQueue' = upQueue \cup (pending' \ pending)
          /\ UNCHANGED <<upTimer, wakeFor, wakePod>>
      BY <1>8 DEF ScaleDownPass, ScaleDownEnds, Rest, Watched, Enqueued, Undisturbed,
                  unschedulablePodPredicate
    <2> QED BY <1>5, <2>1
  <1> QED BY <1>1, <1>2, <1>3, <1>4, <1>6, <1>7, <1>8 DEF Next

\* No unschedulable pod is ever forgotten, although no Machine or pool event
\* brings it back: its key goes from the queue to a timer or to the worker that
\* wakes a Machine for it, and back.
THEOREM PendingNeverForgotten == Spec => []PendingAttended
  <1>1. Init => PendingWatched
    BY DEF Init, PendingWatched
  <1>2. PendingWatched /\ [Next]_vars => PendingWatched'
    BY NextKeepsPending
  <1>3. PendingWatched => PendingAttended
    BY DEF PendingWatched, PendingAttended
  <1> QED BY <1>1, <1>2, <1>3, PTL DEF Spec

=============================================================================
