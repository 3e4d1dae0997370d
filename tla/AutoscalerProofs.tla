-------------------------- MODULE AutoscalerProofs --------------------------
(***************************************************************************)
(* Proofs about Autoscaler for every value of its constants: any number of *)
(* Machines, pools and pods, any policies, overlapping pools, with and     *)
(* without faults and lagging caches.                                      *)
(***************************************************************************)
EXTENDS Autoscaler, FleetProofs

-----------------------------------------------------------------------------
(* A pass of the MachineReconciler.                                        *)

\* Every Machine has been initialised, and the Node of an Off one does not run,
\* unless its host came up by itself.
OffIsDown ==
  \A m \in Members :
    members[m].state # "" /\ (members[m].state = "Off" => m \notin up \/ m \in wanted.others)

\* A pass never puts a Machine on its way down, and makes one count against the
\* cap only if its Node runs: all else begins with a trigger someone else sets.
LEMMA ReconcileStartsNothing ==
  ASSUME TypeOK, OffIsDown, NEW m \in Members, MachineReconcile(m)
  PROVE  /\ OnTheWayDown(m)' => OnTheWayDown(m)
         /\ OnIn(members, m)' => OnIn(members, m) \/ m \in up
         /\ members'[m].state # ""
         /\ members'[m].state = "Off" => m \notin up \/ m \in wanted.others
  <1>1. Lifecycle(m)!ControllerStep /\ up' = up
    BY DEF MachineReconcile
  <1>2. Justified(m, members'[m].state) /\ members'[m].state \in States
    BY ReconcileIsTyped DEF TypeOK, FleetTypeOK
  <1>3. /\ members[m].state # ""
        /\ members[m].state = "Off" => m \notin up \/ m \in wanted.others
        /\ members[m].state \in States
    BY DEF OffIsDown, TypeOK, FleetTypeOK, MemberRecord
  <1> USE DEF Lifecycle!ControllerStep, Lifecycle!Goes, Lifecycle!DropTrigger,
              Lifecycle!Declared, Lifecycle!Woken, Lifecycle!Adopted, Lifecycle!BootFailed,
              Lifecycle!DrainStarted, Lifecycle!NodeLost, Lifecycle!DrainEnded,
              Lifecycle!ShutdownEnded
  <1>4. OnTheWayDown(m)' => OnTheWayDown(m)
    BY <1>1 DEF OnTheWayDown
  <1>5. OnIn(members, m)' => OnIn(members, m) \/ m \in up
    BY <1>1, <1>2, <1>3 DEF OnIn, Justified
  <1>6. /\ members'[m].state # ""
        /\ members'[m].state = "Off" => m \notin up \/ m \in wanted.others
    BY <1>1, <1>2, <1>3 DEF Justified
  <1> QED BY <1>4, <1>5, <1>6

-----------------------------------------------------------------------------
(* What the steps do to the Machines.                                      *)

\* No Machine changes state, and triggers are set on the chosen ones only.
OnlyTriggers ==
  /\ members' \in [Members -> MemberRecord]
  /\ \A m \in Members :
       /\ members'[m].state = members[m].state
       /\ members'[m].drainNow => members[m].drainNow \/ m = drainFor
       /\ members'[m].wakeNow => members[m].wakeNow \/ m = wakeFor

\* A write of one field of a Machine.
LEMMA OneFieldWritten ==
  ASSUME members \in [Members -> MemberRecord], NEW m \in Members, NEW r \in MemberRecord,
         members' = [members EXCEPT ![m] = r],
         r.state = members[m].state,
         r.drainNow => members[m].drainNow \/ m = drainFor,
         r.wakeNow => members[m].wakeNow \/ m = wakeFor
  PROVE  OnlyTriggers
  <1>1. \A k \in Members : members'[k] = IF k = m THEN r ELSE members[k]
    OBVIOUS
  <1> QED BY <1>1 DEF OnlyTriggers

\* The steps that change the state of a Machine or its Node, and the others.
LEMMA StepsOfMembers ==
  ASSUME TypeOK, Next
  PROVE  \/ \E m \in Members : MachineReconcile(m)
         \/ \E m \in Members : HostBoots(m) \/ HostGoesDown(m) \/ HostIsLost(m) \/ HostReturns(m)
         \/ OnlyTriggers /\ up' = up
  <1>0. /\ members \in [Members -> MemberRecord] /\ now \in Nat
        /\ drainFor \in Members \cup {None} /\ wakeFor \in Members \cup {None}
    BY DEF TypeOK, FleetTypeOK
  <1>1. ASSUME members' = members PROVE OnlyTriggers
    BY <1>0, <1>1 DEF OnlyTriggers
  <1>2. CASE \E m \in Members : ScaleDownReconcile(m)
    <2>1. PICK m \in Members : ScaleDownReconcile(m)
      BY <1>2
    <2>2. CASE stampEmptySince(m) \/ clearEmptySince(m)
      <3>1. PICK t \in Time : members' = [members EXCEPT ![m] = [members[m] EXCEPT !.emptySince = t]]
        BY <1>0, <2>2 DEF stampEmptySince, clearEmptySince, Time
      <3>2. [members[m] EXCEPT !.emptySince = t] \in MemberRecord
        BY <1>0 DEF MemberRecord
      <3>3. OnlyTriggers
        BY <1>0, <3>1, <3>2, OneFieldWritten DEF MemberRecord
      <3> QED BY <2>1, <3>3 DEF ScaleDownReconcile
    <2> QED BY <1>1, <2>1, <2>2 DEF ScaleDownReconcile
  <1>3. CASE requestDrain
    <2>1. CASE members' = members
      BY <1>1, <1>3, <2>1 DEF requestDrain
    <2>2. CASE members' # members
      <3>1. /\ drainFor \in Members /\ up' = up
            /\ members' = [members EXCEPT ![drainFor] = [members[drainFor] EXCEPT !.drainNow = TRUE]]
        BY <1>0, <1>3, <2>2 DEF requestDrain
      <3>2. [members[drainFor] EXCEPT !.drainNow = TRUE] \in MemberRecord
        BY <1>0, <3>1 DEF MemberRecord
      <3> QED BY <1>0, <3>1, <3>2, OneFieldWritten DEF MemberRecord
    <2> QED BY <2>1, <2>2
  <1>4. CASE requestWake
    <2>1. CASE members' = members
      BY <1>1, <1>4, <2>1 DEF requestWake
    <2>2. CASE members' # members
      <3>1. /\ wakeFor \in Members /\ up' = up
            /\ members' = [members EXCEPT ![wakeFor] = [members[wakeFor] EXCEPT !.wakeNow = TRUE]]
        BY <1>0, <1>4, <2>2 DEF requestWake
      <3>2. [members[wakeFor] EXCEPT !.wakeNow = TRUE] \in MemberRecord
        BY <1>0, <3>1 DEF MemberRecord
      <3> QED BY <1>0, <3>1, <3>2, OneFieldWritten DEF MemberRecord
    <2> QED BY <2>1, <2>2
  <1>5. CASE \E m \in Members : PowerOnFails(m)
    <2>1. PICK m \in Members : PowerOnFails(m)
      BY <1>5
    <2>2. members' = [members EXCEPT ![m] = [members[m] EXCEPT !.powerOnFailed = TRUE]] /\ up' = up
      BY <1>0, <2>1 DEF PowerOnFails
    <2>3. [members[m] EXCEPT !.powerOnFailed = TRUE] \in MemberRecord
      BY <1>0 DEF MemberRecord
    <2> QED BY <1>0, <2>2, <2>3, OneFieldWritten DEF MemberRecord
  <1>6. CASE \E p \in Pods : ScaleUpReconcile(p)
    BY <1>1, <1>6 DEF ScaleUpReconcile
  <1>7. CASE \E pool \in Pools : NodePoolReconcile(pool)
    BY <1>1, <1>7 DEF NodePoolReconcile
  <1>8. CASE Surroundings
    BY <1>1, <1>5, <1>8 DEF Surroundings, Others, PodBinds, PodIsUnschedulable, PodLeaves,
                            ToggleExemption, Tick, SyncMembers, SyncPools
  <1> QED BY <1>2, <1>3, <1>4, <1>6, <1>7, <1>8 DEF Next, ScaleDownStep, ScaleUpStep

\* A step keeps the Machines' shape.  A Machine gets on its way down only as
\* the one scale-down chose, and counts against the cap only as the one
\* scale-up chose or because its host is up.
LEMMA StepStartsOnlyTheChosen ==
  ASSUME TypeOK, OffIsDown, Next
  PROVE  /\ members' \in [Members -> MemberRecord]
         /\ \A m \in Members :
              /\ OnTheWayDown(m)' => OnTheWayDown(m) \/ m = drainFor
              /\ OnIn(members, m)' => OnIn(members, m) \/ m = wakeFor \/ m \in up'
         /\ OffIsDown'
  <1>0. /\ members \in [Members -> MemberRecord] /\ up \subseteq Members
        /\ wanted.others \subseteq wanted'.others
        /\ {m \in up' \ up : members[m].state # "Booting"} \subseteq wanted'.others
    BY DEF TypeOK, FleetTypeOK, Next, History, CameUpByThemselves
  <1>1. CASE \E m \in Members : MachineReconcile(m)
    <2>1. PICK m \in Members : MachineReconcile(m)
      BY <1>1
    <2>2. up' = up
      BY <2>1 DEF MachineReconcile
    <2>3. /\ members' \in [Members -> MemberRecord]
          /\ \A k \in Members \ {m} : members'[k] = members[k]
      BY <2>1, ReconcileIsTyped DEF TypeOK, FleetTypeOK
    <2>4. /\ OnTheWayDown(m)' => OnTheWayDown(m)
          /\ OnIn(members, m)' => OnIn(members, m) \/ m \in up
          /\ members'[m].state # ""
          /\ members'[m].state = "Off" => m \notin up \/ m \in wanted.others
      BY <2>1, ReconcileStartsNothing
    <2>5. \A k \in Members \ {m} :
             /\ OnTheWayDown(k)' => OnTheWayDown(k)
             /\ OnIn(members, k)' => OnIn(members, k)
      BY <2>2, <2>3 DEF OnTheWayDown, OnIn
    <2>6. OffIsDown'
      BY <1>0, <2>2, <2>3, <2>4 DEF OffIsDown
    <2> QED BY <2>2, <2>3, <2>4, <2>5, <2>6
  <1>2. CASE \E m \in Members : HostBoots(m) \/ HostGoesDown(m) \/ HostIsLost(m) \/ HostReturns(m)
    <2>1. members' = members
      BY <1>2 DEF HostBoots, HostGoesDown, HostIsLost, HostReturns, HostChanges
    <2>2. \A m \in Members : OnIn(members, m)' => OnIn(members, m) \/ m \in up'
      BY <2>1 DEF OnIn
    <2>3. OffIsDown'
      BY <1>0, <2>1 DEF OffIsDown
    <2> QED BY <1>0, <2>1, <2>2, <2>3 DEF OnTheWayDown
  <1>3. CASE OnlyTriggers /\ up' = up
    BY <1>0, <1>3 DEF OnlyTriggers, OnTheWayDown, OnIn, OffIsDown
  <1> QED BY <1>1, <1>2, <1>3, StepsOfMembers

-----------------------------------------------------------------------------
(* The two choices.                                                        *)

\* A drain is decided by one pass, which passed the guards of the one pool
\* that selects the Machine and stamped it.
LEMMA DrainIsDecided ==
  ASSUME Next, NEW pool \in Pools, DecidesDrain(pool)
  PROVE  /\ mayDrain(drainFor', pool)
         /\ stampScaleDown(pool)
         /\ poolsOf(drainFor') = {pool}
         /\ members' = members
  <1>1. drainFor = None /\ drainFor' # None /\ drainFor' \in Selects[pool]
    BY NobodyIsNone DEF DecidesDrain
  <1>2. PICK m \in Members : idleLongEnough(m) /\ triggerScaleDown(m) /\ members' = members
    BY <1>1 DEF Next, ScaleDownStep, ScaleDownReconcile, requestDrain
  <1>3. PICK q \in Pools : poolsOf(m) = {q}
    BY <1>2 DEF idleLongEnough, keepsTimer, consolidateAfter
  <1>4. drainFor' = m /\ mayDrain(m, q) /\ stampScaleDown(q)
    BY <1>2, <1>3 DEF triggerScaleDown
  <1>5. q = pool
    BY <1>1, <1>3, <1>4 DEF poolsOf
  <1> QED BY <1>2, <1>3, <1>4, <1>5

\* A wake is chosen by one pass, which found the pool below its cap.
LEMMA WakeIsChosen ==
  ASSUME Next, NEW pool \in Pools, wakeFor = None, wakeFor' \in Selects[pool]
  PROVE  ~poolAtCap(pool) /\ members' = members /\ up' = up
  <1>1. wakeFor' # None
    BY NobodyIsNone
  <1>2. PICK p \in Pods : ScaleUpReconcile(p)
    BY <1>1 DEF Next, ScaleUpStep, requestWake
  <1>3. candidates(p) \in SUBSET Members /\ candidates(p) # {}
    BY <1>2 DEF ScaleUpReconcile, candidates
  <1>4. wakeFor' \in candidates(p)
    BY <1>2, <1>3, WinnerIsCandidate DEF ScaleUpReconcile
  <1> QED BY <1>2, <1>4 DEF candidates, ScaleUpReconcile

\* The status of a pool keeps its shape, and its last power-off moves to now
\* with a decision and with nothing else: the count of Ready Machines is
\* written over a copy that is current.
LEMMA StepsOfPools ==
  ASSUME TypeOK, Next
  PROVE  /\ pools' \in [Pools -> PoolStatus]
         /\ \A pool \in Pools :
              pools'[pool].lastScaleDown =
                IF DecidesDrain(pool) THEN now ELSE pools[pool].lastScaleDown
  <1>0. /\ pools \in [Pools -> PoolStatus] /\ now \in Nat /\ now \in Time
        /\ members \in [Members -> MemberRecord] /\ memberCache \in [Members -> MemberRecord]
    BY DEF TypeOK, FleetTypeOK, Time
  <1>1. CASE \E pool \in Pools : DecidesDrain(pool)
    <2>1. PICK q \in Pools : DecidesDrain(q)
      BY <1>1
    <2>2. stampScaleDown(q) /\ poolsOf(drainFor') = {q}
      BY <2>1, DrainIsDecided
    <2>3. \A pool \in Pools : DecidesDrain(pool) <=> pool = q
      BY <2>1, <2>2 DEF DecidesDrain, poolsOf
    <2>4. pools' = [pools EXCEPT ![q].lastScaleDown = now]
      BY <2>2 DEF stampScaleDown
    <2>5. pools' \in [Pools -> PoolStatus]
      BY <1>0, <2>4 DEF PoolStatus
    <2>6. \A pool \in Pools :
             pools'[pool].lastScaleDown = IF pool = q THEN now ELSE pools[pool].lastScaleDown
      BY <1>0, <2>4 DEF PoolStatus
    <2> QED BY <2>3, <2>5, <2>6
  <1>2. CASE ~\E pool \in Pools : DecidesDrain(pool)
    <2>0. SUFFICES /\ pools' \in [Pools -> PoolStatus]
                   /\ \A pool \in Pools : pools'[pool].lastScaleDown = pools[pool].lastScaleDown
      BY <1>2
    <2>1. CASE pools' = pools
      BY <1>0, <2>1
    <2>2. CASE \E m \in Members : stampScaleUp(m)
      <3>1. PICK m \in Members : stampScaleUp(m)
        BY <2>2
      <3>2. \A pool \in Pools :
              /\ [pools[pool] EXCEPT !.lastScaleUp = now] \in PoolStatus
              /\ [pools[pool] EXCEPT !.lastScaleUp = now].lastScaleDown = pools[pool].lastScaleDown
        BY <1>0 DEF PoolStatus
      <3> QED BY <1>0, <3>1, <3>2 DEF stampScaleUp
    <2>3. CASE \E pool \in Pools : NodePoolReconcile(pool)
      <3>1. PICK q \in Pools : NodePoolReconcile(q)
        BY <2>3
      <3>2. pools' = [pools EXCEPT ![q] = [pools[q] EXCEPT !.ready = countMembers(q)]]
        BY <3>1 DEF NodePoolReconcile, statusIsCurrent
      <3>3. countMembers(q) \in Nat
        BY PoolIsFinite DEF countMembers
      <3>4. /\ [pools[q] EXCEPT !.ready = countMembers(q)] \in PoolStatus
            /\ [pools[q] EXCEPT !.ready = countMembers(q)].lastScaleDown = pools[q].lastScaleDown
        BY <1>0, <3>3 DEF PoolStatus
      <3> QED BY <1>0, <3>2, <3>4
    <2>4. CASE ScaleDownStep
      <3>1. CASE requestDrain
        BY <2>1, <3>1 DEF requestDrain
      <3>2. CASE \E m \in Members : ScaleDownReconcile(m)
        <4>1. PICK m \in Members : ScaleDownReconcile(m)
          BY <3>2
        <4>2. ~triggerScaleDown(m)
          BY <1>2, <4>1 DEF ScaleDownReconcile, triggerScaleDown, DecidesDrain, poolsOf
        <4> QED BY <2>1, <4>1, <4>2 DEF ScaleDownReconcile
      <3> QED BY <2>4, <3>1, <3>2 DEF ScaleDownStep
    <2>5. CASE ScaleUpStep
      <3>1. CASE requestWake
        BY <2>1, <3>1 DEF requestWake
      <3>2. CASE \E p \in Pods : ScaleUpReconcile(p)
        <4>1. PICK p \in Pods : ScaleUpReconcile(p)
          BY <3>2
        <4>2. smallestCandidate(candidates(p)) \in Members
          BY <4>1, WinnerIsCandidate DEF ScaleUpReconcile, candidates
        <4> QED BY <2>2, <4>1, <4>2 DEF ScaleUpReconcile
      <3> QED BY <2>5, <3>1, <3>2 DEF ScaleUpStep
    <2>6. CASE Surroundings
      BY <2>1, <2>6 DEF Surroundings, Others, PodBinds, PodIsUnschedulable, PodLeaves,
                   MachineReconcile, HostBoots, HostGoesDown, HostIsLost, HostReturns, HostChanges,
                   PowerOnFails, ToggleExemption, Tick, SyncMembers, SyncPools
    <2> QED BY <2>3, <2>4, <2>5, <2>6 DEF Next
  <1> QED BY <1>1, <1>2

-----------------------------------------------------------------------------
(* The theorems.                                                           *)

\* The first state is typed, and what is Off in it is down.
LEMMA InitIsTyped ==
  ASSUME Init
  PROVE  TypeOK /\ OffIsDown
  <1>1. /\ poolSpec \in [Pools -> Policies] /\ now = 0 /\ up \subseteq Members
        /\ memberCache = members /\ exempt = {} /\ pending = {}
        /\ bound = [p \in Pods |-> None] /\ poolCache = pools /\ moves = 0
        /\ pools = [pool \in Pools |-> [lastScaleUp |-> None, lastScaleDown |-> None, ready |-> 0]]
        /\ drainFor = None /\ wakeFor = None
        /\ decided = [pool \in Pools |-> None]
        /\ wanted = [pods |-> {}, others |-> {m \in Members : members[m].state = "Booting"}]
        /\ excess = [pool \in Pools |-> 0]
    BY DEF Init, FleetInit
  <1>2. PICK booting \in SUBSET (Members \ up) :
          /\ members \in [Members -> MemberRecord]
          /\ \A m \in Members : members[m].state = CASE m \in up -> "Ready"
                                                    [] m \in booting -> "Booting"
                                                    [] OTHER -> "Off"
    BY InitialMembers DEF Init
  <1>3. \A m \in Members : members[m].state # "" /\ (members[m].state = "Off" => m \notin up)
    BY <1>2
  <1>4. pools \in [Pools -> PoolStatus]
    BY <1>1 DEF PoolStatus, Time
  <1>5. FleetTypeOK
    BY <1>1, <1>2, <1>4 DEF FleetTypeOK
  <1> QED BY <1>1, <1>3, <1>5 DEF TypeOK, OffIsDown, Time

\* What exceeds a limit is a number, and grows with what is counted.
LEMMA OverCounts ==
  ASSUME NEW cap \in Limit, NEW n \in Nat
  PROVE  /\ Over(n, cap) \in Nat
         /\ cap \in Nat /\ n <= cap => Over(n, cap) = 0
         /\ cap \in Nat => n <= cap + Over(n, cap)
         /\ cap \notin Nat => Over(n, cap) = 0
         /\ \A k \in Nat : k <= n => Over(k, cap) <= Over(n, cap)
  BY FleetAssumption DEF Over, Limit

\* What is on in a pool is a number of its Machines, and its cap a limit.
LEMMA PoolCounts ==
  ASSUME poolSpec \in [Pools -> Policies], poolSpec' = poolSpec, NEW pool \in Pools
  PROVE  /\ poolSpec[pool].maxNodes \in Limit
         /\ Cardinality(On(pool)) \in Nat /\ Cardinality(On(pool)') \in Nat
         /\ Beyond(pool) = Over(Cardinality(On(pool)), poolSpec[pool].maxNodes)
         /\ Beyond(pool)' = Over(Cardinality(On(pool)'), poolSpec[pool].maxNodes)
         /\ Beyond(pool) \in Nat /\ Beyond(pool)' \in Nat
  <1>1. poolSpec[pool] \in PoolPolicy
    BY FleetAssumption
  <1>2. poolSpec[pool].maxNodes \in Limit
    BY <1>1 DEF PoolPolicy
  <1>3. On(pool) \in SUBSET Selects[pool] /\ On(pool)' \in SUBSET Selects[pool]
    BY DEF On
  <1>4. Cardinality(On(pool)) \in Nat /\ Cardinality(On(pool)') \in Nat
    BY <1>3, PoolIsFinite
  <1>5. /\ Beyond(pool) = Over(Cardinality(On(pool)), poolSpec[pool].maxNodes)
        /\ Beyond(pool)' = Over(Cardinality(On(pool)'), poolSpec[pool].maxNodes)
    BY DEF Beyond
  <1> QED BY <1>2, <1>4, <1>5, OverCounts

\* Every step keeps both.
LEMMA NextIsTyped ==
  ASSUME TypeOK, OffIsDown, Next
  PROVE  TypeOK' /\ OffIsDown'
  <1>0. FleetTypeOK
    BY DEF TypeOK
  <1>1. members' \in [Members -> MemberRecord] /\ OffIsDown'
    BY StepStartsOnlyTheChosen
  <1>2. pools' \in [Pools -> PoolStatus]
    BY StepsOfPools
  <1>3. poolSpec' \in [Pools -> Policies]
    BY <1>0 DEF Next, FleetTypeOK
  <1>4. /\ now' \in Nat /\ up' \subseteq Members /\ exempt' \subseteq Members
        /\ pending' \subseteq Pods /\ bound' \in [Pods -> Members \cup {None}]
        /\ memberCache' \in [Members -> MemberRecord] /\ poolCache' \in [Pools -> PoolStatus]
        /\ moves' \in Nat
    <2> USE DEF FleetTypeOK, podVars
    <2>1. CASE ScaleDownStep
      BY <1>0, <2>1 DEF ScaleDownStep, ScaleDownReconcile, requestDrain
    <2>2. CASE ScaleUpStep
      BY <1>0, <2>2 DEF ScaleUpStep, ScaleUpReconcile, requestWake
    <2>3. CASE \E pool \in Pools : NodePoolReconcile(pool)
      BY <1>0, <2>3 DEF NodePoolReconcile
    <2>4. CASE \E p \in Pods : PodBinds(p) \/ PodIsUnschedulable(p) \/ PodLeaves(p)
      BY <1>0, <2>4 DEF PodBinds, PodIsUnschedulable, PodLeaves
    <2>5. CASE \E m \in Members : MachineReconcile(m)
      BY <1>0, <2>5 DEF MachineReconcile
    <2>6. CASE \E m \in Members : HostBoots(m) \/ HostGoesDown(m) \/ HostIsLost(m) \/ HostReturns(m)
      BY <1>0, <2>6 DEF HostBoots, HostGoesDown, HostIsLost, HostReturns, HostChanges, Moving
    <2>7. CASE \E m \in Members : PowerOnFails(m) \/ ToggleExemption(m)
      BY <1>0, <2>7 DEF PowerOnFails, ToggleExemption, Moving
    <2>8. CASE Tick \/ SyncMembers \/ SyncPools
      BY <1>0, <2>8 DEF Tick, SyncMembers, SyncPools
    <2> QED BY <2>1, <2>2, <2>3, <2>4, <2>5, <2>6, <2>7, <2>8 DEF Next, Surroundings, Others
  <1>5. drainFor' \in Members \cup {None}
    BY DEF TypeOK, Next, ScaleDownStep, ScaleDownReconcile, requestDrain, triggerScaleDown
  <1>6. wakeFor' \in Members \cup {None}
    <2>1. \A p \in Pods : candidates(p) # {} => smallestCandidate(candidates(p)) \in Members
      BY WinnerIsCandidate DEF candidates
    <2> QED BY <2>1 DEF TypeOK, Next, ScaleUpStep, ScaleUpReconcile, requestWake
  <1>7. decided' \in [Pools -> Time]
    <2>1. now \in Time /\ decided \in [Pools -> Time]
      BY <1>0 DEF TypeOK, FleetTypeOK, Time
    <2> QED BY <2>1 DEF Next, History
  <1>8. wanted' \in [pods: SUBSET Pods, others: SUBSET Members]
    BY <1>4 DEF TypeOK, Next, History, CameUpByThemselves, ChosenUnseen
  <1>10. excess' \in [Pools -> Nat]
    <2>1. \A pool \in Pools : Beyond(pool)' \in Nat
      BY <1>0, PoolCounts DEF Next, FleetTypeOK
    <2>2. excess \in [Pools -> Nat]
      BY DEF TypeOK
    <2> QED BY <2>1, <2>2 DEF Next, History
  <1>9. FleetTypeOK'
    BY <1>1, <1>2, <1>3, <1>4 DEF FleetTypeOK
  <1> QED BY <1>1, <1>5, <1>6, <1>7, <1>8, <1>9, <1>10 DEF TypeOK

\* Every object keeps the shape the API gives it, whatever the reconcilers,
\* the scheduler and the hosts do.
THEOREM TypesHold == Spec => []TypeOK
  <1>1. Init => TypeOK /\ OffIsDown
    BY InitIsTyped
  <1>2. TypeOK /\ OffIsDown /\ [Next]_vars => TypeOK' /\ OffIsDown'
    <2>1. CASE UNCHANGED vars
      BY <2>1 DEF vars, fleetVars, podVars, TypeOK, FleetTypeOK, OffIsDown
    <2> QED BY <2>1, NextIsTyped
  <1> QED BY <1>1, <1>2, PTL DEF Spec

\* The Machines of a pool that are on their way down or about to be.
Down(pool) == {m \in Selects[pool] : OnTheWayDown(m) \/ m = drainFor}

\* PacedDrains is not inductive: the pass that decided a drain has still to
\* write it.
DrainsPaced == \A pool \in Pools : Cardinality(Down(pool)) <= maxConcurrent(pool)

\* An unset maxConcurrent is one; any other is a number.
LEMMA MaxConcurrentIsNat ==
  ASSUME TypeOK, NEW pool \in Pools
  PROVE  maxConcurrent(pool) \in Nat
  <1>1. poolSpec[pool] \in PoolPolicy
    BY FleetAssumption DEF TypeOK, FleetTypeOK
  <1> QED BY <1>1 DEF PoolPolicy, Limit, maxConcurrent

\* A decision adds one Machine where the guard left room; nothing else adds any.
LEMMA NextKeepsPace ==
  ASSUME TypeOK, OffIsDown, DrainsPaced, Next
  PROVE  DrainsPaced'
  <1> SUFFICES ASSUME NEW pool \in Pools
               PROVE  Cardinality(Down(pool)') <= maxConcurrent(pool)
    BY DEF DrainsPaced, maxConcurrent, Next
  <1>1. maxConcurrent(pool) \in Nat
    BY MaxConcurrentIsNat
  <1>2. CASE DecidesDrain(pool)
    <2>1. mayDrain(drainFor', pool) /\ members' = members /\ drainFor' \in Selects[pool]
      BY <1>2, DrainIsDecided DEF DecidesDrain
    <2>2. scalingDown(pool) \in SUBSET Selects[pool]
      BY DEF scalingDown
    <2>3. Down(pool)' = scalingDown(pool) \cup {drainFor'}
      BY <2>1 DEF Down, OnTheWayDown, scalingDown, isScalingDown, freshPoolState
    <2>4. Cardinality(scalingDown(pool)) < maxConcurrent(pool)
      BY <2>1 DEF mayDrain
    <2>5. Cardinality(scalingDown(pool)) \in Nat /\ Cardinality(Down(pool)') \in Nat
      BY <2>2, PoolIsFinite DEF Down
    <2>6. Cardinality(Down(pool)') <= Cardinality(scalingDown(pool)) + 1
      BY <2>1, <2>2, <2>3, OneMoreCounts
    <2> QED BY <1>1, <2>4, <2>5, <2>6
  <1>3. CASE ~DecidesDrain(pool)
    <2>1. \A m \in Members : OnTheWayDown(m)' => OnTheWayDown(m) \/ m = drainFor
      BY StepStartsOnlyTheChosen
    <2>2. drainFor' = drainFor \/ drainFor' \notin Selects[pool]
      BY <1>3, NobodyIsNone DEF Next, ScaleDownStep, ScaleDownReconcile, requestDrain, DecidesDrain
    <2>3. Down(pool)' \in SUBSET Down(pool) /\ Down(pool) \in SUBSET Selects[pool]
      BY <2>1, <2>2, NobodyIsNone DEF Down
    <2>4. Cardinality(Down(pool)') <= Cardinality(Down(pool)) /\ Cardinality(Down(pool)) \in Nat
          /\ Cardinality(Down(pool)') \in Nat
      BY <2>3, PoolIsFinite
    <2> QED BY <1>1, <2>4 DEF DrainsPaced
  <1> QED BY <1>2, <1>3

\* No pool ever has more Machines on their way down than maxConcurrent, for
\* any number of Machines and pools, any policy, and caches of any age.
THEOREM PaceHolds == Spec => []PacedDrains
  <1> DEFINE IInv == TypeOK /\ OffIsDown /\ DrainsPaced
  <1>1. Init => IInv
    <2> SUFFICES ASSUME Init PROVE IInv
      OBVIOUS
    <2>1. TypeOK /\ OffIsDown
      BY InitIsTyped
    <2>2. drainFor = None /\ \A m \in Members : ~OnTheWayDown(m)
      BY InitialMembers DEF Init, OnTheWayDown
    <2>3. \A pool \in Pools : Down(pool) = {}
      BY <2>2, NobodyIsNone DEF Down
    <2>4. \A pool \in Pools : Cardinality(Down(pool)) = 0
      BY <2>3, FS_EmptySet
    <2> QED BY <2>1, <2>4, MaxConcurrentIsNat DEF DrainsPaced
  <1>2. IInv /\ [Next]_vars => IInv'
    <2>1. CASE UNCHANGED vars
      BY <2>1 DEF vars, fleetVars, podVars, TypeOK, FleetTypeOK, OffIsDown, DrainsPaced,
                  Down, OnTheWayDown, maxConcurrent
    <2> QED BY <2>1, NextIsTyped, NextKeepsPace
  <1>3. IInv => PacedDrains
    <2> SUFFICES ASSUME IInv, NEW pool \in Pools
                 PROVE  Cardinality({m \in Selects[pool] : OnTheWayDown(m)}) <= maxConcurrent(pool)
      BY DEF PacedDrains
    <2>1. {m \in Selects[pool] : OnTheWayDown(m)} \in SUBSET Down(pool)
          /\ Down(pool) \in SUBSET Selects[pool]
      BY DEF Down
    <2>2. /\ Cardinality({m \in Selects[pool] : OnTheWayDown(m)}) \in Nat
          /\ Cardinality(Down(pool)) \in Nat
          /\ Cardinality({m \in Selects[pool] : OnTheWayDown(m)}) <= Cardinality(Down(pool))
      BY <2>1, PoolIsFinite
    <2> QED BY <2>2, MaxConcurrentIsNat DEF DrainsPaced
  <1> QED BY <1>1, <1>2, <1>3, PTL DEF Spec

\* The anchor of the cooldown is the last decision: no writer of the status
\* takes it back.
AnchorIsLastDecision ==
  \A pool \in Pools : decided[pool] # None => pools[pool].lastScaleDown = decided[pool]

\* Two power-off decisions in a pool are cooldown.scaleDown apart, although
\* the NodePool reconciler writes the whole status from a cached copy.
THEOREM SpacingHolds == Spec => DrainsSpaced
  <1> DEFINE IInv == TypeOK /\ OffIsDown /\ AnchorIsLastDecision
             Spaced == \A pool \in Pools :
                         DecidesDrain(pool) /\ decided[pool] # None /\ poolSpec[pool].scaleDown # None =>
                           now >= decided[pool] + poolSpec[pool].scaleDown
  <1>1. Init => IInv
    <2> SUFFICES ASSUME Init PROVE IInv
      OBVIOUS
    <2>1. AnchorIsLastDecision
      BY DEF Init, AnchorIsLastDecision
    <2> QED BY <2>1, InitIsTyped
  <1>2. IInv /\ [Next]_vars => IInv'
    <2>1. CASE UNCHANGED vars
      BY <2>1 DEF vars, fleetVars, podVars, TypeOK, FleetTypeOK, OffIsDown, AnchorIsLastDecision
    <2>2. ASSUME IInv, Next PROVE AnchorIsLastDecision'
      <3>1. \A pool \in Pools :
              decided'[pool] = IF DecidesDrain(pool) THEN now ELSE decided[pool]
        BY <2>2 DEF Next, History
      <3>2. \A pool \in Pools :
              pools'[pool].lastScaleDown =
                IF DecidesDrain(pool) THEN now ELSE pools[pool].lastScaleDown
        BY <2>2, StepsOfPools
      <3> QED BY <2>2, <3>1, <3>2 DEF AnchorIsLastDecision
    <2> QED BY <2>1, <2>2, NextIsTyped
  <1>3. IInv /\ [Next]_vars => [Spaced]_vars
    <2> SUFFICES ASSUME IInv, Next, NEW pool \in Pools, DecidesDrain(pool),
                        decided[pool] # None, poolSpec[pool].scaleDown # None
                 PROVE  now >= decided[pool] + poolSpec[pool].scaleDown
      OBVIOUS
    <2>1. poolSpec[pool] \in PoolPolicy /\ decided[pool] \in Time /\ now \in Nat
      BY FleetAssumption DEF TypeOK, FleetTypeOK
    <2>2. decided[pool] \in Nat /\ poolSpec[pool].scaleDown \in Nat
      BY <2>1 DEF PoolPolicy, Limit, Time
    <2>3. ~coolingDown(pool)
      BY DrainIsDecided DEF mayDrain
    <2>4. pools[pool].lastScaleDown = decided[pool]
      BY DEF AnchorIsLastDecision
    <2>5. ~(now < decided[pool] + poolSpec[pool].scaleDown)
      BY <2>3, <2>4 DEF coolingDown
    <2> QED BY <2>1, <2>2, <2>5
  <1>4. DrainsSpaced <=> [][Spaced]_vars
    BY DEF DrainsSpaced
  <1> HIDE DEF Spaced
  <1> QED BY <1>1, <1>2, <1>3, <1>4, PTL DEF Spec

\* CapHeld is not inductive either: the wake chosen has still to be written.
CapKept == \A pool \in Pools : Beyond(pool) <= excess[pool]

\* Where every Machine that is on is seen, a choice adds one where the cap left
\* room.
LEMMA ChoiceKeepsCap ==
  ASSUME TypeOK, CapKept, Next, NEW pool \in Pools, ~Unrefusable(pool),
         wakeFor = None, wakeFor' \in Selects[pool]
  PROVE  Beyond(pool)' <= excess[pool]
  <1> DEFINE S == {m \in Selects[pool] : OnIn(members, m)}
             Seen == {m \in Selects[pool] : countsAgainstCap(CachedMembers, m)}
             cap == poolSpec[pool].maxNodes
  <1>1. ~poolAtCap(pool) /\ members' = members /\ up' = up
    BY WakeIsChosen
  <1>2. On(pool) = S /\ On(pool)' = S \cup {wakeFor'}
    BY <1>1, NobodyIsNone DEF On, OnIn
  <1>3. /\ cap \in Limit /\ Beyond(pool)' = Over(Cardinality(On(pool)'), cap)
        /\ Beyond(pool) = Over(Cardinality(On(pool)), cap)
        /\ Cardinality(On(pool)') \in Nat /\ excess[pool] \in Nat
    BY PoolCounts DEF TypeOK, FleetTypeOK, Next
  <1>4. CASE wakeFor' \in S
    <2>1. On(pool)' = On(pool)
      BY <1>2, <1>4
    <2> QED BY <1>3, <2>1 DEF CapKept
  <1>5. CASE cap \notin Nat
    BY <1>3, <1>5, OverCounts
  <1>6. CASE wakeFor' \notin S /\ cap \in Nat
    <2>1. wakeFor' \in On(pool)' \ On(pool)
      BY <1>2, <1>6
    <2>2. ~\E k \in Selects[pool] : OnIn(members, k) /\ ~OnIn(CachedMembers, k)
      BY <2>1 DEF Unrefusable
    <2>3. S \in SUBSET Seen /\ Seen \in SUBSET Selects[pool]
      BY <2>2 DEF OnIn, countsAgainstCap, isActive
    <2>4. ~(Cardinality(Seen) >= cap)
      BY <1>1, <1>6, FleetAssumption DEF poolAtCap
    <2>5. S \in SUBSET Selects[pool] /\ On(pool)' \in SUBSET Selects[pool]
      BY DEF On
    <2> HIDE DEF S, Seen
    <2>6. /\ Cardinality(S) \in Nat /\ Cardinality(Seen) \in Nat
          /\ Cardinality(S) <= Cardinality(Seen)
      BY <2>3, <2>5, PoolIsFinite
    <2>7. Cardinality(On(pool)') <= Cardinality(S) + 1
      BY <1>2, <2>5, OneMoreCounts
    <2>8. Cardinality(On(pool)') <= cap
      BY <1>3, <1>6, <2>4, <2>6, <2>7
    <2> QED BY <1>3, <1>6, <2>8, OverCounts
  <1> QED BY <1>4, <1>5, <1>6

\* Nothing else adds a Machine but a host that came up.
LEMMA NextKeepsCap ==
  ASSUME TypeOK, OffIsDown, CapKept, Next
  PROVE  CapKept'
  <1> SUFFICES ASSUME NEW pool \in Pools PROVE Beyond(pool)' <= excess'[pool]
    BY DEF CapKept
  <1>1. /\ poolSpec[pool].maxNodes \in Limit
        /\ Cardinality(On(pool)) \in Nat /\ Cardinality(On(pool)') \in Nat
        /\ Beyond(pool) = Over(Cardinality(On(pool)), poolSpec[pool].maxNodes)
        /\ Beyond(pool)' = Over(Cardinality(On(pool)'), poolSpec[pool].maxNodes)
        /\ Beyond(pool) \in Nat /\ Beyond(pool)' \in Nat /\ excess[pool] \in Nat
    BY PoolCounts DEF TypeOK, FleetTypeOK, Next
  <1>2. Unrefusable(pool) \/ Beyond(pool)' <= excess[pool] => excess'[pool] = Beyond(pool)'
    BY DEF Next, History
  <1>3. CASE Unrefusable(pool)
    BY <1>1, <1>2, <1>3
  <1>4. CASE ~Unrefusable(pool) /\ wakeFor = None /\ wakeFor' \in Selects[pool]
    BY <1>1, <1>2, <1>4, ChoiceKeepsCap
  <1>5. CASE ~Unrefusable(pool) /\ ~(wakeFor = None /\ wakeFor' \in Selects[pool])
    <2>1. \A m \in Members : OnIn(members, m)' => OnIn(members, m) \/ m = wakeFor \/ m \in up'
      BY StepStartsOnlyTheChosen
    <2>2. wakeFor' = wakeFor \/ wakeFor' \notin Selects[pool]
      BY <1>5, NobodyIsNone DEF Next, ScaleUpStep, ScaleUpReconcile, requestWake
    <2>3. \A m \in On(pool)' \ On(pool) : m # wakeFor' /\ m \in up'
      BY <2>1, <2>2, NobodyIsNone DEF On
    <2>4. On(pool)' \in SUBSET On(pool) /\ On(pool) \in SUBSET Selects[pool]
      BY <1>5, <2>3 DEF On, Unrefusable
    <2>5. Cardinality(On(pool)') <= Cardinality(On(pool))
      BY <2>4, PoolIsFinite
    <2>6. Beyond(pool)' <= Beyond(pool)
      BY <1>1, <2>5, OverCounts
    <2>7. Beyond(pool)' <= excess[pool]
      BY <1>1, <2>6 DEF CapKept
    <2> QED BY <1>1, <1>2, <2>7
  <1> QED BY <1>3, <1>4, <1>5

\* No pool ever has more Machines powered on, or asked to be, than maxNodes and
\* what scale-up could not refuse, with hosts lost and back, power-ons refused,
\* drains under way, for lists of Machines of any age.
THEOREM CapHolds == Spec => []CapHeld
  <1> DEFINE IInv == TypeOK /\ OffIsDown /\ CapKept
  <1>1. Init => IInv
    <2> SUFFICES ASSUME Init PROVE IInv
      OBVIOUS
    <2>1. TypeOK /\ OffIsDown /\ wakeFor = None /\ excess = [pool \in Pools |-> 0]
      BY InitIsTyped DEF Init
    <2>2. PICK booting \in SUBSET (Members \ up) :
            /\ \A pool \in Pools : poolSpec[pool].maxNodes # None =>
                 Cardinality((up \cup booting) \cap Selects[pool]) <= poolSpec[pool].maxNodes
            /\ \A m \in Members :
                 /\ ~members[m].wakeNow
                 /\ members[m].state = CASE m \in up -> "Ready"
                                         [] m \in booting -> "Booting"
                                         [] OTHER -> "Off"
      BY InitialMembers DEF Init
    <2>3. \A m \in Members : OnIn(members, m) <=> m \in up \cup booting
      BY <2>2 DEF OnIn
    <2>4. \A pool \in Pools : On(pool) = (up \cup booting) \cap Selects[pool]
      BY <2>1, <2>3, NobodyIsNone DEF On
    <2>5. \A pool \in Pools : Beyond(pool) = 0
      BY <2>2, <2>4 DEF Beyond, Over
    <2> QED BY <2>1, <2>5 DEF CapKept
  <1>2. IInv /\ [Next]_vars => IInv'
    <2>1. CASE UNCHANGED vars
      BY <2>1 DEF vars, fleetVars, podVars, TypeOK, FleetTypeOK, OffIsDown, CapKept, Beyond, On,
                  OnIn
    <2> QED BY <2>1, NextIsTyped, NextKeepsCap
  <1>3. IInv => CapHeld
    <2> SUFFICES ASSUME IInv, NEW pool \in Pools, poolSpec[pool].maxNodes # None
                 PROVE  Cardinality({m \in Selects[pool] : OnIn(members, m)})
                          <= poolSpec[pool].maxNodes + excess[pool]
      BY DEF CapHeld
    <2> DEFINE S == {m \in Selects[pool] : OnIn(members, m)}
               cap == poolSpec[pool].maxNodes
    <2>1. S \in SUBSET On(pool) /\ On(pool) \in SUBSET Selects[pool]
      BY DEF On
    <2>2. poolSpec[pool] \in PoolPolicy /\ excess[pool] \in Nat
      BY FleetAssumption DEF TypeOK, FleetTypeOK
    <2>3. cap \in Nat /\ cap \in Limit
      BY <2>2 DEF PoolPolicy, Limit
    <2> HIDE DEF S
    <2>4. /\ Cardinality(S) \in Nat /\ Cardinality(On(pool)) \in Nat
          /\ Cardinality(S) <= Cardinality(On(pool))
      BY <2>1, PoolIsFinite
    <2>5. Over(Cardinality(On(pool)), cap) <= excess[pool]
      BY DEF CapKept, Beyond
    <2>6. /\ Cardinality(On(pool)) <= cap + Over(Cardinality(On(pool)), cap)
          /\ Over(Cardinality(On(pool)), cap) \in Nat
      BY <2>3, <2>4, OverCounts
    <2>7. Cardinality(S) <= cap + excess[pool]
      BY <2>2, <2>3, <2>4, <2>5, <2>6
    <2> QED BY <2>7 DEF S
  <1> QED BY <1>1, <1>2, <1>3, PTL DEF Spec

\* The Ready Machines of a pool that stay once the drain decided is written.
Staying(pool) ==
  {m \in Selects[pool] :
     members[m].state = "Ready" /\ ~members[m].drainNow /\ m # drainFor}

FloorKept ==
  \A pool \in Pools : drainFor \in Selects[pool] =>
    Cardinality(Staying(pool)) >= poolSpec[pool].minNodes

\* A Machine that serves has a running Node.
ServingIsUp ==
  \A m \in Members : members[m].state \in {"Ready", "Draining"} => m \in up

\* Unless hosts are lost, a Ready Machine nobody asked to drain stays Ready.
LEMMA ReadyStays ==
  ASSUME "loss" \notin EnvMoves, TypeOK, ServingIsUp, Next
  PROVE  /\ ServingIsUp'
         /\ \A m \in Members :
              members[m].state = "Ready" /\ ~members[m].drainNow =>
                members'[m].state = "Ready" /\ (members'[m].drainNow => m = drainFor)
  <1>1. CASE \E m \in Members : MachineReconcile(m)
    <2>1. PICK m \in Members : MachineReconcile(m)
      BY <1>1
    <2>2. Lifecycle(m)!ControllerStep /\ up' = up
      BY <2>1 DEF MachineReconcile
    <2>3. /\ \A k \in Members \ {m} : members'[k] = members[k]
          /\ Justified(m, members'[m].state)
      BY <2>1, ReconcileIsTyped DEF TypeOK, FleetTypeOK
    <2>4. members[m].state \in {"Ready", "Draining"} => m \in up
      BY DEF ServingIsUp
    <2> USE DEF Lifecycle!ControllerStep, Lifecycle!Goes, Lifecycle!DropTrigger,
                Lifecycle!Declared, Lifecycle!Woken, Lifecycle!Adopted, Lifecycle!BootFailed,
                Lifecycle!DrainStarted, Lifecycle!NodeLost, Lifecycle!DrainEnded,
                Lifecycle!ShutdownEnded
    <2>5. members'[m].state \in {"Ready", "Draining"} => m \in up
      BY <2>2, <2>3, <2>4 DEF Justified
    <2>6. members[m].state = "Ready" /\ ~members[m].drainNow =>
            members'[m].state = "Ready" /\ ~members'[m].drainNow
      BY <2>2, <2>3, <2>4 DEF Justified
    <2>7. ServingIsUp'
      BY <2>2, <2>3, <2>5 DEF ServingIsUp
    <2> QED BY <2>3, <2>6, <2>7
  <1>2. CASE \E m \in Members : HostBoots(m) \/ HostGoesDown(m) \/ HostIsLost(m) \/ HostReturns(m)
    BY <1>2 DEF HostBoots, HostGoesDown, HostIsLost, HostReturns, HostChanges, Moving, ServingIsUp
  <1>3. CASE OnlyTriggers /\ up' = up
    BY <1>3 DEF OnlyTriggers, ServingIsUp
  <1> QED BY <1>1, <1>2, <1>3, StepsOfMembers

\* A decision leaves as many Ready as the guard counted, less the one it takes.
LEMMA NextKeepsFloor ==
  ASSUME "loss" \notin EnvMoves, TypeOK, ServingIsUp, FloorKept, Next
  PROVE  FloorKept'
  <1> SUFFICES ASSUME NEW pool \in Pools, drainFor' \in Selects[pool]
               PROVE  Cardinality(Staying(pool)') >= poolSpec[pool].minNodes
    BY DEF FloorKept, Next
  <1>1. poolSpec[pool].minNodes \in Nat
    <2>1. poolSpec[pool] \in PoolPolicy
      BY FleetAssumption DEF TypeOK, FleetTypeOK
    <2> QED BY <2>1 DEF PoolPolicy
  <1>2. CASE DecidesDrain(pool)
    <2>1. mayDrain(drainFor', pool) /\ members' = members
      BY <1>2, DrainIsDecided
    <2>2. Cardinality(keptOn(pool)) > poolSpec[pool].minNodes
      BY <2>1 DEF mayDrain
    <2>3. keptOn(pool) \in SUBSET Selects[pool] /\ Staying(pool)' \in SUBSET Selects[pool]
      BY DEF keptOn, Staying
    <2>4. Staying(pool)' \cup {drainFor'} = keptOn(pool)
      BY <2>1 DEF Staying, keptOn, scalingDown, isScalingDown, freshPoolState, mayDrain
    <2>5. Cardinality(keptOn(pool)) <= Cardinality(Staying(pool)') + 1
      BY <2>3, <2>4, OneMoreCounts
    <2>6. Cardinality(keptOn(pool)) \in Nat /\ Cardinality(Staying(pool)') \in Nat
      BY <2>3, PoolIsFinite
    <2> QED BY <1>1, <2>2, <2>5, <2>6
  <1>3. CASE ~DecidesDrain(pool)
    <2>1. drainFor' = drainFor
      BY <1>3, NobodyIsNone DEF Next, ScaleDownStep, ScaleDownReconcile, requestDrain, DecidesDrain
    <2>2. Staying(pool) \in SUBSET Staying(pool)' /\ Staying(pool)' \in SUBSET Selects[pool]
      BY <2>1, ReadyStays, NobodyIsNone DEF Staying
    <2>3. /\ Cardinality(Staying(pool)) <= Cardinality(Staying(pool)')
          /\ Cardinality(Staying(pool)) \in Nat /\ Cardinality(Staying(pool)') \in Nat
      BY <2>2, PoolIsFinite
    <2> QED BY <1>1, <2>1, <2>3 DEF FloorKept
  <1> QED BY <1>2, <1>3

\* Unless a host is lost between the guards and the write, a drain is never
\* asked for that leaves a pool with fewer Ready Machines than minNodes, for
\* caches of any age.
THEOREM FloorHolds ==
  ASSUME "loss" \notin EnvMoves
  PROVE  Spec => FloorHeld
  <1> DEFINE IInv == TypeOK /\ OffIsDown /\ ServingIsUp /\ FloorKept
             Held == \A pool \in Pools : (\E m \in Selects[pool] : Drains(m)) =>
                       Cardinality({m \in Selects[pool] : /\ members'[m].state = "Ready"
                                                          /\ ~members'[m].drainNow})
                         >= poolSpec[pool].minNodes
  <1>1. Init => IInv
    <2> SUFFICES ASSUME Init PROVE IInv
      OBVIOUS
    <2>1. TypeOK /\ OffIsDown /\ drainFor = None
      BY InitIsTyped DEF Init
    <2>2. ServingIsUp
      BY InitialMembers DEF Init, ServingIsUp
    <2>3. FloorKept
      BY <2>1, NobodyIsNone DEF FloorKept
    <2> QED BY <2>1, <2>2, <2>3
  <1>2. IInv /\ [Next]_vars => IInv'
    <2>1. CASE UNCHANGED vars
      BY <2>1 DEF vars, fleetVars, podVars, TypeOK, FleetTypeOK, OffIsDown, ServingIsUp,
                  FloorKept, Staying
    <2> QED BY <2>1, NextIsTyped, ReadyStays, NextKeepsFloor
  <1>3. IInv /\ [Next]_vars => [Held]_vars
    <2> SUFFICES ASSUME IInv, Next, NEW pool \in Pools, NEW m \in Selects[pool], Drains(m)
                 PROVE  Cardinality({k \in Selects[pool] : /\ members'[k].state = "Ready"
                                                           /\ ~members'[k].drainNow})
                          >= poolSpec[pool].minNodes
      OBVIOUS
    <2> DEFINE S == {k \in Selects[pool] : members'[k].state = "Ready" /\ ~members'[k].drainNow}
    <2>1. drainFor \in Selects[pool]
      BY DEF Drains
    <2>2. Staying(pool) \in SUBSET S /\ S \in SUBSET Selects[pool]
      BY ReadyStays, NobodyIsNone DEF Staying
    <2>3. poolSpec[pool] \in PoolPolicy
      BY FleetAssumption DEF TypeOK, FleetTypeOK
    <2>4. poolSpec[pool].minNodes \in Nat
      BY <2>3 DEF PoolPolicy
    <2> HIDE DEF S
    <2>5. /\ Cardinality(Staying(pool)) \in Nat /\ Cardinality(S) \in Nat
          /\ Cardinality(Staying(pool)) <= Cardinality(S)
      BY <2>2, PoolIsFinite
    <2>6. Cardinality(S) >= poolSpec[pool].minNodes
      BY <2>1, <2>4, <2>5 DEF FloorKept
    <2> QED BY <2>6 DEF S
  <1>4. FloorHeld <=> [][Held]_vars
    BY DEF FloorHeld
  <1> HIDE DEF Held
  <1> QED BY <1>1, <1>2, <1>3, <1>4, PTL DEF Spec

-----------------------------------------------------------------------------
(* Every wake has a pod of its own.                                        *)

\* The Machines on their way up that scale-up has woken knowingly, or is about to.
Rising ==
  {m \in Members : (isWaking(members[m]) \/ m = wakeFor) /\ m \notin wanted.others}

\* A wake-now never outlives the way into a drain; the Machine about to be asked
\* is off and unasked; what was refused and what was pending is on record.
WakesRecorded ==
  /\ \A m \in Members \ wanted.others :
       members[m].state \in {"Draining", "ShuttingDown"} => ~members[m].wakeNow
  /\ wakeFor \in Members \ wanted.others =>
       members[wakeFor].state = "Off" /\ ~members[wakeFor].wakeNow
  /\ \A m \in Members : members[m].powerOnFailed => m \in wanted.others
  /\ pending \subseteq wanted.pods
  /\ \A m \in Rising : \E pool \in Pools : m \in Selects[pool]

\* f names, for each of them, a pod it would serve, a different one each.
IsReason(f) ==
  /\ f \in [Rising -> wanted.pods]
  /\ \A m \in Rising : Fit(f[m], m)
  /\ \A m, n \in Rising : f[m] = f[n] => m = n

\* What a pass does to a wake: it starts none, and ends it before a drain.
LEMMA ReconcileWakesNothing ==
  ASSUME TypeOK, OffIsDown, WakesRecorded, NEW m \in Members \ wanted.others, MachineReconcile(m)
  PROVE  /\ isWaking(members'[m]) => isWaking(members[m])
         /\ members'[m].state \in {"Draining", "ShuttingDown"} => ~members'[m].wakeNow
         /\ members[m].state = "Off" /\ ~members[m].wakeNow =>
              members'[m].state = "Off" /\ ~members'[m].wakeNow
  <1>1. Lifecycle(m)!ControllerStep /\ up' = up
    BY DEF MachineReconcile
  <1>2. Justified(m, members'[m].state)
    BY ReconcileIsTyped DEF TypeOK, FleetTypeOK
  <1>3. /\ members[m].state # "" /\ (members[m].state = "Off" => m \notin up)
        /\ members[m].state \in {"Draining", "ShuttingDown"} => ~members[m].wakeNow
        /\ members[m].wakeNow \in BOOLEAN /\ ~members[m].powerOnFailed
    BY DEF OffIsDown, WakesRecorded, TypeOK, FleetTypeOK, MemberRecord
  <1> USE DEF Lifecycle!ControllerStep, Lifecycle!Goes, Lifecycle!DropTrigger,
              Lifecycle!Declared, Lifecycle!Woken, Lifecycle!Adopted, Lifecycle!BootFailed,
              Lifecycle!DrainStarted, Lifecycle!NodeLost, Lifecycle!DrainEnded,
              Lifecycle!ShutdownEnded
  <1>5. isWaking(members'[m]) => isWaking(members[m])
    BY <1>1, <1>3 DEF isWaking
  <1>6. members'[m].state \in {"Draining", "ShuttingDown"} => ~members'[m].wakeNow
    BY <1>1, <1>3
  <1>7. members[m].state = "Off" /\ ~members[m].wakeNow =>
          members'[m].state = "Off" /\ ~members'[m].wakeNow
    BY <1>1, <1>2, <1>3 DEF Justified
  <1> QED BY <1>5, <1>6, <1>7

\* A step wakes no Machine but the chosen one, and leaves one that is off and
\* unasked so until its turn.
LEMMA StepWakesOnlyTheChosen ==
  ASSUME TypeOK, OffIsDown, WakesRecorded, Next
  PROVE  \A m \in Members \ wanted.others :
           /\ isWaking(members'[m]) => isWaking(members[m]) \/ m = wakeFor
           /\ members'[m].state \in {"Draining", "ShuttingDown"} => ~members'[m].wakeNow
           /\ members[m].state = "Off" /\ ~members[m].wakeNow =>
                members'[m].state = "Off" /\ (members'[m].wakeNow => m = wakeFor)
  <1>0. \A m \in Members \ wanted.others :
          /\ members[m].state \in {"Draining", "ShuttingDown"} => ~members[m].wakeNow
          /\ ~members[m].powerOnFailed
          /\ m = wakeFor => members[m].state = "Off"
    BY DEF WakesRecorded
  <1>1. CASE \E m \in Members : MachineReconcile(m)
    <2>1. PICK m \in Members : MachineReconcile(m)
      BY <1>1
    <2>2. \A k \in Members \ {m} : members'[k] = members[k]
      BY <2>1, ReconcileIsTyped DEF TypeOK, FleetTypeOK
    <2>3. m \notin wanted.others =>
          /\ isWaking(members'[m]) => isWaking(members[m])
          /\ members'[m].state \in {"Draining", "ShuttingDown"} => ~members'[m].wakeNow
          /\ members[m].state = "Off" /\ ~members[m].wakeNow =>
               members'[m].state = "Off" /\ ~members'[m].wakeNow
      BY <2>1, ReconcileWakesNothing
    <2> QED BY <1>0, <2>2, <2>3
  <1>2. CASE \E m \in Members : HostBoots(m) \/ HostGoesDown(m) \/ HostIsLost(m) \/ HostReturns(m)
    BY <1>0, <1>2 DEF HostBoots, HostGoesDown, HostIsLost, HostReturns, HostChanges
  <1>3. CASE OnlyTriggers
    BY <1>0, <1>3 DEF OnlyTriggers, isWaking
  <1> QED BY <1>1, <1>2, <1>3, StepsOfMembers

\* A Machine out of service keeps the room it has: pods leave it only.
LEMMA RoomStays ==
  ASSUME TypeOK, Next, NEW m \in Members, members[m].state # "Ready",
         NEW p \in Pods, Fit(p, m)
  PROVE  Fit(p, m)'
  <1>1. bound \in [Pods -> Members \cup {None}]
    BY DEF TypeOK, FleetTypeOK
  <1>2. CASE bound' = bound
    <2>1. boundTo(m)' = boundTo(m)
      BY <1>2 DEF boundTo
    <2> QED BY <2>1, FitOutlivesLeaving
  <1>3. CASE \E q \in Pods : PodBinds(q)
    <2>1. PICK q \in Pods : PodBinds(q)
      BY <1>3
    <2>2. PICK k \in Members : InService(k) /\ bound' = [bound EXCEPT ![q] = k]
      BY <2>1 DEF PodBinds
    <2>3. k # m /\ bound[q] = None
      BY <2>1, <2>2 DEF InService, PodBinds
    <2>4. boundTo(m)' = boundTo(m)
      BY <1>1, <2>2, <2>3, NobodyIsNone DEF boundTo
    <2> QED BY <2>4, FitOutlivesLeaving
  <1>4. CASE \E q \in Pods : PodLeaves(q)
    <2>1. PICK q \in Pods : bound' = [bound EXCEPT ![q] = None]
      BY <1>4 DEF PodLeaves
    <2>2. boundTo(m)' = boundTo(m) \ {q}
      BY <1>1, <2>1, NobodyIsNone DEF boundTo
    <2> QED BY <2>2, FitOutlivesLeaving
  <1>5. \/ bound' = bound
        \/ \E q \in Pods : PodBinds(q) \/ PodLeaves(q)
    BY DEF Next, ScaleDownStep, ScaleDownReconcile, requestDrain, ScaleUpStep, ScaleUpReconcile,
           requestWake, NodePoolReconcile, Surroundings, Others, PodIsUnschedulable,
           MachineReconcile, HostBoots, HostGoesDown, HostIsLost, HostReturns, HostChanges, PowerOnFails,
           ToggleExemption, Tick, SyncMembers, SyncPools, podVars
  <1> QED BY <1>2, <1>3, <1>4, <1>5

\* A wake is chosen for a pending pod that no wake in the list would serve; when
\* the list is behind, the choice is on record.
LEMMA WakeHasItsPod ==
  ASSUME TypeOK, Next, wakeFor' # None, wakeFor' # wakeFor
  PROVE  /\ wakeFor = None /\ members' = members /\ bound' = bound /\ wakeFor' \in Members
         /\ \E pool \in Pools : wakeFor' \in Selects[pool]
         /\ wakeFor' \notin wanted'.others =>
              \E p \in pending :
                /\ Fit(p, wakeFor')
                /\ members[wakeFor'].state = "Off" /\ ~members[wakeFor'].wakeNow
                /\ \A m \in Members : Fit(p, m) /\ isWaking(members[m]) =>
                     \A pool \in Pools : m \notin Selects[pool]
  <1>1. PICK p \in Pods : ScaleUpReconcile(p)
    BY DEF Next, ScaleUpStep, requestWake
  <1>2. candidates(p) \in SUBSET Members /\ candidates(p) # {}
    BY <1>1 DEF ScaleUpReconcile, candidates
  <1>3. wakeFor' \in candidates(p)
    BY <1>1, <1>2, WinnerIsCandidate DEF ScaleUpReconcile
  <1>4. /\ wakeFor = None /\ members' = members /\ bound' = bound
        /\ p \in pending /\ ~wakeInFlight(p) /\ wakeFor' \in Members
    BY <1>1, <1>2, <1>3 DEF ScaleUpReconcile, podVars
  <1>5. \E pool \in Pools : wakeFor' \in Selects[pool]
    <2>1. poolMemberships(wakeFor') = 1
      BY <1>3 DEF candidates
    <2>2. {pool \in Pools : wakeFor' \in Selects[pool]} # {}
      BY <2>1, FS_EmptySet DEF poolMemberships
    <2> QED BY <2>2
  <1>6. CASE CachedMembers # members
    <2>1. wakeFor' \in wanted'.others
      BY <1>4, <1>6 DEF Next, History, ChosenUnseen
    <2> QED BY <1>4, <1>5, <2>1
  <1>7. CASE CachedMembers = members
    <2>1. Fit(p, wakeFor') /\ members[wakeFor'].state = "Off" /\ ~members[wakeFor'].wakeNow
      BY <1>3, <1>7 DEF candidates
    <2>2. \A m \in Members : Fit(p, m) /\ isWaking(members[m]) =>
            \A pool \in Pools : m \notin Selects[pool]
      BY <1>4, <1>7, Zenon DEF wakeInFlight
    <2> QED BY <1>4, <1>5, <2>1, <2>2
  <1> QED BY <1>6, <1>7

\* While a Machine is about to be asked, nobody asks any.
LEMMA NobodyElseAsks ==
  ASSUME TypeOK, Next, wakeFor # None, wakeFor' = wakeFor,
         ~\E m \in Members : MachineReconcile(m)
  PROVE  \A m \in Members : members'[m].wakeNow = members[m].wakeNow
  <1>0. /\ members \in [Members -> MemberRecord]
        /\ drainFor \in Members \cup {None}
    BY DEF TypeOK, FleetTypeOK
  <1>1. ASSUME NEW m \in Members, NEW r, members' = [members EXCEPT ![m] = r],
               r.wakeNow = members[m].wakeNow
        PROVE  \A k \in Members : members'[k].wakeNow = members[k].wakeNow
    BY <1>0, <1>1
  <1>2. CASE \E m \in Members : ScaleDownReconcile(m)
    <2>1. PICK m \in Members : \/ members' = members
                               \/ stampEmptySince(m) \/ clearEmptySince(m)
      BY <1>2 DEF ScaleDownReconcile
    <2>2. CASE stampEmptySince(m) \/ clearEmptySince(m)
      <3>1. PICK t : members' = [members EXCEPT ![m] = [members[m] EXCEPT !.emptySince = t]]
        BY <1>0, <2>2 DEF stampEmptySince, clearEmptySince
      <3>2. [members[m] EXCEPT !.emptySince = t].wakeNow = members[m].wakeNow
        BY <1>0 DEF MemberRecord
      <3> QED BY <1>1, <3>1, <3>2
    <2> QED BY <2>1, <2>2
  <1>3. CASE requestDrain
    <2>1. CASE members' = members
      BY <2>1
    <2>2. CASE members' # members
      <3>1. /\ drainFor \in Members
            /\ members' = [members EXCEPT ![drainFor] = [members[drainFor] EXCEPT !.drainNow = TRUE]]
        BY <1>0, <1>3, <2>2 DEF requestDrain
      <3>2. [members[drainFor] EXCEPT !.drainNow = TRUE].wakeNow = members[drainFor].wakeNow
        BY <1>0, <3>1 DEF MemberRecord
      <3> QED BY <1>1, <3>1, <3>2
    <2> QED BY <2>1, <2>2
  <1>4. CASE \E m \in Members : PowerOnFails(m)
    <2>1. PICK m \in Members :
            members' = [members EXCEPT ![m] = [members[m] EXCEPT !.powerOnFailed = TRUE]]
      BY <1>0, <1>4 DEF PowerOnFails
    <2>2. [members[m] EXCEPT !.powerOnFailed = TRUE].wakeNow = members[m].wakeNow
      BY <1>0 DEF MemberRecord
    <2> QED BY <1>1, <2>1, <2>2
  <1>5. CASE members' = members
    BY <1>5
  <1>6. \/ \E m \in Members : ScaleDownReconcile(m) \/ PowerOnFails(m)
        \/ requestDrain \/ members' = members
    BY DEF Next, ScaleDownStep, ScaleUpStep, ScaleUpReconcile, requestWake, NodePoolReconcile,
           Surroundings, Others, PodBinds, PodIsUnschedulable, PodLeaves, HostBoots,
           HostGoesDown, HostIsLost, HostReturns, HostChanges, ToggleExemption, Tick, SyncMembers, SyncPools
  <1> QED BY <1>2, <1>3, <1>4, <1>5, <1>6

\* Unless a wake is chosen from a current list, the Machines on their way up are
\* among those before.
LEMMA NoneRises ==
  ASSUME TypeOK, OffIsDown, WakesRecorded, Next,
         wakeFor' = None \/ wakeFor' = wakeFor \/ wakeFor' \in wanted'.others
  PROVE  Rising' \subseteq Rising
  <1> SUFFICES ASSUME NEW m \in Members, isWaking(members'[m]) \/ m = wakeFor',
                      m \notin wanted'.others
               PROVE  (isWaking(members[m]) \/ m = wakeFor) /\ m \notin wanted.others
    BY DEF Rising
  <1>1. m \notin wanted.others
    BY DEF Next, History
  <1> QED BY <1>1, NobodyIsNone, StepWakesOnlyTheChosen

LEMMA NextKeepsRecord ==
  ASSUME TypeOK, OffIsDown, WakesRecorded, Next
  PROVE  WakesRecorded'
  <1>0. wanted.others \subseteq wanted'.others
    BY DEF Next, History
  <1>1. \A m \in Members \ wanted'.others :
          members'[m].state \in {"Draining", "ShuttingDown"} => ~members'[m].wakeNow
    BY <1>0, StepWakesOnlyTheChosen
  <1>2. wakeFor' \in Members \ wanted'.others =>
          members'[wakeFor'].state = "Off" /\ ~members'[wakeFor'].wakeNow
    <2> SUFFICES ASSUME wakeFor' \in Members \ wanted'.others
                 PROVE  members'[wakeFor'].state = "Off" /\ ~members'[wakeFor'].wakeNow
      OBVIOUS
    <2>1. CASE wakeFor' # wakeFor
      BY <2>1, WakeHasItsPod, NobodyIsNone
    <2>2. CASE wakeFor' = wakeFor
      <3>1. /\ wakeFor \in Members \ wanted.others
            /\ members[wakeFor].state = "Off" /\ ~members[wakeFor].wakeNow
        BY <1>0, <2>2 DEF WakesRecorded
      <3>2. members'[wakeFor].state = "Off"
        BY <3>1, StepWakesOnlyTheChosen
      <3>3. ~members'[wakeFor].wakeNow
        <4>1. CASE \E m \in Members : MachineReconcile(m)
          <5>1. PICK m \in Members : MachineReconcile(m)
            BY <4>1
          <5>2. CASE m = wakeFor
            BY <3>1, <5>1, <5>2, ReconcileWakesNothing
          <5>3. CASE m # wakeFor
            <6>1. members'[wakeFor] = members[wakeFor]
              BY <3>1, <5>1, <5>3, ReconcileIsTyped DEF TypeOK, FleetTypeOK
            <6> QED BY <3>1, <6>1
          <5> QED BY <5>2, <5>3
        <4>2. CASE ~\E m \in Members : MachineReconcile(m)
          BY <2>2, <3>1, <4>2, NobodyElseAsks, NobodyIsNone
        <4> QED BY <4>1, <4>2
      <3> QED BY <2>2, <3>2, <3>3
    <2> QED BY <2>1, <2>2
  <1>3. /\ \A m \in Members : members'[m].powerOnFailed => m \in wanted'.others
        /\ pending' \subseteq wanted'.pods
    BY DEF Next, History
  <1>4. \A m \in Rising' : \E pool \in Pools : m \in Selects[pool]
    <2>1. CASE wakeFor' = None \/ wakeFor' = wakeFor
      BY <2>1, NoneRises DEF WakesRecorded
    <2>2. CASE wakeFor' # None /\ wakeFor' # wakeFor
      <3>1. /\ wakeFor = None /\ members' = members
            /\ \E pool \in Pools : wakeFor' \in Selects[pool]
        BY <2>2, WakeHasItsPod
      <3>2. Rising' \subseteq Rising \cup {wakeFor'}
        BY <1>0, <3>1 DEF Rising
      <3> QED BY <3>1, <3>2 DEF WakesRecorded
    <2> QED BY <2>1, <2>2
  <1> QED BY <1>1, <1>2, <1>3, <1>4 DEF WakesRecorded

\* The assignment of pods survives a step: a chosen wake brings its own pod,
\* which no wake under way served and which therefore was not assigned.
LEMMA NextKeepsReasons ==
  ASSUME TypeOK, OffIsDown, WakesRecorded, \E f : IsReason(f), Next
  PROVE  (\E f : IsReason(f))'
  <1>1. PICK f : IsReason(f)
    OBVIOUS
  <1>2. /\ wanted.pods \subseteq wanted'.pods /\ wanted.others \subseteq wanted'.others
        /\ wanted.pods \subseteq Pods
    BY DEF Next, History, TypeOK
  <1>3. \A m \in Rising : m \in Members /\ members[m].state # "Ready"
    BY DEF Rising, isWaking, WakesRecorded
  <1>4. \A m \in Rising : f[m] \in wanted'.pods /\ Fit(f[m], m)'
    <2> SUFFICES ASSUME NEW m \in Rising PROVE f[m] \in wanted'.pods /\ Fit(f[m], m)'
      OBVIOUS
    <2>1. f[m] \in wanted.pods /\ f[m] \in Pods /\ Fit(f[m], m)
      BY <1>1, <1>2 DEF IsReason
    <2>2. Fit(f[m], m)'
      BY <1>3, <2>1, RoomStays
    <2> QED BY <1>2, <2>1, <2>2
  <1>5. CASE wakeFor' = None \/ wakeFor' = wakeFor \/ wakeFor' \in wanted'.others
    <2>1. Rising' \subseteq Rising
      BY <1>5, NoneRises
    <2>2. PICK g : g = [m \in Rising' |-> f[m]]
      OBVIOUS
    <2>3. g \in [Rising' -> wanted'.pods] /\ \A m \in Rising' : g[m] = f[m]
      BY <1>4, <2>1, <2>2
    <2>4. \A m, n \in Rising' : g[m] = g[n] => m = n
      BY <1>1, <2>1, <2>3 DEF IsReason
    <2>5. \A m \in Rising' : Fit(g[m], m)'
      BY <1>4, <2>1, <2>3
    <2>6. IsReason(g)'
      BY <2>3, <2>4, <2>5 DEF IsReason
    <2> QED BY <2>6
  <1>6. CASE wakeFor' # None /\ wakeFor' # wakeFor /\ wakeFor' \notin wanted'.others
    <2>1. wakeFor = None /\ members' = members /\ bound' = bound /\ wakeFor' \in Members
      BY <1>6, WakeHasItsPod
    <2>2. PICK p \in pending :
            /\ Fit(p, wakeFor')
            /\ members[wakeFor'].state = "Off"
            /\ \A m \in Members : Fit(p, m) /\ isWaking(members[m]) =>
                 \A pool \in Pools : m \notin Selects[pool]
      BY <1>6, WakeHasItsPod
    <2>0. PICK g : g = [m \in Rising' |-> IF m = wakeFor' THEN p ELSE f[m]]
      OBVIOUS
    <2>3. p \in wanted.pods /\ p \in wanted'.pods /\ p \in Pods
      BY <1>2 DEF WakesRecorded
    <2>4. \A m \in Rising' : m # wakeFor' => m \in Rising /\ isWaking(members[m])
      BY <1>2, <2>1, NobodyIsNone DEF Rising
    <2>5. \A m \in Rising : isWaking(members[m]) => f[m] # p
      <3> SUFFICES ASSUME NEW m \in Rising, isWaking(members[m]), f[m] = p PROVE FALSE
        OBVIOUS
      <3>1. Fit(p, m) /\ m \in Members
        BY <1>1, <1>3 DEF IsReason
      <3>2. \E pool \in Pools : m \in Selects[pool]
        BY DEF WakesRecorded
      <3> QED BY <2>2, <3>1, <3>2
    <2>6. g \in [Rising' -> wanted'.pods]
      BY <1>4, <2>0, <2>3, <2>4
    <2>7. \A m, n \in Rising' : g[m] = g[n] => m = n
      BY <1>1, <2>0, <2>4, <2>5 DEF IsReason
    <2>8. \A m \in Rising' : \/ g[m] = p /\ m = wakeFor'
                             \/ g[m] = f[m] /\ m \in Rising
      BY <2>0, <2>4
    <2>9. \A m \in Rising' : g[m] \in Pods /\ m \in Members /\ Fit(g[m], m)
                             /\ members[m].state # "Ready"
      <3>1. \A m \in Rising : f[m] \in Pods /\ Fit(f[m], m)
        BY <1>1, <1>2 DEF IsReason
      <3> QED BY <1>3, <2>1, <2>2, <2>3, <2>8, <3>1
    <2>10. \A m \in Rising' : Fit(g[m], m)'
      BY <2>9, RoomStays
    <2>11. IsReason(g)'
      BY <2>6, <2>7, <2>10 DEF IsReason
    <2> QED BY <2>11
  <1> QED BY <1>5, <1>6

\* Distinct pods for the Machines that rise, so no more of them than pods.
LEMMA ReasonsCount ==
  ASSUME TypeOK, NEW f, IsReason(f)
  PROVE  OneWakePerPod
  <1> DEFINE W == {m \in Members : isWaking(members[m])}
  <1>1. /\ IsFiniteSet(Members) /\ IsFiniteSet(Pods)
        /\ wanted.pods \in SUBSET Pods /\ wanted.others \in SUBSET Members
        /\ Rising \in SUBSET Members
    BY FleetAssumption DEF TypeOK, Rising
  <1>2. /\ IsFiniteSet(wanted.pods) /\ IsFiniteSet(wanted.others) /\ IsFiniteSet(Rising)
    BY <1>1, FS_Subset
  <1>3. f \in Injection(Rising, wanted.pods)
    BY DEF IsReason, Injection, IsInjective
  <1>4. Cardinality(Rising) <= Cardinality(wanted.pods)
    BY <1>2, <1>3, FS_Injection
  <1>5. /\ IsFiniteSet(Rising \cup wanted.others)
        /\ Cardinality(Rising \cup wanted.others) =
             Cardinality(Rising) + Cardinality(wanted.others)
             - Cardinality(Rising \cap wanted.others)
    BY <1>2, FS_Union
  <1>6. W \in SUBSET (Rising \cup wanted.others) /\ Rising \cap wanted.others \in SUBSET Members
    BY <1>1 DEF Rising
  <1>7. IsFiniteSet(W) /\ Cardinality(W) <= Cardinality(Rising \cup wanted.others)
    BY <1>5, <1>6, FS_Subset
  <1>8. IsFiniteSet(Rising \cap wanted.others)
    BY <1>1, <1>6, FS_Subset
  <1>9. /\ Cardinality(W) \in Nat /\ Cardinality(Rising) \in Nat
        /\ Cardinality(wanted.pods) \in Nat /\ Cardinality(wanted.others) \in Nat
        /\ Cardinality(Rising \cap wanted.others) \in Nat
    BY <1>2, <1>7, <1>8, FS_CardinalityType
  <1> HIDE DEF W
  <1>10. Cardinality(W) <= Cardinality(wanted.pods) + Cardinality(wanted.others)
    BY <1>4, <1>5, <1>7, <1>9
  <1> QED BY <1>10 DEF W, OneWakePerPod

\* However many pods wait and however long, no pod wakes a second Machine while
\* the one woken for it is on its way: there are never more Machines on their
\* way up than pods that waited, power-ons that were refused, hosts that came
\* back by themselves and wakes chosen from a list that was behind.
THEOREM WakesArePaired == Spec => []OneWakePerPod
  <1> DEFINE IInv == TypeOK /\ OffIsDown /\ WakesRecorded /\ \E f : IsReason(f)
  <1>1. Init => IInv
    <2> SUFFICES ASSUME Init PROVE IInv
      OBVIOUS
    <2>1. TypeOK /\ OffIsDown
      BY InitIsTyped
    <2>2. /\ wakeFor = None /\ pending = {}
          /\ wanted = [pods |-> {}, others |-> {m \in Members : members[m].state = "Booting"}]
      BY DEF Init, FleetInit
    <2>3. \A m \in Members : ~members[m].wakeNow
      BY InitialMembers DEF Init
    <2>4. \A m \in Members : ~members[m].powerOnFailed
      BY InitialMembers DEF Init
    <2>5. Rising = {}
      BY <2>2, <2>3, NobodyIsNone DEF Rising, isWaking
    <2>6. WakesRecorded
      BY <2>2, <2>3, <2>4, <2>5, NobodyIsNone DEF WakesRecorded
    <2>7. IsReason([m \in {} |-> m])
      BY <2>5 DEF IsReason
    <2> QED BY <2>1, <2>6, <2>7
  <1>2. IInv /\ [Next]_vars => IInv'
    <2> SUFFICES ASSUME IInv, [Next]_vars PROVE IInv'
      OBVIOUS
    <2>1. CASE UNCHANGED vars
      <3>1. TypeOK' /\ OffIsDown' /\ WakesRecorded'
        BY <2>1 DEF vars, fleetVars, podVars, TypeOK, FleetTypeOK, OffIsDown, WakesRecorded, Rising
      <3>2. Rising' = Rising /\ wanted' = wanted /\ \A m \in Members : boundTo(m)' = boundTo(m)
        BY <2>1 DEF vars, fleetVars, podVars, Rising, boundTo
      <3>3. PICK f : IsReason(f)
        OBVIOUS
      <3>4. \A m \in Rising : m \in Members /\ f[m] \in Pods /\ Fit(f[m], m)
        BY <3>3 DEF IsReason, Rising, TypeOK
      <3>5. \A m \in Rising : Fit(f[m], m)'
        BY <3>2, <3>4, FitOutlivesLeaving
      <3>6. IsReason(f)'
        BY <3>2, <3>3, <3>5 DEF IsReason
      <3> QED BY <3>1, <3>6
    <2>2. CASE Next
      <3>1. (\E f : IsReason(f))'
        BY <2>2, NextKeepsReasons
      <3> QED BY <2>2, <3>1, NextIsTyped, NextKeepsRecord
    <2> QED BY <2>1, <2>2
  <1>3. IInv => OneWakePerPod
    BY ReasonsCount
  <1> QED BY <1>1, <1>2, <1>3, PTL DEF Spec

=============================================================================
