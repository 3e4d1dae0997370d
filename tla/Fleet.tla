------------------------------- MODULE Fleet -------------------------------
(***************************************************************************)
(* What the pool-level reconcilers share: the Machines of the pools, their *)
(* Nodes and pods, the pools' status, the caches that trail both, and the  *)
(* steps of everyone else.  A member changes state as MachineLifecycle     *)
(* says, which is what PowerCycle implements.                              *)
(***************************************************************************)
EXTENDS Integers, FiniteSetsExt

CONSTANTS
  None,         \* a nil time, and nobody
  Members,      \* the Machines, named by numbers for the order of names
  Pools,        \* the NodePools,
  Selects,      \*   the Machines their selector matches
  Policies,     \*   and the policies their spec may state
  Pods,         \* the workload pods
  Request,      \* what a pod requests
  Admits,       \* the Machines whose labels and taints a pod is fine with
  Capacity,     \* what a Machine's Node has to offer
  ReadySettle,  \* readySettle
  Lagging,      \* which informer caches may trail the API server
  EnvMoves,     \* what may happen to a Machine from outside
  MaxMoves,     \* bound: number of such moves
  MaxTime       \* bound: last instant of the clock

Moves == {"loss", "return", "powerOnFails", "exempt", "policy", "callFails", "restart"}

Limit == Nat \cup {None}
Time == Nat \cup {None}

\* after is None unless the policy is WhenEmpty and names a delay.
PoolPolicy ==
  [minNodes: Nat, maxNodes: Limit, maxConcurrent: Limit, after: Limit,
   scaleUp: Limit, scaleDown: Limit]

ASSUME FleetAssumption ==
  /\ None \notin Int
  /\ Members \subseteq Nat /\ IsFiniteSet(Members) /\ IsFiniteSet(Pods)
  /\ Policies \subseteq PoolPolicy
  /\ Selects \in [Pools -> SUBSET Members]
  /\ Request \in [Pods -> Nat]
  /\ Admits \in [Pods -> SUBSET Members]
  /\ Capacity \in [Members -> Nat]
  /\ ReadySettle \in Nat
  /\ Lagging \subseteq {"machines", "pools"}
  /\ EnvMoves \subseteq Moves
  /\ MaxMoves \in Nat /\ MaxTime \in Nat

VARIABLES
  poolSpec,     \* the policy of each pool
  now,          \* the clock
  members,      \* the Machine objects
  up,           \* the Machines whose Node is Ready
  exempt,       \* the Machines whose Node is always-on or do-not-disrupt
  pending,      \* the pods the scheduler found no Node for
  bound,        \* the Machine each pod runs on
  pools,        \* the status of the pools
  memberCache,  \* the informer caches of members
  poolCache,    \*   and of pools
  moves         \* outside moves made so far

podVars == <<pending, bound>>
fleetVars ==
  <<poolSpec, now, members, up, exempt, podVars, pools, memberCache, poolCache, moves>>

CachedMembers == IF "machines" \in Lagging THEN memberCache ELSE members
CachedPools   == IF "pools" \in Lagging THEN poolCache ELSE pools

States == {"", "Off", "Booting", "Ready", "Draining", "ShuttingDown", "Failed"}

\* Next to the state and the triggers, what the pool-level reconcilers read:
\* the empty timer, and the conditions PowerOnSucceeded (is it False) and
\* Ready (since when is it True).
MemberRecord ==
  [state: States, wakeNow: BOOLEAN, drainNow: BOOLEAN,
   emptySince: Time, powerOnFailed: BOOLEAN, readySince: Time]

PoolStatus == [lastScaleUp: Time, lastScaleDown: Time, ready: Nat]

FleetTypeOK ==
  /\ poolSpec \in [Pools -> Policies] /\ now \in Nat
  /\ members \in [Members -> MemberRecord] /\ memberCache \in [Members -> MemberRecord]
  /\ up \subseteq Members /\ exempt \subseteq Members
  /\ pending \subseteq Pods
  /\ bound \in [Pods -> Members \cup {None}]
  /\ pools \in [Pools -> PoolStatus] /\ poolCache \in [Pools -> PoolStatus]
  /\ moves \in Nat

OffMember ==
  [state |-> "Off", wakeNow |-> FALSE, drainNow |-> FALSE,
   emptySince |-> None, powerOnFailed |-> FALSE, readySince |-> None]

\* Some of the Machines are up and some are booting, no more of a pool than
\* it may have.  All are exempt or none is.
FleetInit ==
  /\ poolSpec \in [Pools -> Policies]
  /\ now = 0
  /\ up \in SUBSET Members
  /\ \E booting \in SUBSET (Members \ up) :
       /\ \A pool \in Pools : poolSpec[pool].maxNodes # None =>
            Cardinality((up \cup booting) \cap Selects[pool]) <= poolSpec[pool].maxNodes
       /\ members = [m \in Members |->
            CASE m \in up -> [OffMember EXCEPT !.state = "Ready", !.readySince = 0]
              [] m \in booting -> [OffMember EXCEPT !.state = "Booting"]
              [] OTHER -> OffMember]
  /\ memberCache = members
  /\ exempt \in {{}, Members}
  /\ pending = {} /\ bound = [p \in Pods |-> None]
  /\ pools = [pool \in Pools |-> [lastScaleUp |-> None, lastScaleDown |-> None, ready |-> 0]]
  /\ poolCache = pools
  /\ moves = 0

-----------------------------------------------------------------------------
(* Pods.                                                                   *)

boundTo(m) == {p \in Pods : bound[p] = m}

\* The requests still bound to a Node come off what it offers.
syntheticAllocatable(m) ==
  LET left == Capacity[m] - MapThenSumSet(LAMBDA p : Request[p], boundTo(m))
  IN  IF left < 0 THEN 0 ELSE left

Fit(p, m) == m \in Admits[p] /\ Request[p] <= syntheticAllocatable(m)

\* The scheduler's view: a Node that is up and not cordoned.
InService(m) == m \in up /\ members[m].state = "Ready"

PodBinds(p) ==
  /\ bound[p] = None
  /\ \E m \in Members : InService(m) /\ Fit(p, m) /\ bound' = [bound EXCEPT ![p] = m]
  /\ pending' = pending \ {p}
  /\ UNCHANGED <<now, members, up, exempt, pools, memberCache, poolCache, moves>>

PodIsUnschedulable(p) ==
  /\ bound[p] = None /\ p \notin pending
  /\ \A m \in Members : ~(InService(m) /\ Fit(p, m))
  /\ pending' = pending \cup {p}
  /\ UNCHANGED <<now, members, up, exempt, bound, pools, memberCache, poolCache, moves>>

\* A pod finishes, is deleted or evicted.
PodLeaves(p) ==
  /\ bound[p] # None
  /\ bound' = [bound EXCEPT ![p] = None]
  /\ UNCHANGED <<now, members, up, exempt, pending, pools, memberCache, poolCache, moves>>

-----------------------------------------------------------------------------
(* A member and its host.                                                  *)

Lifecycle(m) == INSTANCE MachineLifecycle WITH
  state <- members[m].state, wakeNow <- members[m].wakeNow, drainNow <- members[m].drainNow

\* The conditions that go with a change of state: Ready turns False with a
\* failed boot, a lost Node and the end of a shutdown, not with a drain.
readySinceAfter(r, s) ==
  CASE r.state \in {"Off", "Booting"} /\ s = "Ready" ->
         IF r.readySince = None THEN now ELSE r.readySince
    [] r.state \in {"Off", "Booting", "Ready", "ShuttingDown"} /\ s \in {"Off", "Failed"} /\ r.state # s ->
         None
    [] OTHER -> r.readySince

Moved(r, s, w, d) ==
  [r EXCEPT !.state = s, !.wakeNow = w, !.drainNow = d,
            !.powerOnFailed = @ /\ s # "Booting",
            !.readySince = readySinceAfter(r, s)]

\* What the cluster must look like for the MachineReconciler to make the move.
Justified(m, s) ==
  LET from == members[m].state
  IN  /\ s = "Ready" /\ from \in {"Off", "Booting"} => m \in up
      /\ s = "Booting" /\ from = "Off" => m \notin up
      /\ s = "Failed" /\ from = "Off" => m \in up
      /\ s = "Off" /\ from \in {"Ready", "ShuttingDown"} => m \notin up
      /\ s = "ShuttingDown" /\ from = "Draining" => boundTo(m) = {}
      /\ s = "Ready" /\ from = "Draining" => m \in exempt

\* The states MachineLifecycle can go to; the lifecycle decides if it may.
OneStepFrom(s) ==
  CASE s = "Off" -> {"Off", "Booting", "Ready", "Failed"}
    [] s = "Booting" -> {"Booting", "Ready", "Failed"}
    [] s = "Ready" -> {"Ready", "Draining", "Off"}
    [] s = "Draining" -> {"Draining", "Ready", "Failed", "ShuttingDown"}
    [] s = "ShuttingDown" -> {"ShuttingDown", "Off", "Failed"}
    [] OTHER -> {s, "Off"}

MachineReconcile(m) ==
  \E s \in OneStepFrom(members[m].state), w \in {members[m].wakeNow, FALSE}, d \in {members[m].drainNow, FALSE} :
    /\ Justified(m, s)
    /\ <<s, w, d>> # <<members[m].state, members[m].wakeNow, members[m].drainNow>>
    /\ members' = [members EXCEPT ![m] = Moved(@, s, w, d)]
    /\ Lifecycle(m)!ControllerStep
    /\ UNCHANGED <<now, up, exempt, podVars, pools, memberCache, poolCache, moves>>

HostChanges ==
  UNCHANGED <<now, members, exempt, podVars, pools, memberCache, poolCache>>

HostBoots(m) ==
  /\ m \notin up /\ members[m].state = "Booting"
  /\ up' = up \cup {m}
  /\ HostChanges /\ UNCHANGED moves

HostGoesDown(m) ==
  /\ m \in up /\ members[m].state = "ShuttingDown"
  /\ up' = up \ {m}
  /\ HostChanges /\ UNCHANGED moves

Moving(move) == move \in EnvMoves /\ moves < MaxMoves /\ moves' = moves + 1

\* A host that loses its power, or its network.
HostIsLost(m) ==
  /\ Moving("loss")
  /\ m \in up /\ up' = up \ {m}
  /\ HostChanges

\* A host that comes up although its Machine does not boot: after an outage, by
\* hand, or too late for the boot it belonged to.
HostReturns(m) ==
  /\ Moving("return")
  /\ m \notin up /\ members[m].state # "Booting" /\ up' = up \cup {m}
  /\ HostChanges

\* The power provider refuses: the wake stays requested, the condition says so.
PowerOnFails(m) ==
  /\ Moving("powerOnFails")
  /\ members[m].state = "Off" /\ members[m].wakeNow /\ m \notin up
  /\ members' = [members EXCEPT ![m].powerOnFailed = TRUE]
  /\ UNCHANGED <<now, up, exempt, podVars, pools, memberCache, poolCache>>

\* The always-on label or the do-not-disrupt annotation is set or removed.
ToggleExemption(m) ==
  /\ Moving("exempt")
  /\ exempt' = IF m \in exempt THEN exempt \ {m} ELSE exempt \cup {m}
  /\ UNCHANGED <<now, members, up, podVars, pools, memberCache, poolCache>>

-----------------------------------------------------------------------------
(* Caches and clock.                                                       *)

SyncMembers ==
  /\ "machines" \in Lagging /\ memberCache # members
  /\ memberCache' = members
  /\ UNCHANGED <<now, members, up, exempt, podVars, pools, poolCache, moves>>

SyncPools ==
  /\ "pools" \in Lagging /\ poolCache # pools
  /\ poolCache' = pools
  /\ UNCHANGED <<now, members, up, exempt, podVars, pools, memberCache, moves>>

Tick ==
  /\ now < MaxTime
  /\ now' = now + 1
  /\ UNCHANGED <<members, up, exempt, podVars, pools, memberCache, poolCache, moves>>

Others ==
  \/ \E p \in Pods : PodBinds(p) \/ PodIsUnschedulable(p) \/ PodLeaves(p)
  \/ \E m \in Members : \/ MachineReconcile(m) \/ HostBoots(m) \/ HostGoesDown(m)
                        \/ HostIsLost(m) \/ HostReturns(m)
                        \/ PowerOnFails(m) \/ ToggleExemption(m)
  \/ Tick

Surroundings == Others \/ SyncMembers \/ SyncPools

=============================================================================
