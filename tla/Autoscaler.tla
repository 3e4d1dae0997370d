----------------------------- MODULE Autoscaler -----------------------------
(***************************************************************************)
(* The pool-level reconcilers together: scale-up, scale-down and the pool  *)
(* status, which meet in the Machines' annotations and the pools' status.  *)
(***************************************************************************)
EXTENDS ScaleDown, ScaleUp, NodePoolStatus

VARIABLES
  decided,   \* history: when the last drain of a pool was decided
  wanted,    \* history: the pods that were pending, and the Machines that
             \*   booted from the start, refused a power-on, came up by themselves
             \*   or were chosen from a list that trailed
  excess     \* history: how many beyond maxNodes a pool has through no wake that
             \*   scale-up could have refused

vars == <<fleetVars, drainFor, wakeFor, decided, wanted, excess>>

Init ==
  /\ FleetInit /\ exempt = {}
  /\ drainFor = None /\ wakeFor = None
  /\ decided = [pool \in Pools |-> None]
  /\ wanted = [pods |-> {}, others |-> {m \in Members : members[m].state = "Booting"}]
  /\ excess = [pool \in Pools |-> 0]

DecidesDrain(pool) == drainFor = None /\ drainFor' \in Selects[pool]

\* A Machine is powered on, or asked to be, as this view of the Machines has it.
OnIn(view, m) ==
  \/ view[m].state \in {"Booting", "Ready", "Draining", "ShuttingDown"}
  \/ view[m].state = "Off" /\ view[m].wakeNow
  \/ view[m].state = "Failed" /\ m \in up

\* The Machines of a pool that are on, or about to be asked.
On(pool) == {m \in Selects[pool] : OnIn(members, m) \/ m = wakeFor}

Over(n, cap) == IF cap = None \/ n <= cap THEN 0 ELSE n - cap

Beyond(pool) == Over(Cardinality(On(pool)), poolSpec[pool].maxNodes)

\* A host of the pool comes up by itself, or scale-up chooses a Machine from a
\* list that does not show one of the pool that is on.
Unrefusable(pool) ==
  \E m \in On(pool)' \ On(pool) :
    IF m = wakeFor' THEN \E k \in Selects[pool] : OnIn(members, k) /\ ~OnIn(CachedMembers, k)
                    ELSE m \in up'

CameUpByThemselves == {m \in up' \ up : members[m].state # "Booting"}

ChosenUnseen ==
  {m \in Members : wakeFor = None /\ wakeFor' = m /\ CachedMembers # members}

History ==
  /\ decided' = [pool \in Pools |-> IF DecidesDrain(pool) THEN now ELSE decided[pool]]
  /\ wanted' = [pods |-> wanted.pods \cup pending',
                others |-> wanted.others \cup {m \in Members : members'[m].powerOnFailed}
                                         \cup CameUpByThemselves \cup ChosenUnseen]
  /\ excess' = [pool \in Pools |->
                  IF Unrefusable(pool) \/ Beyond(pool)' <= excess[pool]
                    THEN Beyond(pool)' ELSE excess[pool]]

ScaleDownStep == (\E m \in Members : ScaleDownReconcile(m)) \/ requestDrain
ScaleUpStep == (\E p \in Pods : ScaleUpReconcile(p)) \/ requestWake

Next ==
  /\ \/ ScaleDownStep /\ UNCHANGED wakeFor
     \/ ScaleUpStep /\ UNCHANGED drainFor
     \/ (\E pool \in Pools : NodePoolReconcile(pool)) /\ UNCHANGED <<drainFor, wakeFor>>
     \/ Surroundings /\ UNCHANGED <<drainFor, wakeFor>>
  /\ UNCHANGED poolSpec
  /\ History

Spec == Init /\ [][Next]_vars

-----------------------------------------------------------------------------

\* Every object keeps the shape the API gives it.
TypeOK ==
  /\ FleetTypeOK
  /\ drainFor \in Members \cup {None} /\ wakeFor \in Members \cup {None}
  /\ decided \in [Pools -> Time]
  /\ wanted \in [pods: SUBSET Pods, others: SUBSET Members]
  /\ excess \in [Pools -> Nat]

Drains(m) == drainFor = m /\ ~members[m].drainNow /\ members'[m].drainNow

\* Scale-down never asks for a drain that leaves a pool with fewer Ready
\* Machines that stay than minNodes, however stale the cache it starts from.
FloorHeld ==
  [][\A pool \in Pools : (\E m \in Selects[pool] : Drains(m)) =>
       Cardinality({m \in Selects[pool] : /\ members'[m].state = "Ready"
                                          /\ ~members'[m].drainNow})
         >= poolSpec[pool].minNodes]_vars

OnTheWayDown(m) == members[m].state \in {"Draining", "ShuttingDown"} \/ members[m].drainNow

\* A pool never has more Machines on their way down than maxConcurrent.
PacedDrains ==
  \A pool \in Pools :
    Cardinality({m \in Selects[pool] : OnTheWayDown(m)}) <= maxConcurrent(pool)

\* Two power-off decisions in a pool are cooldown.scaleDown apart, whoever
\* writes the pool's status in between.
DrainsSpaced ==
  [][\A pool \in Pools :
       DecidesDrain(pool) /\ decided[pool] # None /\ poolSpec[pool].scaleDown # None =>
         now >= decided[pool] + poolSpec[pool].scaleDown]_vars

\* "이 위로 올라가는 scale-up 을 거절": a pool never has more Machines powered on, or
\* asked to be, than maxNodes, but for those that scale-up could not refuse: hosts
\* that came up by themselves with the pool full, which it adopts, and wakes
\* chosen from a list that did not show all there were.
CapHeld ==
  \A pool \in Pools : poolSpec[pool].maxNodes # None =>
    Cardinality({m \in Selects[pool] : OnIn(members, m)})
      <= poolSpec[pool].maxNodes + excess[pool]

\* Every Machine on its way up has a reason of its own, a pod that was pending, a
\* power-on that was refused, a host that came up by itself or a list that
\* trailed: a pod that stays pending while its wake is
\* under way does not wake another.
OneWakePerPod ==
  Cardinality({m \in Members : isWaking(members[m])})
    <= Cardinality(wanted.pods) + Cardinality(wanted.others)

=============================================================================
