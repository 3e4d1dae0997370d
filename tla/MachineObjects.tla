--------------------------- MODULE MachineObjects ---------------------------
(***************************************************************************)
(* The API objects one Machine's power cycle is made of - the Machine, its *)
(* backing Node and the pods bound to that Node - and the pure predicates  *)
(* the reconcilers read off them.  An instant is a natural number of ticks *)
(* (metav1.Time has a resolution of one second), None is a nil time.       *)
(***************************************************************************)
EXTENDS Integers, FiniteSets

CONSTANTS
  None,                 \* a nil *metav1.Time
  BootTimeout,          \* --boot-timeout
  ShutdownTimeout,      \* --shutdown-timeout
  NodeLossGrace,        \* --node-loss-grace
  BootPoll,             \* bootPollInterval
  DefaultDrainTimeout,  \* defaultDrainTimeout
  MatchingPools,        \* the NodePools whose selector matches the Machine
  Pods,                 \* names of the pods that may run on the Node
  PodKind               \* what each pod's owner and annotations say

PoolRecord == [name: STRING, timeout: Nat \cup {None}, force: BOOLEAN]

KindRecord == [daemonSet: BOOLEAN, mirror: BOOLEAN, doNotDisrupt: BOOLEAN]

ASSUME NoneAssumption == None \notin Int
ASSUME TimeoutAssumption ==
  /\ BootTimeout \in Nat
  /\ ShutdownTimeout \in Nat
  /\ NodeLossGrace \in Nat
  /\ BootPoll \in Nat
  /\ DefaultDrainTimeout \in Nat
ASSUME PoolAssumption ==
  MatchingPools \subseteq PoolRecord /\ IsFiniteSet(MatchingPools)
ASSUME PodAssumption == \A p \in Pods : PodKind[p] \in KindRecord

Time == Nat \cup {None}

-----------------------------------------------------------------------------
(* Machine: status.state and its time anchors, and the two one-shot        *)
(* annotations.  The power cycle writes status conditions and never reads  *)
(* them back, so they are left out, and so is emptySince: see Fleet.       *)

States ==
  {"", "Off", "Booting", "Ready", "Draining", "ShuttingDown", "Failed"}

MachineRecord ==
  [state: States, wakeNow: BOOLEAN, drainNow: BOOLEAN,
   bootStart: Time, drainStart: Time, shutdownStart: Time,
   notReadySince: Time]

NewMachine ==
  [state |-> "", wakeNow |-> FALSE, drainNow |-> FALSE,
   bootStart |-> None, drainStart |-> None, shutdownStart |-> None,
   notReadySince |-> None]

\* The three budgets, measured at instant t.  A missing anchor never times out.
bootTimedOut(m, t) ==
  m.bootStart # None /\ t - m.bootStart >= BootTimeout

drainTimedOut(m, t, timeout) ==
  m.drainStart # None /\ t - m.drainStart > timeout

shutdownTimedOut(m, t) ==
  m.shutdownStart # None /\ t - m.shutdownStart > ShutdownTimeout

-----------------------------------------------------------------------------
(* Node: readyChanged is the Ready condition's lastTransitionTime, None as *)
(* long as the Node has no Ready condition; present is FALSE while there   *)
(* is no such object.                                                      *)

NodeRecord ==
  [present: BOOLEAN, ready: BOOLEAN, readyChanged: Time,
   unschedulable: BOOLEAN, cordonedByONP: BOOLEAN, alwaysOn: BOOLEAN]

NoNode ==
  [present |-> FALSE, ready |-> FALSE, readyChanged |-> None,
   unschedulable |-> FALSE, cordonedByONP |-> FALSE, alwaysOn |-> FALSE]

nodeIsReady(n) == n.present /\ n.ready

nodeAlwaysOn(n) == n.present /\ n.alwaysOn

nodeWentDownSince_anyChange(n, since) ==
  ~n.present \/ (n.readyChanged # None /\ (since = None \/ n.readyChanged >= since))

nodeWentDownSince(n, since) ==
  \/ ~n.present
  \/ /\ ~n.ready
     /\ n.readyChanged # None
     /\ since = None \/ n.readyChanged >= since

-----------------------------------------------------------------------------
(* Pods: a view maps every pod name to its phase as some reader sees it.   *)

PodPhases == {"absent", "running", "terminating", "finished"}

isWorkload(view, p) ==
  /\ view[p] \in {"running", "terminating"}
  /\ ~PodKind[p].mirror
  /\ ~PodKind[p].daemonSet

keepsNodeOn(view, p) ==
  \/ isWorkload(view, p)
  \/ view[p] \in {"running", "terminating"} /\ PodKind[p].doNotDisrupt

isDrainable(view, p, force) ==
  /\ isWorkload(view, p)
  /\ view[p] # "terminating"
  /\ force \/ ~PodKind[p].doNotDisrupt

podsKeepingNodeOn(view) == {p \in Pods : keepsNodeOn(view, p)}

-----------------------------------------------------------------------------
(* drainPolicy: one pool decides by itself; several are in conflict, and   *)
(* the shortest budget without force applies; none leaves the defaults.    *)

poolDrainTimeout(pool) ==
  IF pool.timeout = None THEN DefaultDrainTimeout ELSE pool.timeout

conservativeDrainTimeout_longest ==
  CHOOSE t \in {poolDrainTimeout(p) : p \in MatchingPools} :
    \A p \in MatchingPools : t >= poolDrainTimeout(p)

conservativeDrainTimeout ==
  CHOOSE t \in {poolDrainTimeout(p) : p \in MatchingPools} :
    \A p \in MatchingPools : t <= poolDrainTimeout(p)

drainTimeout ==
  IF MatchingPools = {} THEN DefaultDrainTimeout ELSE conservativeDrainTimeout

drainForce ==
  \E pool \in MatchingPools : MatchingPools = {pool} /\ pool.force

=============================================================================
