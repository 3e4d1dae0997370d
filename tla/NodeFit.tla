------------------------------- MODULE NodeFit -------------------------------
(***************************************************************************)
(* The pure half of a wake: which Node a powered-off Machine will be, and  *)
(* whether a pod fits it.  Labels and resource lists are functions from    *)
(* all keys, Unset where the key is missing; a taint is a key, an effect   *)
(* and a value.                                                            *)
(***************************************************************************)
EXTENDS Integers

CONSTANTS
  Unset,           \* a missing map entry
  Empty,           \* the empty string, which a label may have as its value
  LabelKeys,       \* label keys in play
  ReservedLabels,  \* reservedNodeLabels
  Resources,       \* resource names in play
  Extended         \* those with a domain, such as nvidia.com/gpu

ASSUME FitAssumption ==
  /\ Unset \notin Int /\ Empty # Unset
  /\ "hostname" \in LabelKeys \ ReservedLabels /\ ReservedLabels \subseteq LabelKeys
  /\ Extended \subseteq Resources

NoLabels == [k \in LabelKeys |-> Unset]

\* The second map's entries laid over the first's.
Overlay(f, g) == [k \in DOMAIN f |-> IF g[k] # Unset THEN g[k] ELSE f[k]]

-----------------------------------------------------------------------------
(* Taints.                                                                 *)

SameTaint(t, u) == t.key = u.key /\ t.effect = u.effect

keptTaints_all(taints, more) == taints

\* Key and effect identify a taint: of the old ones, those stay that no new one
\* takes the place of.
keptTaints(taints, more) == {u \in taints : \A t \in more : ~SameTaint(u, t)}

\* Of the entries of a list that are the same taint, the one whose value stays.
LastOf(entries) == CHOOSE t \in entries : TRUE

mergeTaints(taints, more) ==
  keptTaints(taints, more) \cup {LastOf({u \in more : SameTaint(u, t)}) : t \in more}

\* The keys with the prefix node.kubernetes.io/.
LifecycleKeys == {"not-ready", "unreachable", "unschedulable"}

persistentTaints(taints) == {t \in taints : t.key \notin LifecycleKeys}

isHardTaint(t) == t.effect \in {"NoSchedule", "NoExecute"}

-----------------------------------------------------------------------------
(* The synthetic Node of a powered-off Machine: real is its Node object,   *)
(* bound the requests of the pods still bound to it.                       *)

Smallest(a, b) == IF b < a THEN b ELSE a

declaredRoom_uncapped(capacity, real, r) ==
  IF capacity[r] = Unset THEN real.allocatable[r] ELSE capacity[r]

\* The room before the bound pods are counted.
declaredRoom(capacity, real, r) ==
  LET reported == real.allocatable[r]
  IN  CASE ~real.present \/ reported = Unset \/ (capacity[r] # Unset /\ r \in Extended) ->
             capacity[r]
        [] real.present /\ reported # Unset /\ capacity[r] = Unset -> reported
        [] OTHER -> Smallest(capacity[r], reported)

syntheticAllocatable(capacity, real, bound) ==
  [r \in Resources |->
     LET room == declaredRoom(capacity, real, r)
     IN  IF room = Unset THEN Unset ELSE IF bound[r] > room THEN 0 ELSE room - bound[r]]

Hostname(spec) == [NoLabels EXCEPT !["hostname"] = spec.nodeName]

nodeForMachine(spec, pool, real, bound) ==
  [labels |-> Overlay(Overlay(Overlay(Hostname(spec), real.labels), pool.labels),
                      spec.labels),
   taints |-> mergeTaints(persistentTaints(real.taints), pool.taints),
   unschedulable |-> real.unschedulable /\ ~real.cordonedByONP,
   allocatable |-> syntheticAllocatable(spec.capacity, real, bound)]

-----------------------------------------------------------------------------
(* Fit.  A pod names the labels it requires, by its selector and by its    *)
(* volumes, the taint keys it tolerates and what it requests.              *)

Matches(required, labels) == \A k \in LabelKeys : required[k] \in {Unset, labels[k]}

schedulable(pod, node) == node.unschedulable => "unschedulable" \in pod.tolerates

matchesNodeAffinity(pod, node) == Matches(pod.selector, node.labels)

toleratesHardTaints(pod, node) ==
  \A t \in node.taints : isHardTaint(t) => t.key \in pod.tolerates

fitsResources(requests, allocatable) ==
  \A r \in Resources :
    requests[r] <= (IF allocatable[r] = Unset THEN 0 ELSE allocatable[r])

VolumeNodeAffinity(pod, node) == Matches(pod.volumes, node.labels)

Fit(pod, node) ==
  /\ schedulable(pod, node)
  /\ matchesNodeAffinity(pod, node)
  /\ toleratesHardTaints(pod, node)
  /\ fitsResources(pod.requests, node.allocatable)
  /\ VolumeNodeAffinity(pod, node)

-----------------------------------------------------------------------------
(* What applyNodeTemplate wants on the Node.  A Machine in conflict has no *)
(* pool to take a template from.                                           *)

dropReservedLabels_none(labels) == labels

dropReservedLabels(labels) ==
  [k \in LabelKeys |-> IF k \in ReservedLabels THEN Unset ELSE labels[k]]

desiredLabels(spec, pool) == dropReservedLabels(Overlay(pool.labels, spec.labels))

=============================================================================
