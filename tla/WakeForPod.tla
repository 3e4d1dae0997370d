----------------------------- MODULE WakeForPod -----------------------------
(***************************************************************************)
(* One wake from the pod's point of view.  Scale-up chooses a powered-off  *)
(* Machine because the pod would fit the Node it will be; the controller   *)
(* puts that Node into service in three writes; kubelet, node controller   *)
(* and operator write the same Node meanwhile.                             *)
(***************************************************************************)
EXTENDS NodeFit

CONSTANTS
  PoolTemplates,   \* spec.template of the pool: [labels, taints]
  MachineSpecs,    \* the Machine: [nodeName, labels, capacity]
  PodSpecs,        \* the pod: [selector, volumes, tolerates, requests]
  Hosts,           \* what the kubelet reports once up: [Resources -> Nat]
  OldLabels,       \* what an earlier template left on the Node: labels
  OldTaints,       \*   and taints
  OperatorTaint,   \* the taint an operator puts on and takes off
  StaleCache,      \* may the informer cache trail the Node
  MaxEdits         \* bound: number of edits by an operator

Effects == {"NoSchedule", "NoExecute", "PreferNoSchedule"}

\* What an earlier template left has no taint twice and none of the lifecycle's,
\* and leaves the hostname to the kubelet.
ASSUME WakeAssumption ==
  /\ \A t \in PoolTemplates : /\ DOMAIN t.labels = LabelKeys
                              /\ \A taint \in t.taints : taint.effect \in Effects
  /\ \A s \in MachineSpecs : /\ DOMAIN s.labels = LabelKeys /\ s.nodeName # Unset
                             /\ s.capacity \in [Resources -> Nat \cup {Unset}]
  /\ \A p \in PodSpecs : p.requests \in [Resources -> Nat]
  /\ Hosts \subseteq [Resources -> Nat]
  /\ \A l \in OldLabels : l["hostname"] = Unset
  /\ \A taints \in OldTaints :
       /\ \A t \in taints : t.effect \in Effects /\ t.key \notin LifecycleKeys
       /\ \A t, u \in taints : SameTaint(t, u) => t = u
  /\ OperatorTaint.effect \in Effects /\ OperatorTaint.key \notin LifecycleKeys
  /\ MaxEdits \in Nat

VARIABLES
  pool, spec, pod, hostRoom,  \* fixed in a behaviour
  overlap,   \* a second pool selects the Machine
  node,      \* the Node object
  nodeCache, \*   and the controller's informer cache of it
  bound,     \* requests of the pods bound to it: [staying, leaving]
  phase,     \* where the wake is: see Phases
  edited,    \* an operator changed something since the Machine was chosen
  edits      \* edits made so far

config == <<pool, spec, pod, hostRoom>>
vars == <<config, overlap, node, nodeCache, bound, phase, edited, edits>>

\* uncordoned and stamped lie between the writes of promoteToReady.
Phases == {"Off", "Booting", "uncordoned", "stamped", "Ready"}

NothingRequested == [r \in Resources |-> 0]

NoNode ==
  [present |-> FALSE, ready |-> FALSE, labels |-> NoLabels, taints |-> {},
   unschedulable |-> FALSE, cordonedByONP |-> FALSE,
   allocatable |-> [r \in Resources |-> Unset]]

Lifecycle(key) == [key |-> key, effect |-> "NoSchedule", value |-> Unset]

\* A host declares no more of a resource than it has, as far as ONP has to rely
\* on the declaration: for a Node it has never seen and for device plugins.
Honest ==
  \A r \in Resources :
    spec.capacity[r] # Unset /\ (node.present => r \in Extended)
      => spec.capacity[r] <= hostRoom[r]

\* The Node of an earlier life of the Machine, with the labels and taints some
\* template left on it, cordoned by ONP, by an operator or not at all.
OldNode(labels, taints, cordon) ==
  [present |-> TRUE, ready |-> FALSE,
   labels |-> Overlay(Hostname(spec), labels),
   taints |-> taints \cup {Lifecycle("not-ready")}
              \cup (IF cordon = "none" THEN {} ELSE {Lifecycle("unschedulable")}),
   unschedulable |-> cordon # "none", cordonedByONP |-> cordon = "ONP",
   allocatable |-> [r \in Resources |-> IF r \in Extended THEN 0 ELSE hostRoom[r]]]

Init ==
  /\ pool \in PoolTemplates /\ spec \in MachineSpecs /\ pod \in PodSpecs
  /\ hostRoom \in Hosts
  /\ \/ node = NoNode /\ bound = [staying |-> NothingRequested, leaving |-> NothingRequested]
     \/ /\ \E labels \in OldLabels, taints \in OldTaints, cordon \in {"none", "ONP", "operator"} :
             node = OldNode(labels, taints, cordon)
        /\ bound \in [{"staying", "leaving"} -> {NothingRequested, pod.requests}]
  /\ Honest
  /\ nodeCache = node
  /\ overlap = FALSE
  /\ phase = "Off" /\ edited = FALSE /\ edits = 0

CachedNode == IF StaleCache THEN nodeCache ELSE node

-----------------------------------------------------------------------------
(* Scale-up.                                                               *)

boundRequests == bound.staying

\* A Machine of two pools is no candidate.  A copy that is not current is an
\* edit the choice did not see.
ChooseMachine ==
  /\ phase = "Off" /\ ~overlap
  /\ Fit(pod, nodeForMachine(spec, pool, CachedNode, boundRequests))
  /\ phase' = "Booting"
  /\ edited' = (CachedNode # node)
  /\ UNCHANGED <<config, overlap, node, nodeCache, bound, edits>>

-----------------------------------------------------------------------------
(* promoteToReady: lift ONP's cordon, stamp the template, enter Ready.  A  *)
(* write that fails sends the wake back to Booting, to start over.         *)

PromoteStep(from, to) ==
  /\ phase = from
  /\ CachedNode.present /\ CachedNode.ready
  /\ phase' \in {to, "Booting"}
  /\ UNCHANGED <<config, overlap, nodeCache, bound, edited, edits>>

uncordonIfONPCordoned ==
  /\ PromoteStep("Booting", "uncordoned")
  /\ IF phase' = "uncordoned" /\ CachedNode.cordonedByONP
       THEN node' = [node EXCEPT !.unschedulable = @ /\ ~CachedNode.unschedulable,
                                 !.cordonedByONP = FALSE]
       ELSE node' = node

NoTemplate == [labels |-> NoLabels, taints |-> {}]

\* A missing key of a Go map reads as the empty string.
ReadLabel(labels, k) == IF labels[k] = Unset THEN Empty ELSE labels[k]

\* A merge patch sends the labels that read differently from its copy of the
\* Node, key by key.
StampedLabels(desired) ==
  [k \in LabelKeys |-> IF desired[k] \notin {Unset, ReadLabel(CachedNode.labels, k)}
                         THEN desired[k] ELSE node.labels[k]]

StampedTaints_always(desired) == mergeTaints(CachedNode.taints, desired)

\* The taints are sent as one list, if one of the template's is missing from its
\* copy of the Node.
StampedTaints(desired) ==
  LET merged == mergeTaints(CachedNode.taints, desired)
  IN  IF merged = CachedNode.taints THEN node.taints ELSE merged

Stamped ==
  LET template == IF overlap THEN NoTemplate ELSE pool
  IN  [node EXCEPT !.labels = StampedLabels(desiredLabels(spec, template)),
                   !.taints = StampedTaints(template.taints)]

applyNodeTemplate ==
  /\ PromoteStep("uncordoned", "stamped")
  /\ node' = IF phase' = "stamped" THEN Stamped ELSE node

EnterReady == PromoteStep("stamped", "Ready") /\ node' = node

-----------------------------------------------------------------------------
(* Kubelet, device plugins and node controller.                            *)

\* The host is up: the kubelet registers the Node, or finds it, and reports.
NodeBecomesReady ==
  /\ phase = "Booting" /\ ~node.ready
  /\ node' = [node EXCEPT
       !.present = TRUE, !.ready = TRUE,
       !.labels = Overlay(@, Hostname(spec)),
       !.allocatable = [r \in Resources |-> IF r \in Extended THEN 0 ELSE hostRoom[r]]]
  /\ UNCHANGED <<config, overlap, nodeCache, bound, phase, edited, edits>>

PluginsRegister ==
  /\ node.ready /\ node.allocatable # hostRoom
  /\ node' = [node EXCEPT !.allocatable = hostRoom]
  /\ UNCHANGED <<config, overlap, nodeCache, bound, phase, edited, edits>>

\* Pods deleted while the Node was down go once it is up.
LeavingPodsGo ==
  /\ node.ready /\ bound.leaving # NothingRequested
  /\ bound' = [bound EXCEPT !.leaving = NothingRequested]
  /\ UNCHANGED <<config, overlap, node, nodeCache, phase, edited, edits>>

LifecycleTaints(n) ==
  {Lifecycle(key) : key \in {k \in {"not-ready"} : ~n.ready}
                             \cup {k \in {"unschedulable"} : n.unschedulable}}

NodeControllerTaints ==
  /\ node.present
  /\ node.taints \ persistentTaints(node.taints) # LifecycleTaints(node)
  /\ node' = [node EXCEPT !.taints = persistentTaints(@) \cup LifecycleTaints(node)]
  /\ UNCHANGED <<config, overlap, nodeCache, bound, phase, edited, edits>>

SyncNode ==
  /\ StaleCache /\ nodeCache # node
  /\ nodeCache' = node
  /\ UNCHANGED <<config, overlap, node, bound, phase, edited, edits>>

-----------------------------------------------------------------------------
(* The operator.                                                           *)

Edit ==
  /\ edits < MaxEdits /\ edits' = edits + 1
  /\ edited' = (edited \/ phase # "Off")
  /\ UNCHANGED <<config, nodeCache, bound, phase>>

EditTaint ==
  /\ Edit /\ node.present
  /\ node' = [node EXCEPT !.taints = IF OperatorTaint \in @ THEN @ \ {OperatorTaint}
                                              ELSE mergeTaints(@, {OperatorTaint})]
  /\ UNCHANGED overlap

EditCordon ==
  /\ Edit /\ node.present
  /\ node' = [node EXCEPT !.unschedulable = ~@]
  /\ UNCHANGED overlap

EditReservedLabel ==
  /\ Edit /\ node.present
  /\ \E k \in ReservedLabels, v \in {"true", Unset} : node' = [node EXCEPT !.labels[k] = v]
  /\ UNCHANGED overlap

EditPools == Edit /\ overlap' = ~overlap /\ UNCHANGED node

Operator == EditTaint \/ EditCordon \/ EditReservedLabel \/ EditPools

-----------------------------------------------------------------------------

Next ==
  \/ ChooseMachine
  \/ uncordonIfONPCordoned \/ applyNodeTemplate \/ EnterReady
  \/ NodeBecomesReady \/ PluginsRegister \/ LeavingPodsGo \/ NodeControllerTaints
  \/ SyncNode
  \/ Operator

Spec == Init /\ [][Next]_vars

\* What the kube-scheduler asks of a Node before it binds the pod.
Admits(n) ==
  /\ n.unschedulable => "unschedulable" \in pod.tolerates
  /\ \A t \in n.taints : t.effect = "PreferNoSchedule" \/ t.key \in pod.tolerates
  /\ \A k \in LabelKeys : /\ pod.selector[k] # Unset => n.labels[k] = pod.selector[k]
                          /\ pod.volumes[k] # Unset => n.labels[k] = pod.volumes[k]
  /\ \A r \in Resources :
       pod.requests[r] = 0 \/ /\ n.allocatable[r] # Unset
                              /\ pod.requests[r] + bound.staying[r] + bound.leaving[r]
                                   <= n.allocatable[r]

\* Everyone but ONP and the operator has done their part on a Node in service.
Settled ==
  /\ node.ready /\ node.allocatable = hostRoom
  /\ bound.leaving = NothingRequested
  /\ node.taints \ persistentTaints(node.taints) = LifecycleTaints(node)

\* "Without this a pod ... passes fit but never binds, looping wake -> empty ->
\* drain -> wake": the Node that enters service admits the pod it was woken for.
PredictionKept == phase = "Ready" /\ Settled /\ ~edited => Admits(node)

\* Stamping a template never gives a Node two taints the API server would
\* reject side by side.
TaintsUnique == \A t, u \in node.taints : SameTaint(t, u) => t = u

Stamps == phase = "uncordoned" /\ phase' = "stamped"

\* "adds missing labels/taints and never removes an operator's later edits", as
\* far as the merge can keep it.  However old its copy of the Node is, no label
\* is taken away and none is changed but to what the template says; and a taint
\* the template does not set is lost only if it is behind the copy and the
\* template has one of its own to add.
TemplateOnlyAdds ==
  [][Stamps =>
       /\ \A k \in LabelKeys :
            \/ node'.labels[k] = node.labels[k]
            \/ node'.labels[k] \in {pool.labels[k], spec.labels[k]} \ {Unset}
       /\ \A t \in node.taints :
            \/ t \in node'.taints
            \/ \E u \in pool.taints : SameTaint(t, u)
            \/ t \notin CachedNode.taints /\ ~(pool.taints \subseteq CachedNode.taints)]_vars

\* Only an operator sets or removes the labels ONP reads as safety signals.
ReservedLabelsKept ==
  [][\A k \in ReservedLabels : node'.labels[k] # node.labels[k] => edits' # edits]_vars

=============================================================================
