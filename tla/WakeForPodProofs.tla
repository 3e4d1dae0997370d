-------------------------- MODULE WakeForPodProofs --------------------------
(***************************************************************************)
(* Proofs about WakeForPod for every value of its constants: any labels,   *)
(* taints and resources, any templates, Machines and pods, a cache that is *)
(* current or trails, and any number of edits.                             *)
(***************************************************************************)
EXTENDS WakeForPod, TLAPS

\* No template promises a pod a label that ONP reserves: the labels a pod
\* requires and those a template sets have no reserved one in common.
ReservedNotPromised ==
  \A t \in PoolTemplates, s \in MachineSpecs, p \in PodSpecs, k \in ReservedLabels :
    \/ p.selector[k] = Unset /\ p.volumes[k] = Unset
    \/ t.labels[k] = Unset /\ s.labels[k] = Unset

\* No pod requires the empty value of a label that Machine or template empty.
EmptyNotPromised ==
  \A t \in PoolTemplates, s \in MachineSpecs, p \in PodSpecs, k \in LabelKeys :
    s.labels[k] = Empty \/ (s.labels[k] = Unset /\ t.labels[k] = Empty)
      => p.selector[k] # Empty /\ p.volumes[k] # Empty

-----------------------------------------------------------------------------
(* The inductive invariant.                                                *)

IsNode(n) ==
  /\ n = [present |-> n.present, ready |-> n.ready, labels |-> n.labels, taints |-> n.taints,
          unschedulable |-> n.unschedulable, cordonedByONP |-> n.cordonedByONP,
          allocatable |-> n.allocatable]
  /\ {n.present, n.ready, n.unschedulable, n.cordonedByONP} \subseteq BOOLEAN
  /\ n.labels = [k \in LabelKeys |-> n.labels[k]]
  /\ n.allocatable \in [Resources -> Nat \cup {Unset}]

Shape ==
  /\ pool \in PoolTemplates /\ spec \in MachineSpecs /\ pod \in PodSpecs /\ hostRoom \in Hosts
  /\ IsNode(node) /\ IsNode(nodeCache)
  /\ bound \in [{"staying", "leaving"} -> [Resources -> Nat]]
  /\ phase \in Phases /\ edits \in Nat /\ overlap \in BOOLEAN /\ edited \in BOOLEAN

OneOfEach(taints) == \A t, u \in taints : SameTaint(t, u) => t = u

TaintsInv == \A n \in {node, CachedNode} :
  OneOfEach(n.taints) /\ \A t \in n.taints : t.effect \in Effects

InPromotion == phase \in {"uncordoned", "stamped", "Ready"}

\* A promotion has seen a Node that is up and has lifted ONP's cordon.  A Node
\* stays up and ONP does not cordon it again here, so a copy that trails shows
\* neither too early.
UpInv ==
  /\ CachedNode.ready => node.ready
  /\ node.ready => node.present
  /\ InPromotion => node.ready /\ ~node.cordonedByONP
  /\ phase = "Off" => ~node.ready
  /\ node.cordonedByONP => CachedNode.cordonedByONP

Wanted == desiredLabels(spec, pool)

\* A label the template sets is stamped although the copy may trail, unless its
\* value is empty: a copy that shows it, of a Node that is up, shows what the
\* Node has.
LabelsInv ==
  /\ ~node.ready => node.labels["hostname"] \in {Unset, spec.nodeName}
  /\ node.ready => node.labels["hostname"] # Unset
  /\ \A k \in LabelKeys : Wanted[k] # Unset =>
       /\ CachedNode.ready /\ CachedNode.labels[k] = Wanted[k] => node.labels[k] = Wanted[k]
       /\ phase \in {"stamped", "Ready"} /\ ~edited /\ Wanted[k] # Empty
            => node.labels[k] = Wanted[k]

\* What the kubelet reports is the host's, before and after the device plugins.
RoomInv ==
  /\ node.present => \A r \in Resources : node.allocatable[r] \in {0, hostRoom[r]}
  /\ phase = "Off" => Honest

Predicted == Overlay(Overlay(Overlay(Hostname(spec), node.labels), pool.labels), spec.labels)

Tolerated(taints) == \A t \in taints : isHardTaint(t) => t.key \in pod.tolerates

\* As long as no operator interferes, what the choice found stays true of the
\* Node and of the copy the promotion reads.
ChoiceInv ==
  phase # "Off" /\ ~edited =>
    /\ ~overlap
    /\ node.unschedulable => node.cordonedByONP \/ "unschedulable" \in pod.tolerates
    /\ node.unschedulable => CachedNode.unschedulable
    /\ Tolerated(persistentTaints(node.taints)) /\ Tolerated(persistentTaints(CachedNode.taints))
    /\ Tolerated(pool.taints)
    /\ Matches(pod.selector, Predicted) /\ Matches(pod.volumes, Predicted)
    /\ \A r \in Resources :
         pod.requests[r] = 0 \/ pod.requests[r] + bound.staying[r] <= hostRoom[r]

WakeInv == Shape /\ TaintsInv /\ UpInv /\ LabelsInv /\ RoomInv /\ ChoiceInv

-----------------------------------------------------------------------------
(* Taints.                                                                 *)

\* Merging keeps one of each, and adds nothing that is not the template's.
LEMMA MergeKeepsOneOfEach ==
  ASSUME NEW taints, NEW more, OneOfEach(taints)
  PROVE  /\ OneOfEach(mergeTaints(taints, more))
         /\ mergeTaints(taints, more) \subseteq taints \cup more
         /\ \A t \in taints : t \in mergeTaints(taints, more) \/ \E u \in more : SameTaint(t, u)
         /\ \A t \in more : \E u \in mergeTaints(taints, more) : SameTaint(t, u)
  <1> DEFINE same(t) == {u \in more : SameTaint(u, t)}
  <1>1. \A t \in more : LastOf(same(t)) \in more /\ SameTaint(LastOf(same(t)), t)
    BY DEF LastOf, SameTaint
  <1>2. \A t, u \in more : SameTaint(t, u) => same(t) = same(u)
    BY DEF SameTaint
  <1>3. mergeTaints(taints, more) = keptTaints(taints, more) \cup {LastOf(same(t)) : t \in more}
    BY DEF mergeTaints
  <1> HIDE DEF same
  <1>4. OneOfEach(mergeTaints(taints, more))
    <2> SUFFICES ASSUME NEW t \in mergeTaints(taints, more), NEW u \in mergeTaints(taints, more),
                        SameTaint(t, u)
                 PROVE  t = u
      BY DEF OneOfEach
    <2>1. CASE t \in keptTaints(taints, more) /\ u \in keptTaints(taints, more)
      BY <2>1 DEF OneOfEach, keptTaints
    <2>2. CASE \E v \in more : t = LastOf(same(v))
      <3>1. PICK v \in more : t = LastOf(same(v))
        BY <2>2
      <3>2. PICK w \in more : u = LastOf(same(w))
        BY <1>1, <1>3, <3>1 DEF keptTaints, SameTaint
      <3>3. SameTaint(v, w)
        BY <1>1, <3>1, <3>2 DEF SameTaint
      <3> QED BY <1>2, <3>1, <3>2, <3>3
    <2>3. CASE \E w \in more : u = LastOf(same(w))
      <3>1. PICK w \in more : u = LastOf(same(w))
        BY <2>3
      <3>2. PICK v \in more : t = LastOf(same(v))
        BY <1>1, <1>3, <3>1 DEF keptTaints, SameTaint
      <3>3. SameTaint(v, w)
        BY <1>1, <3>1, <3>2 DEF SameTaint
      <3> QED BY <1>2, <3>1, <3>2, <3>3
    <2> QED BY <1>3, <2>1, <2>2, <2>3
  <1>5. mergeTaints(taints, more) \subseteq taints \cup more
    BY <1>1, <1>3 DEF keptTaints
  <1>6. \A t \in taints : t \in mergeTaints(taints, more) \/ \E u \in more : SameTaint(t, u)
    BY <1>3 DEF keptTaints
  <1>7. \A t \in more : \E u \in mergeTaints(taints, more) : SameTaint(t, u)
    BY <1>1, <1>3 DEF SameTaint
  <1> QED BY <1>4, <1>5, <1>6, <1>7

-----------------------------------------------------------------------------
(* What the steps write.                                                   *)

\* The copy stays as it is or is brought up to date.
LEMMA CopyMoves ==
  ASSUME [Next]_vars
  PROVE  CachedNode' = CachedNode \/ CachedNode' = node'
  BY DEF Next, vars, config, ChooseMachine, uncordonIfONPCordoned, applyNodeTemplate, EnterReady,
         PromoteStep, NodeBecomesReady, PluginsRegister, LeavingPodsGo, NodeControllerTaints,
         SyncNode, Operator, EditTaint, EditCordon, EditReservedLabel, EditPools, Edit,
         CachedNode

\* Who writes which field of the Node.
LEMMA WritersOfNode ==
  ASSUME Shape, [Next]_vars
  PROVE  /\ IsNode(node')
         /\ node'.labels # node.labels => applyNodeTemplate \/ NodeBecomesReady \/ EditReservedLabel
         /\ node'.taints # node.taints => applyNodeTemplate \/ NodeControllerTaints \/ EditTaint
         /\ node'.unschedulable # node.unschedulable => uncordonIfONPCordoned \/ EditCordon
         /\ node'.cordonedByONP # node.cordonedByONP => uncordonIfONPCordoned
         /\ node'.allocatable # node.allocatable => NodeBecomesReady \/ PluginsRegister
         /\ node'.ready # node.ready \/ node'.present # node.present => NodeBecomesReady
  <1>0. IsNode(node)
    BY DEF Shape
  <1>1. CASE node' = node
    BY <1>0, <1>1
  <1>2. CASE uncordonIfONPCordoned
    <2>1. CASE node' = [node EXCEPT !.unschedulable = @ /\ ~CachedNode.unschedulable,
                                    !.cordonedByONP = FALSE]
      BY <1>0, <1>2, <2>1 DEF IsNode
    <2> QED BY <1>1, <1>2, <2>1 DEF uncordonIfONPCordoned
  <1>3. CASE applyNodeTemplate
    <2> DEFINE labels == StampedLabels(desiredLabels(spec, IF overlap THEN NoTemplate ELSE pool))
               taints == StampedTaints((IF overlap THEN NoTemplate ELSE pool).taints)
    <2>1. labels = [k \in LabelKeys |-> labels[k]]
      BY DEF StampedLabels
    <2>2. node' = node \/ node' = [node EXCEPT !.labels = labels, !.taints = taints]
      BY <1>3 DEF applyNodeTemplate, Stamped
    <2> HIDE DEF labels, taints
    <2> QED BY <1>0, <1>1, <1>3, <2>1, <2>2 DEF IsNode
  <1>4. CASE NodeBecomesReady
    <2> DEFINE labels == Overlay(node.labels, Hostname(spec))
               room == [r \in Resources |-> IF r \in Extended THEN 0 ELSE hostRoom[r]]
    <2>1. labels = [k \in LabelKeys |-> labels[k]]
      BY <1>0 DEF Overlay, IsNode
    <2>2. room \in [Resources -> Nat \cup {Unset}]
      BY WakeAssumption DEF Shape
    <2>3. node' = [node EXCEPT !.present = TRUE, !.ready = TRUE,
                               !.labels = labels, !.allocatable = room]
      BY <1>4 DEF NodeBecomesReady
    <2> HIDE DEF labels, room
    <2> QED BY <1>0, <1>4, <2>1, <2>2, <2>3 DEF IsNode
  <1>5. CASE PluginsRegister
    <2>1. hostRoom \in [Resources -> Nat \cup {Unset}]
      BY WakeAssumption DEF Shape
    <2> QED BY <1>0, <1>5, <2>1 DEF IsNode, PluginsRegister
  <1>6. CASE NodeControllerTaints
    BY <1>0, <1>6 DEF IsNode, NodeControllerTaints
  <1>7. CASE EditTaint
    BY <1>0, <1>7 DEF IsNode, EditTaint
  <1>8. CASE EditCordon
    BY <1>0, <1>8 DEF IsNode, EditCordon
  <1>9. CASE EditReservedLabel
    <2>1. PICK k \in ReservedLabels, v \in {"true", Unset} : node' = [node EXCEPT !.labels[k] = v]
      BY <1>9 DEF EditReservedLabel
    <2> DEFINE labels == [node.labels EXCEPT ![k] = v]
    <2>2. labels = [l \in LabelKeys |-> labels[l]]
      BY <1>0 DEF IsNode
    <2>3. node' = [node EXCEPT !.labels = labels]
      BY <1>0, <2>1 DEF IsNode
    <2> HIDE DEF labels
    <2> QED BY <1>0, <1>9, <2>2, <2>3 DEF IsNode
  <1> QED BY <1>1, <1>2, <1>3, <1>4, <1>5, <1>6, <1>7, <1>8, <1>9
          DEF Next, vars, ChooseMachine, EnterReady, LeavingPodsGo, SyncNode, Operator, EditPools

\* Who writes the rest.
LEMMA WritersOfRest ==
  ASSUME Shape, [Next]_vars
  PROVE  /\ UNCHANGED config
         /\ bound' \in [{"staying", "leaving"} -> [Resources -> Nat]]
         /\ bound'.staying = bound.staying
         /\ phase' # phase =>
              ChooseMachine \/ uncordonIfONPCordoned \/ applyNodeTemplate \/ EnterReady
         /\ overlap' # overlap => EditPools
         /\ EditTaint \/ EditCordon \/ EditReservedLabel \/ EditPools =>
              edits' # edits /\ phase' = phase /\ (phase # "Off" => edited')
         /\ phase # "Off" /\ edited => edited'
  <1>1. UNCHANGED config
    BY DEF Next, vars, config, ChooseMachine, uncordonIfONPCordoned, applyNodeTemplate, EnterReady,
         PromoteStep, NodeBecomesReady, PluginsRegister, LeavingPodsGo, NodeControllerTaints,
         SyncNode, Operator, EditTaint, EditCordon, EditReservedLabel, EditPools, Edit
  <1>2. /\ bound' \in [{"staying", "leaving"} -> [Resources -> Nat]]
        /\ bound'.staying = bound.staying
    BY DEF Shape, Next, vars, config, ChooseMachine, uncordonIfONPCordoned, applyNodeTemplate,
         EnterReady, PromoteStep, NodeBecomesReady, PluginsRegister, LeavingPodsGo,
         NodeControllerTaints, SyncNode, Operator, EditTaint, EditCordon, EditReservedLabel,
         EditPools, Edit, NothingRequested
  <1>3. phase' # phase =>
          ChooseMachine \/ uncordonIfONPCordoned \/ applyNodeTemplate \/ EnterReady
    BY DEF Next, vars, NodeBecomesReady, PluginsRegister, LeavingPodsGo, NodeControllerTaints,
         SyncNode, Operator, EditTaint, EditCordon, EditReservedLabel, EditPools, Edit
  <1>4. overlap' # overlap => EditPools
    BY DEF Next, vars, ChooseMachine, uncordonIfONPCordoned, applyNodeTemplate, EnterReady,
         PromoteStep, NodeBecomesReady, PluginsRegister, LeavingPodsGo, NodeControllerTaints,
         SyncNode, Operator, EditTaint, EditCordon, EditReservedLabel
  <1>5. EditTaint \/ EditCordon \/ EditReservedLabel \/ EditPools =>
          edits' # edits /\ phase' = phase /\ (phase # "Off" => edited')
    <2> SUFFICES ASSUME Edit PROVE edits' # edits /\ phase' = phase /\ (phase # "Off" => edited')
      BY DEF EditTaint, EditCordon, EditReservedLabel, EditPools
    <2>1. edits' # edits
      BY DEF Edit, Shape
    <2>2. phase' = phase /\ (phase # "Off" => edited')
      BY Zenon DEF Edit
    <2> QED BY <2>1, <2>2
  <1>6. phase # "Off" /\ edited => edited'
    BY DEF Next, vars, ChooseMachine, uncordonIfONPCordoned, applyNodeTemplate, EnterReady,
         PromoteStep, NodeBecomesReady, PluginsRegister, LeavingPodsGo, NodeControllerTaints,
         SyncNode, Operator, EditTaint, EditCordon, EditReservedLabel, EditPools, Edit
  <1> QED BY <1>1, <1>2, <1>3, <1>4, <1>5, <1>6

-----------------------------------------------------------------------------
(* Every step keeps the invariant, conjunct by conjunct.                   *)

\* Every object keeps its shape.
LEMMA NextKeepsShape ==
  ASSUME Shape, [Next]_vars
  PROVE  Shape'
  <1>1. /\ UNCHANGED config /\ bound' \in [{"staying", "leaving"} -> [Resources -> Nat]]
        /\ IsNode(node')
    BY WritersOfNode, WritersOfRest
  <1>2. nodeCache' = nodeCache \/ nodeCache' = node
    BY DEF Next, vars, ChooseMachine, uncordonIfONPCordoned, applyNodeTemplate, EnterReady,
         PromoteStep, NodeBecomesReady, PluginsRegister, LeavingPodsGo, NodeControllerTaints,
         SyncNode, Operator, EditTaint, EditCordon, EditReservedLabel, EditPools, Edit
  <1>3. IsNode(nodeCache')
    BY <1>2 DEF Shape
  <1>4. phase' \in Phases
    BY DEF Shape, Phases, Next, vars, ChooseMachine, uncordonIfONPCordoned, applyNodeTemplate,
         EnterReady, PromoteStep, NodeBecomesReady, PluginsRegister, LeavingPodsGo,
         NodeControllerTaints, SyncNode, Operator, EditTaint, EditCordon, EditReservedLabel,
         EditPools, Edit
  <1>5. edits' \in Nat
    BY DEF Shape, Next, vars, ChooseMachine, uncordonIfONPCordoned, applyNodeTemplate,
         EnterReady, PromoteStep, NodeBecomesReady, PluginsRegister, LeavingPodsGo,
         NodeControllerTaints, SyncNode, Operator, EditTaint, EditCordon, EditReservedLabel,
         EditPools, Edit
  <1>6. overlap' \in BOOLEAN /\ edited' \in BOOLEAN
    BY DEF Shape, Next, vars, ChooseMachine, uncordonIfONPCordoned, applyNodeTemplate,
         EnterReady, PromoteStep, NodeBecomesReady, PluginsRegister, LeavingPodsGo,
         NodeControllerTaints, SyncNode, Operator, EditTaint, EditCordon, EditReservedLabel,
         EditPools, Edit
  <1> QED BY <1>1, <1>3, <1>4, <1>5, <1>6 DEF Shape, config

\* What a stamp leaves of the taints: those of the Node, or the copy's merged.
LEMMA StampWrites ==
  ASSUME Shape, applyNodeTemplate
  PROVE  \/ node' = node /\ phase' = "Booting"
         \/ \E template \in {pool, NoTemplate} :
              /\ template = (IF overlap THEN NoTemplate ELSE pool)
              /\ phase = "uncordoned" /\ phase' = "stamped"
              /\ CachedNode.ready
              /\ node'.labels = StampedLabels(desiredLabels(spec, template))
              /\ \/ node'.taints = node.taints
                    /\ mergeTaints(CachedNode.taints, template.taints) = CachedNode.taints
                 \/ node'.taints = mergeTaints(CachedNode.taints, template.taints)
                    /\ mergeTaints(CachedNode.taints, template.taints) # CachedNode.taints
  <1> DEFINE template == IF overlap THEN NoTemplate ELSE pool
             labels == StampedLabels(desiredLabels(spec, template))
             taints == StampedTaints(template.taints)
  <1>1. IsNode(node)
    BY DEF Shape
  <1>2. /\ phase = "uncordoned" /\ phase' \in {"stamped", "Booting"} /\ CachedNode.ready
        /\ node' = IF phase' = "stamped" THEN [node EXCEPT !.labels = labels, !.taints = taints]
                                         ELSE node
    BY DEF applyNodeTemplate, PromoteStep, Stamped
  <1>3. \/ taints = node.taints /\ mergeTaints(CachedNode.taints, template.taints) = CachedNode.taints
        \/ taints = mergeTaints(CachedNode.taints, template.taints)
           /\ mergeTaints(CachedNode.taints, template.taints) # CachedNode.taints
    BY DEF StampedTaints
  <1>4. template \in {pool, NoTemplate}
    OBVIOUS
  <1> HIDE DEF labels, taints
  <1>5. ASSUME phase' = "stamped" PROVE node'.labels = labels /\ node'.taints = taints
    BY <1>1, <1>2, <1>5 DEF IsNode
  <1>6. CASE phase' = "stamped"
    <2> SUFFICES /\ node'.labels = StampedLabels(desiredLabels(spec, template))
                 /\ \/ node'.taints = node.taints
                       /\ mergeTaints(CachedNode.taints, template.taints) = CachedNode.taints
                    \/ node'.taints = mergeTaints(CachedNode.taints, template.taints)
                       /\ mergeTaints(CachedNode.taints, template.taints) # CachedNode.taints
      BY <1>2, <1>4, <1>6
    <2> QED BY <1>3, <1>5, <1>6 DEF labels
  <1> QED BY <1>2, <1>6

\* Merging in taints that are all there changes nothing.
LEMMA MergeOfPresent ==
  ASSUME NEW taints, NEW more, OneOfEach(taints), more \subseteq taints
  PROVE  mergeTaints(taints, more) = taints
  <1>1. mergeTaints(taints, more) \subseteq taints
    BY MergeKeepsOneOfEach
  <1>2. ASSUME NEW t \in taints PROVE t \in mergeTaints(taints, more)
    <2>1. CASE \E u \in more : SameTaint(t, u)
      <3>1. PICK u \in more : SameTaint(t, u)
        BY <2>1
      <3>2. PICK v \in mergeTaints(taints, more) : SameTaint(u, v)
        BY MergeKeepsOneOfEach
      <3> QED BY <1>1, <3>1, <3>2 DEF OneOfEach, SameTaint
    <2> QED BY <2>1, MergeKeepsOneOfEach
  <1> QED BY <1>1, <1>2

\* Every step leaves a Node, and every copy of it, one of each taint.
LEMMA NextKeepsTaints ==
  ASSUME Shape, TaintsInv, [Next]_vars
  PROVE  TaintsInv'
  <1> DEFINE Fine(taints) == OneOfEach(taints) /\ \A t \in taints : t.effect \in Effects
  <1>1. Fine(node.taints) /\ Fine(CachedNode.taints)
    BY DEF TaintsInv
  <1>2. Fine(node'.taints)
    <2>1. CASE node'.taints = node.taints
      BY <1>1, <2>1
    <2>2. CASE applyNodeTemplate
      <3>1. CASE node' = node
        BY <1>1, <3>1
      <3>2. CASE \E more \in {pool.taints, {}} :
                   \/ node'.taints = node.taints
                   \/ node'.taints = mergeTaints(CachedNode.taints, more)
        <4>1. PICK more \in {pool.taints, {}} :
                   \/ node'.taints = node.taints
                   \/ node'.taints = mergeTaints(CachedNode.taints, more)
          BY <3>2
        <4>2. \A t \in more : t.effect \in Effects
          BY <4>1, WakeAssumption DEF Shape
        <4>3. Fine(mergeTaints(CachedNode.taints, more))
          BY <1>1, <4>2, MergeKeepsOneOfEach
        <4> QED BY <1>1, <4>1, <4>3
      <3> QED BY <2>2, <3>1, <3>2, StampWrites DEF NoTemplate
    <2>3. CASE NodeControllerTaints
      <3>1. node'.taints = persistentTaints(node.taints) \cup LifecycleTaints(node)
        BY <2>3 DEF NodeControllerTaints, Shape, IsNode
      <3>2. \A t \in LifecycleTaints(node) :
              t.effect = "NoSchedule" /\ t.key \in LifecycleKeys /\ t.value = Unset
              /\ t = Lifecycle(t.key)
        BY DEF LifecycleTaints, Lifecycle, LifecycleKeys
      <3>3. \A t \in persistentTaints(node.taints) : t \in node.taints /\ t.key \notin LifecycleKeys
        BY DEF persistentTaints
      <3>4. OneOfEach(node'.taints)
        BY <1>1, <3>1, <3>2, <3>3 DEF OneOfEach, SameTaint
      <3>5. \A t \in node'.taints : t.effect \in Effects
        BY <1>1, <3>1, <3>2, <3>3 DEF Effects
      <3> QED BY <3>4, <3>5
    <2>4. CASE EditTaint
      <3>1. \/ node'.taints = node.taints \ {OperatorTaint}
            \/ node'.taints = mergeTaints(node.taints, {OperatorTaint})
        BY <2>4 DEF EditTaint, Shape, IsNode
      <3>2. Fine(mergeTaints(node.taints, {OperatorTaint}))
        BY <1>1, WakeAssumption, MergeKeepsOneOfEach
      <3> QED BY <1>1, <3>1, <3>2 DEF OneOfEach
    <2> QED BY <2>1, <2>2, <2>3, <2>4, WritersOfNode
  <1>3. Fine(CachedNode'.taints)
    BY <1>1, <1>2, CopyMoves
  <1> QED BY <1>2, <1>3 DEF TaintsInv, OneOfEach

\* Every step keeps what is known of a Node that is up.
LEMMA NextKeepsUp ==
  ASSUME Shape, UpInv, [Next]_vars
  PROVE  UpInv'
  <1>0. IsNode(node) /\ phase \in Phases
    BY DEF Shape
  <1>1. node.ready => node'.ready
    BY <1>0, WritersOfNode DEF NodeBecomesReady, IsNode
  <1>2. node'.cordonedByONP => node.cordonedByONP
    BY <1>0, WritersOfNode DEF uncordonIfONPCordoned, IsNode
  <1>3. CachedNode'.ready => node'.ready
    BY <1>1, CopyMoves DEF UpInv
  <1>4. node'.cordonedByONP => CachedNode'.cordonedByONP
    BY <1>2, CopyMoves DEF UpInv
  <1>5. node'.ready => node'.present
    BY <1>0, WritersOfNode DEF UpInv, NodeBecomesReady, IsNode
  <1>6. phase' = "Off" => ~node'.ready
    <2>1. phase' = "Off" => phase = "Off"
      BY WritersOfRest DEF ChooseMachine, uncordonIfONPCordoned, applyNodeTemplate, EnterReady,
                           PromoteStep
    <2> QED BY <1>0, <2>1, WritersOfNode DEF UpInv, NodeBecomesReady
  <1>7. InPromotion' => node'.ready /\ ~node'.cordonedByONP
    <2> SUFFICES ASSUME InPromotion' PROVE node'.ready /\ ~node'.cordonedByONP
      OBVIOUS
    <2>1. CASE InPromotion
      BY <1>1, <1>2, <2>1 DEF UpInv
    <2>2. CASE ~InPromotion
      <3>1. uncordonIfONPCordoned /\ phase' = "uncordoned"
        BY <2>2, WritersOfRest DEF InPromotion, ChooseMachine, uncordonIfONPCordoned,
                                   applyNodeTemplate, EnterReady, PromoteStep
      <3>2. CachedNode.ready
        BY <3>1 DEF uncordonIfONPCordoned, PromoteStep
      <3>3. ~node'.cordonedByONP
        <4>1. CASE CachedNode.cordonedByONP
          BY <1>0, <3>1, <4>1 DEF uncordonIfONPCordoned, IsNode
        <4>2. CASE ~CachedNode.cordonedByONP
          BY <1>2, <4>2 DEF UpInv
        <4> QED BY <4>1, <4>2
      <3> QED BY <1>1, <3>2, <3>3 DEF UpInv
    <2> QED BY <2>1, <2>2
  <1> QED BY <1>3, <1>4, <1>5, <1>6, <1>7 DEF UpInv

\* What the template wants of a label: nothing of a reserved one, else the
\* Machine's own value or the pool's.
LEMMA WantedLabels ==
  ASSUME Shape, NEW k \in LabelKeys
  PROVE  /\ Wanted[k] = (IF k \in ReservedLabels THEN Unset
                         ELSE IF spec.labels[k] # Unset THEN spec.labels[k] ELSE pool.labels[k])
         /\ desiredLabels(spec, NoTemplate)[k] =
              (IF k \in ReservedLabels THEN Unset ELSE spec.labels[k])
         /\ Hostname(spec)[k] = (IF k = "hostname" THEN spec.nodeName ELSE Unset)
         /\ Predicted[k] = (IF spec.labels[k] # Unset THEN spec.labels[k]
                            ELSE IF pool.labels[k] # Unset THEN pool.labels[k]
                            ELSE IF node.labels[k] # Unset THEN node.labels[k]
                            ELSE Hostname(spec)[k])
  <1>1. DOMAIN pool.labels = LabelKeys /\ DOMAIN Hostname(spec) = LabelKeys
        /\ DOMAIN NoLabels = LabelKeys /\ NoLabels[k] = Unset
    BY WakeAssumption DEF Shape, Hostname, NoLabels
  <1>2. Hostname(spec)[k] = (IF k = "hostname" THEN spec.nodeName ELSE Unset)
    BY DEF Hostname, NoLabels
  <1>3. Wanted[k] = (IF k \in ReservedLabels THEN Unset
                     ELSE IF spec.labels[k] # Unset THEN spec.labels[k] ELSE pool.labels[k])
    BY <1>1 DEF Wanted, desiredLabels, dropReservedLabels, Overlay
  <1>4. desiredLabels(spec, NoTemplate)[k] =
              (IF k \in ReservedLabels THEN Unset ELSE spec.labels[k])
    BY <1>1 DEF desiredLabels, dropReservedLabels, Overlay, NoTemplate
  <1>5. Predicted[k] = (IF spec.labels[k] # Unset THEN spec.labels[k]
                            ELSE IF pool.labels[k] # Unset THEN pool.labels[k]
                            ELSE IF node.labels[k] # Unset THEN node.labels[k]
                            ELSE Hostname(spec)[k])
    BY <1>1 DEF Predicted, Overlay
  <1> QED BY <1>2, <1>3, <1>4, <1>5

\* The labels a stamp writes, one by one.
LEMMA StampLabels ==
  ASSUME Shape, applyNodeTemplate, NEW k \in LabelKeys
  PROVE  \/ node'.labels[k] = node.labels[k]
         \/ /\ k \notin ReservedLabels /\ Wanted[k] # Unset
            /\ node'.labels[k] \in {pool.labels[k], spec.labels[k]}
            /\ node'.labels[k] = Wanted[k]
  <1>1. CASE node' = node
    BY <1>1
  <1>2. CASE \E template \in {pool, NoTemplate} :
               node'.labels = StampedLabels(desiredLabels(spec, template))
    <2>1. PICK template \in {pool, NoTemplate} :
               node'.labels = StampedLabels(desiredLabels(spec, template))
      BY <1>2
    <2> DEFINE desired == desiredLabels(spec, template)
    <2>2. \/ node'.labels[k] = node.labels[k]
          \/ node'.labels[k] = desired[k] /\ desired[k] # Unset
      BY <2>1 DEF StampedLabels
    <2>3. desired[k] # Unset => /\ k \notin ReservedLabels
                                /\ desired[k] \in {pool.labels[k], spec.labels[k]}
                                /\ desired[k] = Wanted[k]
      <3>1. CASE template = pool
        BY <3>1, WantedLabels DEF Wanted
      <3>2. CASE template = NoTemplate
        BY <3>2, WantedLabels
      <3> QED BY <3>1, <3>2
    <2> HIDE DEF desired
    <2> QED BY <2>2, <2>3
  <1> QED BY <1>1, <1>2, StampWrites

\* A label that the template wants and the copy does not show is stamped, unless
\* it is wanted empty.
LEMMA StampReaches ==
  ASSUME Shape, LabelsInv, applyNodeTemplate, phase' = "stamped", ~overlap,
         NEW k \in LabelKeys, Wanted[k] # Unset, Wanted[k] # Empty
  PROVE  node'.labels[k] = Wanted[k]
  <1>1. CachedNode.ready /\ node'.labels = StampedLabels(Wanted)
    BY StampWrites DEF Wanted
  <1>2. CASE Wanted[k] = CachedNode.labels[k]
    BY <1>1, <1>2 DEF StampedLabels, ReadLabel, LabelsInv
  <1>3. CASE Wanted[k] # CachedNode.labels[k]
    BY <1>1, <1>3 DEF StampedLabels, ReadLabel
  <1> QED BY <1>2, <1>3

\* The kubelet writes the hostname only.
LEMMA KubeletLabels ==
  ASSUME Shape, NodeBecomesReady
  PROVE  /\ node'.ready /\ ~node.ready /\ phase = "Booting" /\ phase' = phase
         /\ \A k \in LabelKeys :
              node'.labels[k] = IF k = "hostname" THEN spec.nodeName ELSE node.labels[k]
  <1>1. /\ node'.ready /\ ~node.ready /\ phase = "Booting" /\ phase' = phase
        /\ node'.labels = Overlay(node.labels, Hostname(spec))
    BY DEF NodeBecomesReady, Shape, IsNode
  <1>2. spec.nodeName # Unset /\ DOMAIN node.labels = LabelKeys
    BY WakeAssumption DEF Shape, IsNode
  <1> QED BY <1>1, <1>2, WantedLabels DEF Overlay

\* An operator's edit of labels here is one of a reserved label.
LEMMA EditLabels ==
  ASSUME Shape, EditReservedLabel
  PROVE  \A k \in LabelKeys \ ReservedLabels : node'.labels[k] = node.labels[k]
  BY DEF EditReservedLabel, Shape, IsNode

\* Every step keeps what is known of the labels.
LEMMA NextKeepsLabels ==
  ASSUME Shape, UpInv, LabelsInv, ChoiceInv, [Next]_vars
  PROVE  LabelsInv'
  <1>0. UNCHANGED config /\ IsNode(node) /\ IsNode(node')
    BY WritersOfRest, WritersOfNode DEF Shape
  <1>1. Wanted' = Wanted /\ spec' = spec
    BY <1>0 DEF Wanted, config
  <1>2. /\ ~node'.ready => node'.labels["hostname"] \in {Unset, spec'.nodeName}
        /\ node'.ready => node'.labels["hostname"] # Unset
    <2>0. "hostname" \in LabelKeys \ ReservedLabels
      BY FitAssumption
    <2>1. CASE NodeBecomesReady
      BY <2>0, <2>1, KubeletLabels, WakeAssumption DEF Shape
    <2>2. CASE applyNodeTemplate
      <3>1. node.ready /\ node'.ready
        BY <2>2, WritersOfNode, StampWrites DEF UpInv, NodeBecomesReady, applyNodeTemplate,
                                                PromoteStep, InPromotion
      <3> QED BY <2>0, <2>2, <3>1, StampLabels DEF LabelsInv
    <2>3. CASE ~NodeBecomesReady /\ ~applyNodeTemplate
      <3>1. node'.ready = node.ready /\ node'.labels["hostname"] = node.labels["hostname"]
        BY <2>0, <2>3, WritersOfNode, EditLabels
      <3> QED BY <1>1, <3>1 DEF LabelsInv
    <2> QED BY <2>1, <2>2, <2>3
  <1>3. ASSUME NEW k \in LabelKeys, Wanted[k] # Unset, node.ready, node.labels[k] = Wanted[k]
        PROVE  node'.labels[k] = Wanted[k]
    <2>1. k \notin ReservedLabels
      BY <1>3, WantedLabels
    <2> QED BY <1>3, <2>1, WritersOfNode, EditLabels, StampLabels DEF NodeBecomesReady
  <1>4. ASSUME NEW k \in LabelKeys, Wanted[k] # Unset,
               CachedNode'.ready, CachedNode'.labels[k] = Wanted[k]
        PROVE  node'.labels[k] = Wanted[k]
    <2>1. CASE CachedNode' = node'
      BY <1>4, <2>1
    <2>2. CASE CachedNode' = CachedNode
      <3>1. CachedNode.ready /\ CachedNode.labels[k] = Wanted[k]
        BY <1>4, <2>2
      <3>2. node.ready /\ node.labels[k] = Wanted[k]
        BY <1>4, <3>1 DEF LabelsInv, UpInv
      <3> QED BY <1>3, <1>4, <3>2
    <2> QED BY <2>1, <2>2, CopyMoves
  <1>5. ASSUME NEW k \in LabelKeys, Wanted[k] # Unset, Wanted[k] # Empty,
               phase' \in {"stamped", "Ready"}, ~edited'
        PROVE  node'.labels[k] = Wanted[k]
    <2>1. CASE phase \in {"stamped", "Ready"}
      <3>1. ~edited /\ node.ready
        BY <1>5, <2>1, WritersOfRest DEF UpInv, InPromotion
      <3> QED BY <1>3, <1>5, <2>1, <3>1 DEF LabelsInv
    <2>2. CASE phase \notin {"stamped", "Ready"}
      <3>1. applyNodeTemplate /\ phase' = "stamped" /\ phase = "uncordoned"
        BY <1>5, <2>2, WritersOfRest DEF ChooseMachine, uncordonIfONPCordoned, applyNodeTemplate,
                                         EnterReady, PromoteStep
      <3>2. ~overlap
        BY <1>5, <3>1, WritersOfRest DEF ChoiceInv
      <3> QED BY <1>5, <3>1, <3>2, StampReaches
    <2> QED BY <2>1, <2>2
  <1> QED BY <1>1, <1>2, <1>4, <1>5 DEF LabelsInv

\* Every step keeps what is known of the host's room.
LEMMA NextKeepsRoom ==
  ASSUME Shape, UpInv, RoomInv, [Next]_vars
  PROVE  RoomInv'
  <1>0. UNCHANGED config /\ IsNode(node) /\ IsNode(node')
    BY WritersOfRest, WritersOfNode DEF Shape
  <1>1. hostRoom' = hostRoom /\ spec' = spec /\ hostRoom \in [Resources -> Nat]
    BY <1>0, WakeAssumption DEF config, Shape
  <1>2. node'.present => \A r \in Resources : node'.allocatable[r] \in {0, hostRoom[r]}
    <2>1. CASE NodeBecomesReady
      <3>1. node'.allocatable = [r \in Resources |-> IF r \in Extended THEN 0 ELSE hostRoom[r]]
        BY <1>0, <2>1 DEF NodeBecomesReady, IsNode
      <3> QED BY <3>1
    <2>2. CASE PluginsRegister
      BY <1>0, <2>2 DEF PluginsRegister, IsNode
    <2>3. CASE ~NodeBecomesReady /\ ~PluginsRegister
      <3>1. node'.present = node.present /\ node'.allocatable = node.allocatable
        BY <2>3, WritersOfNode
      <3> QED BY <3>1 DEF RoomInv
    <2> QED BY <2>1, <2>2, <2>3
  <1>3. phase' = "Off" => Honest'
    <2> SUFFICES ASSUME phase' = "Off" PROVE Honest'
      OBVIOUS
    <2>1. phase = "Off"
      BY WritersOfRest DEF ChooseMachine, uncordonIfONPCordoned, applyNodeTemplate, EnterReady,
                           PromoteStep
    <2>2. node'.present = node.present
      BY <2>1, WritersOfNode DEF NodeBecomesReady
    <2>3. Honest
      BY <2>1 DEF RoomInv
    <2> QED BY <1>1, <2>2, <2>3 DEF Honest
  <1> QED BY <1>1, <1>2, <1>3 DEF RoomInv

-----------------------------------------------------------------------------
(* The choice and what becomes of it.                                      *)

\* A pod tolerates a taint or does not by its key and effect.
LEMMA SameToleration ==
  ASSUME NEW t, NEW u, SameTaint(t, u), isHardTaint(u) => u.key \in pod.tolerates
  PROVE  isHardTaint(t) => t.key \in pod.tolerates
  BY DEF SameTaint, isHardTaint

\* A pod that fits the room a Machine declares fits the room its host has.
LEMMA RoomIsThere ==
  ASSUME Shape, RoomInv, phase = "Off", NEW r \in Resources,
         fitsResources(pod.requests, syntheticAllocatable(spec.capacity, node, bound.staying))
  PROVE  pod.requests[r] = 0 \/ pod.requests[r] + bound.staying[r] <= hostRoom[r]
  <1> DEFINE room == declaredRoom(spec.capacity, node, r)
             offer == syntheticAllocatable(spec.capacity, node, bound.staying)[r]
  <1>1. /\ pod.requests[r] \in Nat /\ hostRoom[r] \in Nat /\ bound.staying[r] \in Nat
        /\ spec.capacity[r] \in Nat \cup {Unset} /\ node.allocatable[r] \in Nat \cup {Unset}
        /\ Unset \notin Nat
    BY WakeAssumption, FitAssumption DEF Shape, IsNode
  <1>2. pod.requests[r] <= (IF offer = Unset THEN 0 ELSE offer)
    BY DEF fitsResources
  <1>3. offer = IF room = Unset THEN Unset
                ELSE IF bound.staying[r] > room THEN 0 ELSE room - bound.staying[r]
    BY DEF syntheticAllocatable
  <1>4. room = Unset \/ (room \in Nat /\ room <= hostRoom[r])
    <2>1. node.present => node.allocatable[r] \in Nat /\ node.allocatable[r] <= hostRoom[r]
      BY <1>1 DEF RoomInv
    <2>2. spec.capacity[r] # Unset /\ (node.present => r \in Extended)
            => spec.capacity[r] <= hostRoom[r]
      BY DEF RoomInv, Honest
    <2>3. CASE ~node.present
      <3>1. room = spec.capacity[r]
        BY <2>3 DEF declaredRoom
      <3>2. spec.capacity[r] # Unset => spec.capacity[r] <= hostRoom[r]
        BY <2>2, <2>3
      <3> HIDE DEF room
      <3> QED BY <1>1, <3>1, <3>2
    <2>4. CASE node.present
      BY <1>1, <2>1, <2>2, <2>4 DEF declaredRoom, Smallest
    <2> QED BY <2>3, <2>4 DEF Shape, IsNode
  <1> HIDE DEF room, offer
  <1> QED BY <1>1, <1>2, <1>3, <1>4

\* The choice establishes what the promotion has to keep.
LEMMA ChoiceMade ==
  ASSUME Shape, TaintsInv, RoomInv, ChooseMachine
  PROVE  ChoiceInv'
  <1> SUFFICES ASSUME ~edited' PROVE ChoiceInv'
    BY DEF ChoiceInv
  <1>1. /\ phase = "Off" /\ ~overlap /\ ~overlap' /\ CachedNode = node
        /\ UNCHANGED <<config, node, nodeCache, bound>>
        /\ Fit(pod, nodeForMachine(spec, pool, node, bound.staying))
    BY DEF ChooseMachine, boundRequests
  <1>2. CachedNode' = node
    BY <1>1 DEF CachedNode
  <1>3. node.unschedulable => node.cordonedByONP \/ "unschedulable" \in pod.tolerates
    BY <1>1 DEF Fit, schedulable, nodeForMachine
  <1>4. Tolerated(persistentTaints(node.taints)) /\ Tolerated(pool.taints)
    <2> DEFINE kept == persistentTaints(node.taints)
               merged == mergeTaints(kept, pool.taints)
    <2>1. Tolerated(merged)
      BY <1>1 DEF Fit, toleratesHardTaints, nodeForMachine, Tolerated
    <2>2. OneOfEach(kept)
      BY DEF TaintsInv, OneOfEach, persistentTaints
    <2> HIDE DEF kept
    <2>3. /\ \A t \in kept : t \in merged \/ \E u \in pool.taints : SameTaint(t, u)
          /\ \A t \in pool.taints : \E u \in merged : SameTaint(t, u)
      BY <2>2, MergeKeepsOneOfEach
    <2> HIDE DEF merged
    <2>4. Tolerated(pool.taints)
      BY <2>1, <2>3, SameToleration DEF Tolerated
    <2>5. Tolerated(kept)
      BY <2>1, <2>3, <2>4, SameToleration DEF Tolerated
    <2> QED BY <2>4, <2>5 DEF kept
  <1>5. Matches(pod.selector, Predicted) /\ Matches(pod.volumes, Predicted)
    BY <1>1 DEF Fit, matchesNodeAffinity, VolumeNodeAffinity, nodeForMachine, Predicted
  <1>6. \A r \in Resources :
          pod.requests[r] = 0 \/ pod.requests[r] + bound.staying[r] <= hostRoom[r]
    BY <1>1, RoomIsThere DEF Fit, nodeForMachine
  <1>7. Predicted' = Predicted
    BY <1>1 DEF Predicted, config
  <1> QED BY <1>1, <1>2, <1>3, <1>4, <1>5, <1>6, <1>7 DEF ChoiceInv, config, Tolerated

\* As long as nobody edits, every step keeps the labels that were predicted.
LEMMA PredictionStays ==
  ASSUME Shape, LabelsInv, [Next]_vars, ~EditReservedLabel, NEW k \in LabelKeys
  PROVE  Predicted'[k] = Predicted[k]
  <1>0. UNCHANGED config /\ Shape'
    BY WritersOfRest, NextKeepsShape
  <1>1. spec' = spec /\ pool' = pool /\ Hostname(spec)' = Hostname(spec)
    BY <1>0 DEF config, Hostname
  <1>2. Predicted'[k] = (IF spec.labels[k] # Unset THEN spec.labels[k]
                         ELSE IF pool.labels[k] # Unset THEN pool.labels[k]
                         ELSE IF node'.labels[k] # Unset THEN node'.labels[k]
                         ELSE Hostname(spec)[k])
    <2>1. DOMAIN pool.labels = LabelKeys /\ DOMAIN Hostname(spec) = LabelKeys
      BY WakeAssumption DEF Shape, Hostname, NoLabels
    <2> QED BY <1>1, <2>1 DEF Predicted, Overlay
  <1>3. CASE node'.labels[k] = node.labels[k]
    BY <1>2, <1>3, WantedLabels
  <1>4. CASE applyNodeTemplate
    BY <1>2, <1>3, <1>4, StampLabels, WantedLabels
  <1>5. CASE NodeBecomesReady
    BY <1>2, <1>3, <1>5, KubeletLabels, WantedLabels, WakeAssumption DEF LabelsInv, Shape
  <1> QED BY <1>3, <1>4, <1>5, WritersOfNode

\* Every step keeps the choice good until an operator interferes.
LEMMA NextKeepsChoice ==
  ASSUME WakeInv, [Next]_vars
  PROVE  ChoiceInv'
  <1> USE DEF WakeInv
  <1>1. CASE ChooseMachine
    BY <1>1, ChoiceMade
  <1>2. CASE ~ChooseMachine
    <2> SUFFICES ASSUME phase' # "Off", ~edited' PROVE ChoiceInv'
      BY DEF ChoiceInv
    <2>1. /\ phase # "Off" /\ ~edited
          /\ ~EditTaint /\ ~EditCordon /\ ~EditReservedLabel /\ ~EditPools
      BY <1>2, WritersOfRest DEF uncordonIfONPCordoned, applyNodeTemplate, EnterReady, PromoteStep
    <2>2. UNCHANGED config /\ bound'.staying = bound.staying /\ overlap' = overlap /\ IsNode(node)
      BY <2>1, WritersOfRest DEF Shape
    <2>3. pod' = pod /\ pool' = pool /\ hostRoom' = hostRoom
      BY <2>2 DEF config
    <2>4. /\ node'.unschedulable => node'.cordonedByONP \/ "unschedulable" \in pod.tolerates
          /\ node'.unschedulable => CachedNode'.unschedulable
      <3>1. node'.unschedulable => node.unschedulable
        BY <2>1, <2>2, WritersOfNode DEF uncordonIfONPCordoned, IsNode
      <3>2. node'.unschedulable => CachedNode'.unschedulable
        BY <2>1, <3>1, CopyMoves DEF ChoiceInv
      <3>3. ASSUME node'.unschedulable, "unschedulable" \notin pod.tolerates
            PROVE  node'.cordonedByONP
        <4>1. node.unschedulable /\ node.cordonedByONP /\ CachedNode.unschedulable
          BY <2>1, <3>1, <3>3 DEF ChoiceInv
        <4>2. CachedNode.cordonedByONP
          BY <4>1 DEF UpInv
        <4>3. ~uncordonIfONPCordoned \/ node' = node
          BY <2>2, <3>3, <4>1, <4>2 DEF uncordonIfONPCordoned, IsNode
        <4> QED BY <4>1, <4>3, WritersOfNode
      <3> QED BY <3>2, <3>3
    <2>5. Tolerated(persistentTaints(node'.taints)) /\ Tolerated(persistentTaints(CachedNode'.taints))
      <3>1. /\ Tolerated(persistentTaints(node.taints))
            /\ Tolerated(persistentTaints(CachedNode.taints)) /\ Tolerated(pool.taints) /\ ~overlap
        BY <2>1 DEF ChoiceInv
      <3>2. Tolerated(persistentTaints(node'.taints))
        <4>1. CASE node'.taints = node.taints
          BY <3>1, <4>1
        <4>2. CASE applyNodeTemplate
          <5>1. node'.taints = node.taints \/ node'.taints = mergeTaints(CachedNode.taints, pool.taints)
            BY <3>1, <4>2, StampWrites
          <5>2. mergeTaints(CachedNode.taints, pool.taints) \subseteq CachedNode.taints \cup pool.taints
            BY MergeKeepsOneOfEach DEF TaintsInv
          <5> QED BY <3>1, <5>1, <5>2 DEF Tolerated, persistentTaints
        <4>3. CASE NodeControllerTaints
          <5>1. node'.taints = persistentTaints(node.taints) \cup LifecycleTaints(node)
            BY <2>2, <4>3 DEF NodeControllerTaints, IsNode
          <5>2. \A t \in LifecycleTaints(node) : t.key \in LifecycleKeys
            BY DEF LifecycleTaints, Lifecycle, LifecycleKeys
          <5> QED BY <3>1, <5>1, <5>2 DEF Tolerated, persistentTaints
        <4> QED BY <2>1, <4>1, <4>2, <4>3, WritersOfNode
      <3>3. CASE CachedNode' = node'
        BY <3>2, <3>3
      <3>4. CASE CachedNode' = CachedNode
        BY <3>1, <3>2, <3>4
      <3> QED BY <3>3, <3>4, CopyMoves
    <2>6. \A k \in LabelKeys : Predicted'[k] = Predicted[k]
      BY <2>1, PredictionStays
    <2> QED BY <2>1, <2>2, <2>3, <2>4, <2>5, <2>6 DEF ChoiceInv, Tolerated, Matches
  <1> QED BY <1>1, <1>2

-----------------------------------------------------------------------------
(* The theorems.                                                           *)

\* The Node a wake starts from, if there is one, is an old one of the host's.
LEMMA InitHasWakeInv ==
  ASSUME Init
  PROVE  WakeInv
  <1>0. /\ pool \in PoolTemplates /\ spec \in MachineSpecs /\ pod \in PodSpecs /\ hostRoom \in Hosts
        /\ nodeCache = node /\ overlap = FALSE /\ phase = "Off" /\ edited = FALSE /\ edits = 0
        /\ Honest
    BY DEF Init
  <1>1. CachedNode = node
    BY <1>0 DEF CachedNode
  <1>2. /\ pod.requests \in [Resources -> Nat] /\ NothingRequested \in [Resources -> Nat]
        /\ hostRoom \in [Resources -> Nat]
    BY <1>0, WakeAssumption DEF NothingRequested
  <1>3. bound \in [{"staying", "leaving"} -> [Resources -> Nat]]
    BY <1>2 DEF Init
  <1>4. "hostname" \in LabelKeys
    BY FitAssumption
  <1>5. CASE node = NoNode
    <2>1. IsNode(node) /\ ~node.ready /\ ~node.present /\ node.taints = {}
          /\ node.labels["hostname"] = Unset
      BY <1>4, <1>5 DEF NoNode, IsNode, NoLabels
    <2> QED BY <1>0, <1>1, <1>3, <2>1 DEF WakeInv, Shape, TaintsInv, OneOfEach, UpInv, InPromotion,
                                         LabelsInv, RoomInv, ChoiceInv, Phases
  <1>6. CASE \E labels \in OldLabels, taints \in OldTaints, cordon \in {"none", "ONP", "operator"} :
               node = OldNode(labels, taints, cordon)
    <2>1. PICK labels \in OldLabels, taints \in OldTaints, cordon \in {"none", "ONP", "operator"} :
            node = OldNode(labels, taints, cordon)
      BY <1>6
    <2> DEFINE marks == {Lifecycle("not-ready")}
                          \cup (IF cordon = "none" THEN {} ELSE {Lifecycle("unschedulable")})
               room == [r \in Resources |-> IF r \in Extended THEN 0 ELSE hostRoom[r]]
               named == Overlay(Hostname(spec), labels)
    <2>2. node = [present |-> TRUE, ready |-> FALSE, labels |-> named, taints |-> taints \cup marks,
                  unschedulable |-> cordon # "none", cordonedByONP |-> cordon = "ONP",
                  allocatable |-> room]
      BY <2>1 DEF OldNode
    <2>3. room \in [Resources -> Nat \cup {Unset}] /\ \A r \in Resources : room[r] \in {0, hostRoom[r]}
      BY <1>2
    <2>4. named = [k \in LabelKeys |-> named[k]] /\ named["hostname"] = spec.nodeName
      BY <1>0, <1>4, WakeAssumption DEF Overlay, Hostname, NoLabels
    <2>5. \A t \in marks : t = Lifecycle(t.key) /\ t.key \in LifecycleKeys /\ t.effect \in Effects
      BY DEF Lifecycle, LifecycleKeys, Effects
    <2>6. /\ \A t \in taints : t.effect \in Effects /\ t.key \notin LifecycleKeys
          /\ \A t, u \in taints : SameTaint(t, u) => t = u
      BY WakeAssumption
    <2> HIDE DEF marks, room, named
    <2>7. OneOfEach(taints \cup marks) /\ \A t \in taints \cup marks : t.effect \in Effects
      BY <2>5, <2>6 DEF OneOfEach, SameTaint
    <2>8. /\ node.present = TRUE /\ node.ready = FALSE /\ node.labels = named
          /\ node.taints = taints \cup marks /\ node.allocatable = room
      BY <2>2
    <2>9. IsNode(node)
      BY <2>2, <2>3, <2>4 DEF IsNode
    <2>10. Shape /\ TaintsInv /\ UpInv /\ LabelsInv /\ RoomInv /\ ChoiceInv
      BY <1>0, <1>1, <1>3, <2>3, <2>4, <2>7, <2>8, <2>9
         DEF Shape, TaintsInv, UpInv, InPromotion, LabelsInv, RoomInv, ChoiceInv, Phases
    <2> QED BY <2>10 DEF WakeInv
  <1> QED BY <1>5, <1>6 DEF Init

\* The invariant holds in every state of every wake.
LEMMA WakeInvHolds == Spec => []WakeInv
  <1>1. Init => WakeInv
    BY InitHasWakeInv
  <1>2. WakeInv /\ [Next]_vars => WakeInv'
    BY NextKeepsShape, NextKeepsTaints, NextKeepsUp, NextKeepsLabels, NextKeepsRoom, NextKeepsChoice
       DEF WakeInv
  <1> QED BY <1>1, <1>2, PTL DEF Spec

\* The Node that enters service admits the pod it was woken for, as long as no
\* pod is promised a reserved label or an empty one: applyNodeTemplate drops the
\* former and takes the latter for a missing key, and nodeForMachine does neither.
THEOREM PredictionIsKept ==
  ASSUME ReservedNotPromised, EmptyNotPromised
  PROVE  Spec => []PredictionKept
  <1>1. WakeInv => PredictionKept
    <2> SUFFICES ASSUME WakeInv, phase = "Ready", Settled, ~edited PROVE Admits(node)
      BY DEF PredictionKept
    <2> USE DEF WakeInv
    <2>1. /\ node.unschedulable => node.cordonedByONP \/ "unschedulable" \in pod.tolerates
          /\ Tolerated(persistentTaints(node.taints))
          /\ Matches(pod.selector, Predicted) /\ Matches(pod.volumes, Predicted)
          /\ \A r \in Resources :
               pod.requests[r] = 0 \/ pod.requests[r] + bound.staying[r] <= hostRoom[r]
      BY DEF ChoiceInv
    <2>2. node.ready /\ ~node.cordonedByONP
      BY DEF UpInv, InPromotion
    <2>3. node.unschedulable => "unschedulable" \in pod.tolerates
      BY <2>1, <2>2
    <2>4. \A t \in node.taints : t.effect = "PreferNoSchedule" \/ t.key \in pod.tolerates
      <3>1. \A t \in LifecycleTaints(node) : t.key = "unschedulable" /\ node.unschedulable
        BY <2>2 DEF LifecycleTaints, Lifecycle
      <3>2. \A t \in node.taints : t \in persistentTaints(node.taints) \/ t \in LifecycleTaints(node)
        BY DEF Settled
      <3>3. \A t \in node.taints : t.effect = "PreferNoSchedule" \/ isHardTaint(t)
        BY DEF TaintsInv, Effects, isHardTaint
      <3> QED BY <2>1, <2>3, <3>1, <3>2, <3>3 DEF Tolerated
    <2>5. ASSUME NEW k \in LabelKeys
          PROVE  \/ Predicted[k] = node.labels[k]
                 \/ pod.selector[k] = Unset /\ pod.volumes[k] = Unset
      <3>1. node.labels["hostname"] # Unset
            /\ (Wanted[k] \notin {Unset, Empty} => node.labels[k] = Wanted[k])
        BY <2>2 DEF LabelsInv
      <3>2. CASE k \in ReservedLabels
        BY <3>2, FitAssumption, WantedLabels DEF ReservedNotPromised, Shape
      <3>3. CASE k \notin ReservedLabels /\ Wanted[k] # Empty
        BY <3>1, <3>3, WantedLabels
      <3>4. CASE k \notin ReservedLabels /\ Wanted[k] = Empty
        <4>1. /\ Predicted[k] = Empty
              /\ spec.labels[k] = Empty \/ (spec.labels[k] = Unset /\ pool.labels[k] = Empty)
          BY <3>4, FitAssumption, WantedLabels
        <4>2. pod.selector[k] # Empty /\ pod.volumes[k] # Empty
          BY <4>1 DEF EmptyNotPromised, Shape
        <4> QED BY <2>1, <4>1, <4>2 DEF Matches
      <3> QED BY <3>2, <3>3, <3>4
    <2>6. \A k \in LabelKeys : /\ pod.selector[k] # Unset => node.labels[k] = pod.selector[k]
                               /\ pod.volumes[k] # Unset => node.labels[k] = pod.volumes[k]
      BY <2>1, <2>5 DEF Matches
    <2>7. ASSUME NEW r \in Resources, pod.requests[r] # 0
          PROVE  /\ node.allocatable[r] # Unset
                 /\ pod.requests[r] + bound.staying[r] + bound.leaving[r] <= node.allocatable[r]
      <3>1. node.allocatable[r] = hostRoom[r] /\ bound.leaving[r] = 0
        BY DEF Settled, NothingRequested
      <3>2. /\ hostRoom[r] \in Nat /\ hostRoom[r] # Unset
            /\ pod.requests[r] \in Nat /\ bound.staying[r] \in Nat
        BY WakeAssumption, FitAssumption DEF Shape
      <3> QED BY <2>1, <2>7, <3>1, <3>2
    <2> QED BY <2>3, <2>4, <2>6, <2>7 DEF Admits
  <1> QED BY <1>1, WakeInvHolds, PTL

\* No Node ever has two taints with the same key and effect, whatever templates,
\* operators and the node controller write and however far the copy trails.
THEOREM TaintsStayUnique == Spec => []TaintsUnique
  <1>1. WakeInv => TaintsUnique
    BY DEF WakeInv, TaintsInv, OneOfEach, TaintsUnique
  <1> QED BY <1>1, WakeInvHolds, PTL

\* Stamping a template, from a copy of the Node of any age, takes no label away
\* and changes none but to the template's value; and it takes no taint away but
\* one of the template's, or one behind the copy when the template adds its own.
THEOREM TemplateAddsOnly == Spec => TemplateOnlyAdds
  <1> DEFINE LabelsStay ==
        \A k \in LabelKeys :
          \/ node'.labels[k] = node.labels[k]
          \/ node'.labels[k] \in {pool.labels[k], spec.labels[k]} \ {Unset}
      TaintsStay ==
        \A t \in node.taints :
          \/ t \in node'.taints
          \/ \E u \in pool.taints : SameTaint(t, u)
          \/ t \notin CachedNode.taints /\ ~(pool.taints \subseteq CachedNode.taints)
  <1>1. WakeInv /\ [Next]_vars => [Stamps => LabelsStay /\ TaintsStay]_vars
    <2> SUFFICES ASSUME WakeInv, [Next]_vars, Stamps PROVE LabelsStay /\ TaintsStay
      OBVIOUS
    <2> USE DEF WakeInv
    <2>1. applyNodeTemplate
      BY WritersOfRest DEF Stamps, ChooseMachine, uncordonIfONPCordoned, EnterReady, PromoteStep
    <2>2. LabelsStay
      BY <2>1, StampLabels
    <2>3. \E more \in {pool.taints, {}} :
            \/ node'.taints = node.taints
            \/ node'.taints = mergeTaints(CachedNode.taints, more)
               /\ mergeTaints(CachedNode.taints, more) # CachedNode.taints
      BY <2>1, StampWrites DEF Stamps, NoTemplate
    <2>4. OneOfEach(CachedNode.taints)
      BY DEF TaintsInv
    <2>5. \A more \in {pool.taints, {}} : \A t \in CachedNode.taints :
            t \in mergeTaints(CachedNode.taints, more) \/ \E u \in more : SameTaint(t, u)
      BY <2>4, MergeKeepsOneOfEach
    <2>6. \A more \in {pool.taints, {}} : more \subseteq CachedNode.taints =>
            mergeTaints(CachedNode.taints, more) = CachedNode.taints
      BY <2>4, MergeOfPresent
    <2>7. TaintsStay
      BY <2>3, <2>5, <2>6
    <2> QED BY <2>2, <2>7
  <1> QED BY <1>1, WakeInvHolds, PTL DEF Spec, TemplateOnlyAdds

\* A reserved label, which ONP reads as a safety signal, changes by an edit of an
\* operator and by nothing that ONP or the kubelet does.
THEOREM ReservedLabelsStay == Spec => ReservedLabelsKept
  <1>1. WakeInv /\ [Next]_vars =>
          [\A k \in ReservedLabels : node'.labels[k] # node.labels[k] => edits' # edits]_vars
    <2> SUFFICES ASSUME WakeInv, [Next]_vars, NEW k \in ReservedLabels,
                        node'.labels[k] # node.labels[k]
                 PROVE  edits' # edits
      OBVIOUS
    <2> USE DEF WakeInv
    <2>1. k \in LabelKeys /\ k # "hostname"
      BY FitAssumption
    <2>2. ~applyNodeTemplate /\ ~NodeBecomesReady
      BY <2>1, StampLabels, KubeletLabels
    <2>3. EditReservedLabel
      BY <2>2, WritersOfNode
    <2> QED BY <2>3, WritersOfRest
  <1> QED BY <1>1, WakeInvHolds, PTL DEF Spec, ReservedLabelsKept

=============================================================================
