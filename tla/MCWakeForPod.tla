---------------------------- MODULE MCWakeForPod ----------------------------
(***************************************************************************)
(* Small instances of WakeForPod: a pool label, which one of the Machines  *)
(* empties, a reserved one, a CPU and a GPU.                               *)
(***************************************************************************)
EXTENDS WakeForPod

Keys == {"hostname", "zone", "always-on"}

With(key, value) == [NoLabels EXCEPT ![key] = value]

Room(cpu, gpu) == [r \in Resources |-> IF r = "cpu" THEN cpu ELSE gpu]

Dedicated(value) == [key |-> "dedicated", effect |-> "NoSchedule", value |-> value]
Maintenance == [key |-> "maintenance", effect |-> "NoExecute", value |-> Unset]

\* The template sets a reserved label, which ONP must not write.
Template(taints) ==
  [labels |-> [With("zone", "a") EXCEPT !["always-on"] = "true"], taints |-> taints]
Templates == {Template({}), Template({Dedicated("new")})}

Machine(labels, capacity) == [nodeName |-> "n1", labels |-> labels, capacity |-> capacity]
Machines == {Machine(NoLabels, Room(2, 1)), Machine(With("zone", Empty), Room(2, Unset))}

Pod(selector, volumes, tolerates, requests) ==
  [selector |-> selector, volumes |-> volumes, tolerates |-> tolerates,
   requests |-> requests]
Plain == Pod(NoLabels, NoLabels, {}, Room(1, 0))
Picky == Pod(With("zone", "a"), With("hostname", "n1"), {"dedicated"}, Room(1, 1))
PodsInPlay == {Plain, Picky}

\* A pod that asks for a Node which is never powered off, and one that asks for
\* the emptied label.
Asking(selector) == Pod(selector, NoLabels, {"dedicated"}, Room(1, 0))
UnstampedPods == {Asking(With("always-on", "true")), Asking(With("zone", Empty))}

HostRooms == {Room(1, 1), Room(2, 1)}

Leftovers == {NoLabels, With("zone", "old")}
LeftoverTaints == {{}, {Dedicated("old")}, {Maintenance}}

=============================================================================
