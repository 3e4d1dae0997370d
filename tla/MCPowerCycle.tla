---------------------------- MODULE MCPowerCycle ----------------------------
(***************************************************************************)
(* Small instances of PowerCycle.                                          *)
(***************************************************************************)
EXTENDS PowerCycle

\* An ordinary pod, and one that must not be disrupted.
PlainPod   == [daemonSet |-> FALSE, mirror |-> FALSE, doNotDisrupt |-> FALSE]
ProtectedPod == [daemonSet |-> FALSE, mirror |-> FALSE, doNotDisrupt |-> TRUE]

OneProtected == [p \in {"db"} |-> ProtectedPod]
NoPodKinds == [p \in {} |-> PlainPod]
OnePlain   == [p \in {"web"} |-> PlainPod]

\* One pool with a budget of its own; two that overlap.
ShortPool == {[name |-> "a", timeout |-> 1, force |-> FALSE]}
Overlap == {[name |-> "a", timeout |-> 1, force |-> TRUE],
            [name |-> "b", timeout |-> None, force |-> TRUE]}

=============================================================================
