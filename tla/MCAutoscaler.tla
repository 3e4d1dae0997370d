---------------------------- MODULE MCAutoscaler ----------------------------
(***************************************************************************)
(* Small instances of Autoscaler: two Machines in one pool.                *)
(***************************************************************************)
EXTENDS Autoscaler

TheMembers == {1, 2}
Selected == [pool \in {"gpu"} |-> TheMembers]
Sizes == [m \in TheMembers |-> m]

Unguarded ==
  [minNodes |-> 0, maxNodes |-> None, maxConcurrent |-> None, after |-> None,
   scaleUp |-> None, scaleDown |-> None]

\* A floor; drains one at a time; and a cooldown, which outlasts the clock.
DownPolicies ==
  {[Unguarded EXCEPT !.after = 1, !.minNodes = 1, !.maxConcurrent = 2],
   [Unguarded EXCEPT !.after = 1],
   [Unguarded EXCEPT !.after = 1, !.maxConcurrent = 2, !.scaleDown = 1]}

\* A cap that leaves one Machine off, and a cooldown without a cap.
UpPolicies ==
  {[Unguarded EXCEPT !.maxNodes = 1], [Unguarded EXCEPT !.scaleUp = 1]}

NoRequests == [p \in {} |-> 0]
NoAdmits == [p \in {} |-> TheMembers]

\* Small pods, which fit either Machine.
Requests == [p \in Pods |-> 1]
Admitted == [p \in Pods |-> TheMembers]

=============================================================================
