----------------------------- MODULE MCWatches -----------------------------
(***************************************************************************)
(* Small instances of Watches: two Machines in one pool, and a pod that    *)
(* only the larger one admits.                                             *)
(***************************************************************************)
EXTENDS Watches

TheMembers == {1, 2}
Selected == [pool \in {"gpu"} |-> TheMembers]
Sizes == [m \in TheMembers |-> m]

Unguarded ==
  [minNodes |-> 0, maxNodes |-> None, maxConcurrent |-> None, after |-> None,
   scaleUp |-> None, scaleDown |-> None]

\* One Machine on at a time, and one that stays on.
WatchedPolicies ==
  {[Unguarded EXCEPT !.maxNodes = 1, !.after = 0],
   [Unguarded EXCEPT !.maxNodes = 1, !.after = 0, !.minNodes = 1]}

Requests == [p \in {"a"} |-> 1]
Admitted == [p \in {"a"} |-> {2}]

=============================================================================
