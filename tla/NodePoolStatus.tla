--------------------------- MODULE NodePoolStatus ---------------------------
(***************************************************************************)
(* NodePoolReconciler: it counts a pool's Ready members into the status    *)
(* that also holds the cooldown anchors.  Membership is fixed here, so the *)
(* total is a constant and left out.                                       *)
(***************************************************************************)
EXTENDS Fleet

countMembers_net(pool) ==
  Cardinality({m \in Selects[pool] : CachedMembers[m].state = "Ready"})
  - Cardinality({m \in Selects[pool] : CachedMembers[m].state = "Draining"})

countMembers(pool) ==
  Cardinality({m \in Selects[pool] : CachedMembers[m].state = "Ready"})

statusIsCurrent_unchecked(pool) == TRUE

statusIsCurrent(pool) == CachedPools[pool] = pools[pool]

\* Status().Update sends the whole status of the cached copy, and conflicts
\* unless that copy is current.
NodePoolReconcile(pool) ==
  /\ CachedPools[pool].ready # countMembers(pool)
  /\ statusIsCurrent(pool)
  /\ pools' = [pools EXCEPT ![pool] =
                 [CachedPools[pool] EXCEPT !.ready = countMembers(pool)]]
  /\ UNCHANGED <<now, members, up, exempt, podVars, memberCache, poolCache, moves>>

=============================================================================
