------------------------------ MODULE ScaleUp ------------------------------
(***************************************************************************)
(* ScaleUpReconciler: for a pod the scheduler found no Node for it wakes   *)
(* the smallest powered-off Machine the pod would fit on, unless a wake    *)
(* that would serve it is under way.  One worker serves the queue; between *)
(* the choice and the wake-now it stamps the pool.                         *)
(***************************************************************************)
EXTENDS Fleet

VARIABLE wakeFor   \* the Machine about to be asked to wake, or None

isActive_started(r) == r.state \in {"Ready", "Booting", "Draining", "ShuttingDown"}

isActive(r) ==
  \/ r.state \in {"Ready", "Booting", "Draining", "ShuttingDown"}
  \/ r.state = "Off" /\ r.wakeNow

countsAgainstCap(view, m) ==
  isActive(view[m]) \/ (view[m].state = "Failed" /\ m \in up)

poolAtCap(pool) ==
  LET cap == poolSpec[pool].maxNodes
  IN  /\ cap # None
      /\ Cardinality({m \in Selects[pool] : countsAgainstCap(CachedMembers, m)}) >= cap

coolingUntil(pool) ==
  LET cooldown == poolSpec[pool].scaleUp
      last == CachedPools[pool].lastScaleUp
  IN  cooldown # None /\ last # None /\ now < last + cooldown

isWaking_booting(r) == r.state = "Booting"

isWaking(r) ==
  r.state = "Booting" \/ (r.state = "Off" /\ r.wakeNow /\ ~r.powerOnFailed)

settling(r) ==
  r.state = "Ready" /\ r.readySince # None /\ now - r.readySince < ReadySettle

wakeInFlight(p) ==
  \E pool \in Pools : \E m \in Selects[pool] :
    Fit(p, m) /\ (isWaking(CachedMembers[m]) \/ settling(CachedMembers[m]))

poolMemberships(m) == Cardinality({pool \in Pools : m \in Selects[pool]})

candidates(p) ==
  {m \in Members :
     /\ Fit(p, m)
     /\ CachedMembers[m].state = "Off" /\ ~CachedMembers[m].wakeNow
     /\ poolMemberships(m) = 1
     /\ \A pool \in Pools : m \in Selects[pool] => ~poolAtCap(pool) /\ ~coolingUntil(pool)}

smallestCandidate(ms) ==
  CHOOSE m \in ms : \A n \in ms :
    Capacity[m] < Capacity[n] \/ (Capacity[m] = Capacity[n] /\ m <= n)

stampScaleUp(m) ==
  pools' = [pool \in Pools |->
              IF m \in Selects[pool] THEN [pools[pool] EXCEPT !.lastScaleUp = now]
                                     ELSE pools[pool]]

ScaleUpReconcile(p) ==
  /\ wakeFor = None
  /\ p \in pending
  /\ ~wakeInFlight(p)
  /\ candidates(p) # {}
  /\ LET winner == smallestCandidate(candidates(p))
     IN  stampScaleUp(winner) /\ wakeFor' = winner
  /\ UNCHANGED <<now, members, up, exempt, podVars, memberCache, poolCache, moves>>

\* The wake-now Patch; it may fail, and the pool stays stamped.
requestWake ==
  /\ wakeFor # None
  /\ members' = members \/ members' = [members EXCEPT ![wakeFor].wakeNow = TRUE]
  /\ wakeFor' = None
  /\ UNCHANGED <<now, up, exempt, podVars, pools, memberCache, poolCache, moves>>

=============================================================================
