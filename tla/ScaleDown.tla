----------------------------- MODULE ScaleDown -----------------------------
(***************************************************************************)
(* ScaleDownReconciler: it starts and stops the empty timer of a Machine   *)
(* and, past the pool's guards, asks for its drain.  One worker serves the *)
(* queue; between the guards and the drain-now it stamps the pool, and the *)
(* rest of the cluster goes on.                                            *)
(***************************************************************************)
EXTENDS Fleet

VARIABLE drainFor   \* the Machine about to be asked to drain, or None

poolsOf(m) == {pool \in Pools : m \in Selects[pool]}

consolidateAfter_zeroIsOff(m) ==
  IF \E pool \in Pools : poolsOf(m) = {pool} /\ poolSpec[pool].after # 0
    THEN poolSpec[CHOOSE pool \in poolsOf(m) : TRUE].after
    ELSE None

\* Is automatic scale-down on for a Machine: one pool selects it, and has a delay.
consolidateAfter(m) ==
  IF \E pool \in Pools : poolsOf(m) = {pool}
    THEN poolSpec[CHOOSE pool \in poolsOf(m) : TRUE].after
    ELSE None

nodeEmpty(m) == boundTo(m) = {}

\* Both are lockless Patches of the one field.
stampEmptySince(m) ==
  members' = [members EXCEPT ![m].emptySince = now]

clearEmptySince(m) ==
  members' = [members EXCEPT ![m].emptySince = None]

keepsTimer(m) ==
  /\ CachedMembers[m].state = "Ready"
  /\ m \notin exempt
  /\ consolidateAfter(m) # None
  /\ nodeEmpty(m)

-----------------------------------------------------------------------------
(* The pool's guards, over what the API server answers.                    *)

isScalingDown_started(r) == r.state \in {"Draining", "ShuttingDown"}

isScalingDown(r) == r.state \in {"Draining", "ShuttingDown"} \/ r.drainNow

freshPoolState_cached == CachedMembers

freshPoolState == members

scalingDown(pool) == {m \in Selects[pool] : isScalingDown(freshPoolState[m])}

keptOn_booting(pool) ==
  {m \in Selects[pool] \ scalingDown(pool) : freshPoolState[m].state \in {"Ready", "Booting"}}

keptOn(pool) ==
  {m \in Selects[pool] \ scalingDown(pool) : freshPoolState[m].state = "Ready"}

maxConcurrent(pool) ==
  IF poolSpec[pool].maxConcurrent = None THEN 1 ELSE poolSpec[pool].maxConcurrent

coolingDown(pool) ==
  LET cooldown == poolSpec[pool].scaleDown
      last == pools[pool].lastScaleDown
  IN  cooldown # None /\ last # None /\ now < last + cooldown

mayDrain(m, pool) ==
  /\ freshPoolState[m].state = "Ready" /\ ~freshPoolState[m].drainNow
  /\ ~coolingDown(pool)
  /\ Cardinality(keptOn(pool)) > poolSpec[pool].minNodes
  /\ Cardinality(scalingDown(pool)) < maxConcurrent(pool)

stampScaleDown(pool) == pools' = [pools EXCEPT ![pool].lastScaleDown = now]

triggerScaleDown(m) ==
  \E pool \in poolsOf(m) :
    /\ mayDrain(m, pool)
    /\ stampScaleDown(pool)
    /\ drainFor' = m

\* The drain-now Patch; it may fail, and the pool stays stamped.
requestDrain ==
  /\ drainFor # None
  /\ members' = members \/ members' = [members EXCEPT ![drainFor].drainNow = TRUE]
  /\ drainFor' = None
  /\ UNCHANGED <<now, up, exempt, podVars, pools, memberCache, poolCache, moves>>

-----------------------------------------------------------------------------

\* What a pass over Machine m writes: it stops the timer, starts it, or goes on
\* to the guards.
stopsTimer(m) ==
  LET c == CachedMembers[m]
  IN  c.emptySince # None /\ ~keepsTimer(m) /\ ~(c.state = "Ready" /\ c.drainNow)

startsTimer(m) ==
  keepsTimer(m) /\ ~CachedMembers[m].drainNow /\ CachedMembers[m].emptySince = None

idleLongEnough(m) ==
  LET c == CachedMembers[m]
  IN  /\ keepsTimer(m) /\ ~c.drainNow /\ c.emptySince # None
      /\ now - c.emptySince >= consolidateAfter(m)

\* A pass over Machine m that has something to write.
ScaleDownReconcile(m) ==
  /\ drainFor = None
  /\ \/ stopsTimer(m) /\ clearEmptySince(m) /\ UNCHANGED <<pools, drainFor>>
     \/ startsTimer(m) /\ stampEmptySince(m) /\ UNCHANGED <<pools, drainFor>>
     \/ idleLongEnough(m) /\ triggerScaleDown(m) /\ UNCHANGED members
  /\ UNCHANGED <<now, up, exempt, podVars, memberCache, poolCache, moves>>

=============================================================================
