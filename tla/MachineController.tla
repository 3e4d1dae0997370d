------------------------- MODULE MachineController -------------------------
(***************************************************************************)
(* MachineReconciler: one action per state of the Machine, each the whole  *)
(* handler from its cached reads to its last write.                        *)
(*                                                                         *)
(* With ok FALSE a write may fail, a packet may get lost or the process    *)
(* may die between two writes: the handler stops there, and what it wrote  *)
(* before stays written.  With ok TRUE only a conflict stops it.           *)
(***************************************************************************)
EXTENDS Cluster

CONSTANTS
  CanPowerOn,       \* the Machine's provider is registered and powers on
  TemplateResults   \* what stamping the pool template on the Node may yield

ASSUME ControllerAssumption ==
  /\ CanPowerOn \in BOOLEAN
  /\ TemplateResults \subseteq {"applied", "invalid", "error"}

-----------------------------------------------------------------------------
(* A handler works on h: the copy of the Machine it holds, the object on   *)
(* the server, and whether the copy has the server's resourceVersion.  It  *)
(* opens with a Patch that strips a trigger its cached copy shows.  A      *)
(* Patch is a diff, so it lands whatever the server has; its answer is     *)
(* decoded into the copy, whose fields the answer omits stay as they were. *)

Kept(new, old) == IF new = None THEN old ELSE new

Decoded(o, m) ==
  [state |-> o.state,
   wakeNow |-> o.wakeNow \/ m.wakeNow,
   drainNow |-> o.drainNow \/ m.drainNow,
   bootStart |-> Kept(o.bootStart, m.bootStart),
   drainStart |-> Kept(o.drainStart, m.drainStart),
   shutdownStart |-> Kept(o.shutdownStart, m.shutdownStart),
   notReadySince |-> Kept(o.notReadySince, m.notReadySince)]

Unpatched ==
  [copy |-> CachedMachine, server |-> machine, current |-> CachedMachine = machine]

Patched(o, m) == [copy |-> Decoded(o, m), server |-> o, current |-> TRUE]

removeDrainAnnotation_skipped == Unpatched

removeDrainAnnotation ==
  IF CachedMachine.drainNow
    THEN Patched([machine EXCEPT !.drainNow = FALSE],
                 [CachedMachine EXCEPT !.drainNow = FALSE])
    ELSE Unpatched

removeWakeAnnotation_skipped == Unpatched

removeWakeAnnotation ==
  IF CachedMachine.wakeNow
    THEN Patched([machine EXCEPT !.wakeNow = FALSE],
                 [CachedMachine EXCEPT !.wakeNow = FALSE])
    ELSE Unpatched

\* Status().Update replaces the status and leaves the annotations alone; it
\* conflicts unless the copy is current.
Written(h, new) ==
  [new EXCEPT !.wakeNow = h.server.wakeNow, !.drainNow = h.server.drainNow]

StatusUpdate(h, new, ok) ==
  \/ h.current /\ machine' = Written(h, new)
  \/ (h.current => ~ok) /\ machine' = h.server

\* A status update, then a Patch that strips a trigger.
StatusUpdateAndDropWake(h, new, ok) ==
  \/ h.current /\ machine' = [Written(h, new) EXCEPT !.wakeNow = FALSE]
  \/ ~ok /\ StatusUpdate(h, new, ok)
  \/ ~h.current /\ machine' = h.server

StatusUpdateAndDropDrain(h, new, ok) ==
  \/ h.current /\ machine' = [Written(h, new) EXCEPT !.drainNow = FALSE]
  \/ ~ok /\ StatusUpdate(h, new, ok)
  \/ ~h.current /\ machine' = h.server

\* One Patch, which may only fail outright.
Patch(h, o, ok) == machine' = o \/ (~ok /\ machine' = h.server)

-----------------------------------------------------------------------------
(* Writes to the Node, as diffs against its cached copy.                   *)

needsCordon_never == FALSE

needsCordon_claims == CachedNode.present /\ ~CachedNode.cordonedByONP

needsCordon == CachedNode.present /\ ~CachedNode.unschedulable

setCordon ==
  IF needsCordon /\ node.present
    THEN [node EXCEPT !.unschedulable = TRUE,
                      !.cordonedByONP = @ \/ ~CachedNode.cordonedByONP]
    ELSE node

markedByONP == CachedNode.present /\ CachedNode.cordonedByONP

uncordoned ==
  IF markedByONP /\ node.present
    THEN [node EXCEPT !.unschedulable = @ /\ ~CachedNode.unschedulable,
                      !.cordonedByONP = FALSE]
    ELSE node

\* The Patch is refused when the Node is gone, and the handler stops there.
uncordonIfONPCordoned(h, ok, Rest) ==
  \/ /\ markedByONP => node.present
     /\ node' = uncordoned
     /\ Rest
  \/ /\ markedByONP /\ (ok => ~node.present)
     /\ node' = node
     /\ machine' = h.server

staleMarker == markedByONP /\ ~CachedNode.unschedulable

dropStaleCordonMarker ==
  IF staleMarker /\ node.present
    THEN [node EXCEPT !.cordonedByONP = FALSE]
    ELSE node

-----------------------------------------------------------------------------
(* Power.  A magic packet starts a board that is off; one that is on or    *)
(* still halting drops it.                                                 *)

PowerOn(ok) ==
  \/ BoardStarts
  \/ (host = "off" => ~ok) /\ UNCHANGED hostVars

resendPowerOn_never(m, ok) == UNCHANGED hostVars

resendPowerOn(m, ok) ==
  IF m.bootStart # None /\ now - m.bootStart >= BootPoll /\ CanPowerOn
    THEN PowerOn(ok)
    ELSE UNCHANGED hostVars

-----------------------------------------------------------------------------
(* Off, Booting and the way out of them.                                   *)

initialize(ok) ==
  /\ CachedMachine.state = ""
  /\ StatusUpdate(Unpatched, [CachedMachine EXCEPT !.state = "Off"], ok)
  /\ UNCHANGED <<node, pods, hostVars>>

failBoot_unknownState(h, ok) ==
  StatusUpdateAndDropWake(h, [h.copy EXCEPT !.state = "BootFailed"], ok)

failBoot_conditionOnly(h, ok) == machine' = h.server

failBoot(h, ok) ==
  StatusUpdateAndDropWake(h, [h.copy EXCEPT !.state = "Failed"], ok)

\* Any template error but a rejection is retried until the boot budget ends.
applyNodeTemplate(h, ok) ==
  \/ /\ "applied" \in TemplateResults
     /\ StatusUpdateAndDropWake(h, [h.copy EXCEPT !.state = "Ready",
                                                  !.bootStart = None], ok)
  \/ "invalid" \in TemplateResults /\ failBoot(h, ok)
  \/ /\ "error" \in TemplateResults
     /\ IF bootTimedOut(h.copy, now) THEN failBoot(h, ok) ELSE machine' = h.server

promoteToReady(h, ok) ==
  /\ uncordonIfONPCordoned(h, ok, applyNodeTemplate(h, ok))
  /\ UNCHANGED hostVars

\* A refused power-on is recorded as a condition and leaves the state as it is.
wake(h, ok) ==
  /\ PowerOn(ok)
  /\ \/ StatusUpdate(h, [h.copy EXCEPT !.state = "Booting", !.bootStart = now], ok)
     \/ ~ok /\ StatusUpdate(h, h.copy, ok)
  /\ UNCHANGED node

reconcileOff(ok) ==
  LET h == removeDrainAnnotation
      wakes == h.copy.wakeNow /\ CanPowerOn
  IN  /\ CachedMachine.state = "Off"
      /\ \/ nodeIsReady(CachedNode) /\ promoteToReady(h, ok)
         \/ ~nodeIsReady(CachedNode) /\ wakes /\ wake(h, ok)
         \/ /\ ~nodeIsReady(CachedNode) /\ ~wakes
            /\ machine' = h.server
            /\ UNCHANGED <<node, hostVars>>
      /\ UNCHANGED pods

reconcileBooting(ok) ==
  LET h == removeDrainAnnotation
      timedOut == bootTimedOut(h.copy, now)
  IN  /\ CachedMachine.state = "Booting"
      /\ \/ nodeIsReady(CachedNode) /\ promoteToReady(h, ok)
         \/ /\ ~nodeIsReady(CachedNode) /\ timedOut
            /\ failBoot(h, ok)
            /\ UNCHANGED <<node, hostVars>>
         \/ /\ ~nodeIsReady(CachedNode) /\ ~timedOut
            /\ machine' = h.server
            /\ resendPowerOn(h.copy, ok)
            /\ UNCHANGED node
      /\ UNCHANGED pods

-----------------------------------------------------------------------------
(* Ready.                                                                  *)

startDraining(h, ok) ==
  /\ IF nodeAlwaysOn(CachedNode)
       THEN Patch(h, [h.server EXCEPT !.drainNow = FALSE], ok)
       ELSE StatusUpdateAndDropDrain(h, [h.copy EXCEPT !.state = "Draining",
                                                       !.drainStart = now], ok)
  /\ UNCHANGED node

stampNotReadySince(h, ok) == Patch(h, [h.server EXCEPT !.notReadySince = now], ok)

clearNotReadySince(h, ok) ==
  IF h.copy.notReadySince = None
    THEN machine' = h.server
    ELSE Patch(h, [h.server EXCEPT !.notReadySince = None], ok)

reconcileReadyNodeLost(h, ok) ==
  LET since == h.copy.notReadySince
  IN  /\ \/ since = None /\ stampNotReadySince(h, ok)
         \/ since # None /\ now - since < NodeLossGrace /\ machine' = h.server
         \/ /\ since # None /\ now - since >= NodeLossGrace
            /\ StatusUpdate(h, [h.copy EXCEPT !.state = "Off",
                                              !.notReadySince = None], ok)
      /\ UNCHANGED node

nodeInService(h, ok) ==
  \/ /\ staleMarker => node.present
     /\ node' = dropStaleCordonMarker
     /\ clearNotReadySince(h, ok)
  \/ /\ staleMarker /\ (ok => ~node.present)
     /\ node' = node
     /\ machine' = h.server

reconcileReady(ok) ==
  LET h == removeWakeAnnotation
      ready == nodeIsReady(CachedNode)
  IN  /\ CachedMachine.state = "Ready"
      /\ \/ h.copy.drainNow /\ startDraining(h, ok)
         \/ ~h.copy.drainNow /\ ~ready /\ reconcileReadyNodeLost(h, ok)
         \/ ~h.copy.drainNow /\ ready /\ nodeInService(h, ok)
      /\ UNCHANGED <<pods, hostVars>>

-----------------------------------------------------------------------------
(* Draining and ShuttingDown.                                              *)

abortDrain_statusOnly(h, ok) ==
  /\ StatusUpdate(h, [h.copy EXCEPT !.state = "Ready", !.drainStart = None], ok)
  /\ UNCHANGED node

abortDrain(h, ok) ==
  uncordonIfONPCordoned(h, ok,
    StatusUpdate(h, [h.copy EXCEPT !.state = "Ready", !.drainStart = None], ok))

failDrain(h, ok) ==
  uncordonIfONPCordoned(h, ok, StatusUpdate(h, [h.copy EXCEPT !.state = "Failed"], ok))

\* Asked of the API server, not of the cache.
nothingKeepsNodeOn_cached == podsKeepingNodeOn(CachedPods) = {}

nothingKeepsNodeOn == podsKeepingNodeOn(pods) = {}

powerOffDrained_unanchored(h, ok) ==
  IF nothingKeepsNodeOn
    THEN StatusUpdate(h, [h.copy EXCEPT !.state = "ShuttingDown"], ok)
    ELSE machine' = h.server

powerOffDrained(h, ok) ==
  IF nothingKeepsNodeOn
    THEN StatusUpdate(h, [h.copy EXCEPT !.state = "ShuttingDown",
                                        !.shutdownStart = now], ok)
    ELSE machine' = h.server

\* Every drainable pod is offered for eviction; a disruption budget may refuse
\* any of them, and an error ends the round early.
evictPods ==
  \E evicted \in SUBSET {p \in Pods : isDrainable(CachedPods, p, drainForce)} :
    pods' = [p \in Pods |-> IF p \in evicted /\ pods[p] = "running"
                              THEN "terminating" ELSE pods[p]]

drainPass(h, ok) ==
  LET empty == podsKeepingNodeOn(CachedPods) = {}
  IN  \/ /\ needsCordon
         /\ node' = setCordon \/ (~ok /\ node' = node)
         /\ machine' = h.server
         /\ UNCHANGED pods
      \/ ~needsCordon /\ empty /\ powerOffDrained(h, ok) /\ UNCHANGED <<node, pods>>
      \/ ~needsCordon /\ ~empty /\ evictPods /\ machine' = h.server /\ UNCHANGED node

\* A label added while the drain runs stops it too.
labelStopsDrain == nodeAlwaysOn(CachedNode)

reconcileDraining(ok) ==
  LET h == removeDrainAnnotation
      timedOut == drainTimedOut(h.copy, now, drainTimeout)
  IN  /\ CachedMachine.state = "Draining"
      /\ \/ labelStopsDrain /\ abortDrain(h, ok) /\ UNCHANGED pods
         \/ ~labelStopsDrain /\ timedOut /\ failDrain(h, ok) /\ UNCHANGED pods
         \/ ~labelStopsDrain /\ ~timedOut /\ drainPass(h, ok)
      /\ UNCHANGED hostVars

reconcileShuttingDown_pollsOn(ok) ==
  LET down == nodeWentDownSince(CachedNode, CachedMachine.shutdownStart)
  IN  /\ CachedMachine.state = "ShuttingDown"
      /\ \/ /\ down
            /\ StatusUpdate(Unpatched, [CachedMachine EXCEPT !.state = "Off",
                                                            !.shutdownStart = None], ok)
         \/ ~down /\ machine' = machine
      /\ UNCHANGED <<node, pods, hostVars>>

reconcileShuttingDown(ok) ==
  LET m == CachedMachine
      down == nodeWentDownSince(CachedNode, m.shutdownStart)
      Leave(state) ==
        StatusUpdate(Unpatched, [m EXCEPT !.state = state, !.shutdownStart = None], ok)
  IN  /\ m.state = "ShuttingDown"
      /\ \/ down /\ Leave("Off")
         \/ ~down /\ shutdownTimedOut(m, now) /\ Leave("Failed")
         \/ ~down /\ ~shutdownTimedOut(m, now) /\ machine' = machine
      /\ UNCHANGED <<node, pods, hostVars>>

-----------------------------------------------------------------------------

\* A Node that two Machines claim holds every action; Failed is terminal.
Reconcile(ok) ==
  /\ ~duplicate
  /\ \/ initialize(ok) \/ reconcileOff(ok) \/ reconcileBooting(ok)
     \/ reconcileReady(ok) \/ reconcileDraining(ok) \/ reconcileShuttingDown(ok)
  /\ NodeHistory
  /\ UNCHANGED <<now, duplicate, caches, ops>>

=============================================================================
