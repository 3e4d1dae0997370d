-------------------------- MODULE MachineLifecycle --------------------------
(***************************************************************************)
(* What a Machine promises whoever watches it: the states it goes through  *)
(* and the one-shot triggers that start a boot and a drain.  A trigger     *)
(* starts something only in the one state that honours it, and a wake-now  *)
(* never outlives the way into a drain, nor a drain-now the way into       *)
(* Ready.                                                                  *)
(***************************************************************************)
VARIABLES state, wakeNow, drainNow

lifecycleVars == <<state, wakeNow, drainNow>>

LifecycleInit == state = "" /\ wakeNow = FALSE /\ drainNow = FALSE

Goes(from, to) == state = from /\ state' = to

\* A trigger is set by someone else, and consumed.
SetTrigger ==
  \/ wakeNow' = TRUE /\ UNCHANGED <<state, drainNow>>
  \/ drainNow' = TRUE /\ UNCHANGED <<state, wakeNow>>

DropTrigger ==
  /\ wakeNow' \in {wakeNow, FALSE}
  /\ drainNow' \in {drainNow, FALSE}
  /\ state' = state

Declared == Goes("", "Off") /\ UNCHANGED <<wakeNow, drainNow>>

\* A drain-now left over is gone by the time the boot begins.
Woken == Goes("Off", "Booting") /\ wakeNow /\ wakeNow' = wakeNow /\ drainNow' = FALSE

Adopted ==
  /\ Goes("Off", "Ready") \/ Goes("Booting", "Ready")
  /\ wakeNow' \in {wakeNow, FALSE}
  /\ drainNow' = FALSE

BootFailed ==
  /\ Goes("Off", "Failed") \/ Goes("Booting", "Failed")
  /\ wakeNow' \in {wakeNow, FALSE}
  /\ drainNow' = FALSE

DrainStarted ==
  /\ Goes("Ready", "Draining")
  /\ drainNow
  /\ wakeNow' = FALSE
  /\ drainNow' \in {drainNow, FALSE}

NodeLost == Goes("Ready", "Off") /\ ~drainNow /\ wakeNow' = FALSE /\ drainNow' = FALSE

DrainEnded ==
  /\ Goes("Draining", "Ready") \/ Goes("Draining", "Failed")
     \/ Goes("Draining", "ShuttingDown")
  /\ wakeNow' = wakeNow
  /\ drainNow' = FALSE

ShutdownEnded ==
  /\ Goes("ShuttingDown", "Off") \/ Goes("ShuttingDown", "Failed")
  /\ UNCHANGED <<wakeNow, drainNow>>

Resolved == Goes("Failed", "Off") /\ UNCHANGED <<wakeNow, drainNow>>

\* What the controller does, and what others do to the Machine.
ControllerStep ==
  \/ DropTrigger \/ Declared \/ Woken \/ Adopted \/ BootFailed
  \/ DrainStarted \/ NodeLost \/ DrainEnded \/ ShutdownEnded

LifecycleNext == ControllerStep \/ SetTrigger \/ Resolved

LifecycleSpec == LifecycleInit /\ [][LifecycleNext]_lifecycleVars

=============================================================================
