--------------------------- MODULE MCMachineQueue ---------------------------
(***************************************************************************)
(* Small instances of MachineQueue.                                        *)
(***************************************************************************)
EXTENDS MachineQueue, MCPowerCycle

=============================================================================
