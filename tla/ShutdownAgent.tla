--------------------------- MODULE ShutdownAgent ---------------------------
(***************************************************************************)
(* onp-shutdown-agent, the DaemonSet pod on the managed host: it powers    *)
(* its own host off once per ShuttingDown episode of the Machine, and      *)
(* remembers the episode only as long as its process lives.                *)
(***************************************************************************)
EXTENDS Cluster

CONSTANTS
  UsesAgent,         \* spec.shutdown.provider is empty or "agent"
  BootTimeReadable   \* /proc/stat yields the host's boot time

ASSUME AgentAssumption == UsesAgent \in BOOLEAN /\ BootTimeReadable \in BOOLEAN

VARIABLES
  agentCache,   \* the agent's informer cache of the Machine
  issued,       \* this process has handled an episode,
  issuedFor,    \*   and this is the one
  poweredFor    \* history: episodes some power-off command ran for

agentVars == <<agentCache, issued, issuedFor, poweredFor>>

\* What the agent's cached read returns.
AgentMachine == IF "agent" \in Lagging THEN agentCache ELSE machine

AgentTypeOK ==
  /\ agentCache \in MachineRecord
  /\ issued \in BOOLEAN /\ issuedFor \in Time
  /\ poweredFor \subseteq Time

AgentInit ==
  /\ agentCache = NewMachine
  /\ issued = FALSE /\ issuedFor = None
  /\ poweredFor = {}

-----------------------------------------------------------------------------

\* The instant the controller entered ShuttingDown names the episode.
shutdownEpisode == AgentMachine.shutdownStart

bootedAfter_unchecked(episode) == FALSE

bootedAfter(episode) ==
  BootTimeReadable /\ episode # None /\ bootTime > episode

\* A host that is halting already takes no notice of a second command.
PowerOff ==
  /\ host' = "halting"
  /\ UNCHANGED bootTime

recordEpisode == issued' = TRUE /\ issuedFor' = shutdownEpisode

handled == issued /\ issuedFor = shutdownEpisode

agentSkips ==
  /\ bootedAfter(shutdownEpisode)
  /\ recordEpisode
  /\ UNCHANGED <<hostVars, poweredFor>>

\* With ok FALSE the command may fail, or take effect and be reported failed.
agentPowersOff(ok) ==
  /\ ~bootedAfter(shutdownEpisode)
  /\ PowerOff
  /\ poweredFor' = poweredFor \cup {shutdownEpisode}
  /\ recordEpisode \/ (~ok /\ UNCHANGED <<issued, issuedFor>>)

AgentReconcile(ok) ==
  /\ HostUp \/ host = "halting"
  /\ AgentMachine.state = "ShuttingDown"
  /\ UsesAgent
  /\ ~handled
  /\ agentSkips \/ agentPowersOff(ok)
  /\ UNCHANGED <<agentCache, now, objects, caches, nodeHistory, ops>>

-----------------------------------------------------------------------------
(* The agent's process.                                                    *)

SyncAgent ==
  /\ "agent" \in Lagging /\ HostUp /\ agentCache # machine
  /\ agentCache' = machine
  /\ UNCHANGED <<issued, issuedFor, poweredFor, clusterVars>>

ProcessIsGone ==
  /\ agentCache' = NewMachine
  /\ issued' = FALSE /\ issuedFor' = None
  /\ UNCHANGED poweredFor

AgentRestart ==
  /\ HostUp
  /\ ProcessIsGone
  /\ UNCHANGED clusterVars

\* What a step of anyone else does to the agent: its process goes down with
\* the host and starts afresh after the next boot.
AgentFollowsHost ==
  IF host # "off" /\ host' = "off" THEN ProcessIsGone ELSE UNCHANGED agentVars

=============================================================================
