------------------------- MODULE AgentStatusProvider -------------------------
(***************************************************************************)
(* sfg_agent::AgentStatusProvider, one process per agent: it announces its *)
(* agent with heartbeats, every BootupInterval for the first BootupCount   *)
(* of them and every SteadyInterval from then on, and answers requests for *)
(* the agent's metadata.  Time passes in ticks of one second.              *)
(***************************************************************************)
EXTENDS Integers

CONSTANTS
  Agent,           \* names of agents
  Metadata,        \* what metadata files may say
  BootupInterval,  \* constants::bootup_heartbeat_interval
  BootupCount,     \* constants::bootup_heartbeat_count
  SteadyInterval,  \* constants::steady_state_heartbeat_interval
  Faults           \* "crash", "loss", "unready", "invalid": what may go wrong

ASSUME IntervalsAssumption ==
  /\ BootupInterval \in Nat \ {0}
  /\ BootupCount \in Nat \ {0}
  /\ SteadyInterval \in Nat \ {0}
  /\ BootupInterval <= SteadyInterval

ASSUME FaultsAssumption == Faults \subseteq {"crash", "loss", "unready", "invalid"}

VARIABLES
  running,                \* the agent's process is up
  metadata,               \* m_get_metadata_response
  mBootupHeartbeatCount,  \* m_bootup_heartbeat_count
  heartbeatPeriod,        \* m_heartbeat_timer: its period ...
  heartbeatDue,           \* ... and the ticks until it fires
  heartbeat               \* agents with a heartbeat on its way

providerVars ==
  <<running, metadata, mBootupHeartbeatCount, heartbeatPeriod, heartbeatDue, heartbeat>>

ProviderTypeOK ==
  /\ running \in [Agent -> BOOLEAN]
  /\ metadata \in [Agent -> Metadata]
  /\ mBootupHeartbeatCount \in [Agent -> 0 .. BootupCount]
  /\ heartbeatPeriod \in [Agent -> {BootupInterval, SteadyInterval}]
  /\ heartbeatDue \in [Agent -> 0 .. SteadyInterval]
  /\ heartbeat \in SUBSET Agent

ProviderInit ==
  /\ running = [a \in Agent |-> FALSE]
  /\ metadata \in [Agent -> Metadata]
  /\ mBootupHeartbeatCount = [a \in Agent |-> BootupCount]
  /\ heartbeatPeriod = [a \in Agent |-> BootupInterval]
  /\ heartbeatDue = [a \in Agent |-> BootupInterval]
  /\ heartbeat = {}

\* Mutant: the count goes on past zero.
PublishHeartbeatUnguarded(a, count, period) ==
  /\ mBootupHeartbeatCount' = [mBootupHeartbeatCount EXCEPT ![a] = count - 1]
  /\ heartbeatPeriod' = [heartbeatPeriod EXCEPT ![a] = IF count = 1 THEN SteadyInterval ELSE period]
  /\ heartbeatDue' = [heartbeatDue EXCEPT ![a] = heartbeatPeriod'[a]]
  /\ heartbeat' = heartbeat \cup {a}

\* publish_heartbeat with count heartbeats of the bootup phase to go and a timer
\* of that period, which the last of them replaces.
PublishHeartbeat(a, count, period) ==
  /\ mBootupHeartbeatCount' = [mBootupHeartbeatCount EXCEPT ![a] = IF count > 0 THEN count - 1 ELSE 0]
  /\ heartbeatPeriod' = [heartbeatPeriod EXCEPT ![a] = IF count = 1 THEN SteadyInterval ELSE period]
  /\ heartbeatDue' = [heartbeatDue EXCEPT ![a] = heartbeatPeriod'[a]]
  /\ heartbeat' = heartbeat \cup {a}

\* The constructor loads the metadata and sends the first heartbeat.
Start(a) ==
  /\ ~running[a]
  /\ running' = [running EXCEPT ![a] = TRUE]
  /\ \E m \in Metadata : metadata' = [metadata EXCEPT ![a] = m]
  /\ PublishHeartbeat(a, BootupCount, BootupInterval)

HeartbeatTimer(a) ==
  /\ running[a]
  /\ heartbeatDue[a] = 0
  /\ PublishHeartbeat(a, mBootupHeartbeatCount[a], heartbeatPeriod[a])
  /\ UNCHANGED <<running, metadata>>

Crash(a) ==
  /\ "crash" \in Faults
  /\ running[a]
  /\ running' = [running EXCEPT ![a] = FALSE]
  /\ UNCHANGED <<metadata, mBootupHeartbeatCount, heartbeatPeriod, heartbeatDue, heartbeat>>

\* Heartbeats are published with best effort.
LoseHeartbeat(a) ==
  /\ "loss" \in Faults
  /\ a \in heartbeat
  /\ heartbeat' = heartbeat \ {a}
  /\ UNCHANGED <<running, metadata, mBootupHeartbeatCount, heartbeatPeriod, heartbeatDue>>

\* A timer that is due is served, and a heartbeat arrives, before the next tick.
ProvidersMayTick ==
  /\ heartbeat = {}
  /\ \A a \in Agent : running[a] => heartbeatDue[a] > 0

ProvidersTick ==
  /\ heartbeatDue' = [a \in Agent |-> IF running[a] THEN heartbeatDue[a] - 1 ELSE heartbeatDue[a]]
  /\ UNCHANGED <<running, metadata, mBootupHeartbeatCount, heartbeatPeriod, heartbeat>>
=============================================================================
