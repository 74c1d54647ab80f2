SPECIFICATION FairSpec
CONSTANTS
  Agent = {self, a}
  Metadata = {m1, m2}
  NoMetadata = NoMetadata
  AgentName = self
  ExcludeSelf = TRUE
  BootupInterval = 1
  BootupCount = 2
  SteadyInterval = 3
  KeepaliveParam = 3
  Faults = {"crash", "loss", "unready", "invalid"}
INVARIANTS TypeOK PendingIsUndiscovered
PROPERTIES ImplementsDiscoveredAgents LostOnlyWhenSilent CrashedAgentIsLost RunningAgentIsDiscovered
