SPECIFICATION Spec
CONSTANTS
  Agent = {self, a}
  Metadata = {m1, m2}
  NoMetadata = NoMetadata
  AgentName = self
  ExcludeSelf = TRUE
  BootupInterval = 1
  BootupCount = 1
  SteadyInterval = 1
  KeepaliveParam = 1
  Faults = {"unready"}
INVARIANTS PendingIsRequested
