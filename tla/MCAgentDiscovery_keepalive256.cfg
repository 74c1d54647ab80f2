SPECIFICATION Spec
CONSTANTS
  Agent = {self, a}
  Metadata = {m1}
  NoMetadata = NoMetadata
  AgentName = self
  ExcludeSelf = TRUE
  BootupInterval = 1
  BootupCount = 2
  SteadyInterval = 3
  KeepaliveParam = 256
  Faults = {"crash", "loss"}

PROPERTIES LostOnlyWhenSilent
