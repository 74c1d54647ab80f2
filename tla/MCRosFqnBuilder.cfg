SPECIFICATION Spec
CONSTANTS
  Component <- SomeComponents
  Stream <- SomeStreams
  Resource <- SomeResources
  Name <- SomeNames
  AgentName <- SomeAgentNames
  Variable <- NoVariable
  HostName <- SomeHost
INVARIANTS NamesTellTheirSegments PartsMakeTheWhole PartsStandAlone AgentNamesStay TypeOK
