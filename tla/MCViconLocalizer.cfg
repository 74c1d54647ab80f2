SPECIFICATION FairSpec
CONSTANTS
  OdometryPose <- SomeOdometry
  TrackedPose <- SomeTracked
  MarkerToBaseLink <- OtherExchange
  Latency = 1
  BufferSize = 2
  Timeout = 2
INVARIANTS PublishedIsWhereSeen
PROPERTIES KeepsLocalizing PollingEnds
