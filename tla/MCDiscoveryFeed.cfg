SPECIFICATION FairFeedSpec
CONSTANTS
  Agent = {a, b}
  Metadata = {m1, m2}
  NoMetadata = NoMetadata
  Depth = 3
INVARIANTS AgreesUnlessMissed
PROPERTIES FeedCatchesUp
