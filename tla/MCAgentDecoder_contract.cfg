SPECIFICATION Spec
CONSTANTS
  a = a
  b = b
  m1 = m1
  m2 = m2
  t1 = t1
  t2 = t2
  Agent = {a, b}
  Metadata = {m1, m2}
  Topic = {t1, t2}
  NoTopic = NoTopic
  TopicsOf <- TwoAgents
  MayStop = TRUE
  Loader = {l1, l2}
  Id = {i1, i2, i3}
  NoId = NoId
  NoLoader = NoLoader
  Token = {k1, k2}
  Faults = {"loss"}
SYMMETRY Symmetry
INVARIANTS OneDecoderPerEntry OnlyLiveLoaders
PROPERTIES KeepsLoaderContract
