SPECIFICATION FairSpec
CONSTANTS
  a = a
  b = b
  m1 = m1
  m2 = m2
  t1 = t1
  t2 = t2
  Agent = {a}
  Metadata = {m1}
  Topic = {t1}
  NoTopic = NoTopic
  TopicsOf <- OneTopic
  MayStop = FALSE
  Loader = {l1, l2}
  Id = {i1, i2, i3}
  NoId = NoId
  NoLoader = NoLoader
  Token = {k1, k2}
  Faults = {}
PROPERTIES WatchedIsDecoded UnwatchedIsNotDecoded
