SPECIFICATION FairSpec
CONSTANTS
  Client = {c1, c2}
  Key = {k1, k2}
  ClassLoader = {p1, p2}
  Timer = {t1, t2, t3}
  Linger = 2
  VersionBound = 3
  None = None
INVARIANTS TypeOK LeasedIsLoaded CountIsExact
PROPERTIES UnusedLingers UnusedIsUnloaded
