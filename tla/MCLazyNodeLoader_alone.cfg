SPECIFICATION Spec
CONSTANTS
  Loader = {l1, l2}
  Id = {i1, i2, i3, i4}
  NoId = NoId
  NoLoader = NoLoader
  Token = {t1, t2, t3}
  Faults = {}
INVARIANTS TypeOK StateIsTrue NoForgottenNode
PROPERTIES ImplementsManagedNode
