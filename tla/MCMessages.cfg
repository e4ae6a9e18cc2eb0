CONSTANTS
  u1 = u1  u2 = u2  c1 = c1  c2 = c2  t1 = t1  None = None
  User = {u1, u2}  Admin = {u2}  Text = {t1}
  Conversation = {c1, c2}  Home = c1
  Old <- MCOld
  MaxMessages = 5  MaxRequests = 2  Limit = 2
SPECIFICATION Spec
INVARIANTS TypeOK ReadByIsHonest CacheIsLatest WalkIsComplete
PROPERTY DeletedIsFinal
CHECK_DEADLOCK FALSE
