CONSTANTS
  User = {u1, u2}
  Call = {c1}
  Proc = {p1, p2}
  NoUser = NoUser
  NoCall = NoCall
  MaxRequests = 2
  MaxFaults = 1
  MaxEvents = 2
  MaxDisconnects = 0
  MaxErrors = 1
  MaxInputs = 3
SPECIFICATION MCSpec
INVARIANTS EveryRingIsWatched
PROPERTIES EveryCallSettles
CHECK_DEADLOCK FALSE
