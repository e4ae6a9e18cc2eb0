CONSTANTS
  User = {u1, u2}
  Call = {c1}
  Proc = {p1}
  NoUser = NoUser
  NoCall = NoCall
  MaxRequests = 2
  MaxFaults = 0
SPECIFICATION RestSpec
INVARIANT CleanedUserIsFree
CHECK_DEADLOCK FALSE
