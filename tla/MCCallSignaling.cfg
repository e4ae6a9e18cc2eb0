CONSTANTS
  User = {u1, u2}
  Call = {c1, c2}
  Proc = {p1, p2}
  NoUser = NoUser
  NoCall = NoCall
  MaxEvents = 3
  MaxDisconnects = 1
  MaxErrors = 1
SPECIFICATION SocketSpec
SYMMETRY Symmetric
INVARIANTS SocketTypeOK NoForgottenRing BusyWithOwnCall ListedCallIsActive
CHECK_DEADLOCK FALSE
