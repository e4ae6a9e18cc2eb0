CONSTANTS
  User = {u1, u2, u3}
  Call = {c1}
  Proc = {p1, p2}
  NoUser = NoUser
  NoCall = NoCall
  MaxRequests = 3
  MaxFaults = 1
SPECIFICATION RestSpec
SYMMETRY Symmetric
INVARIANTS RestTypeOK NoUnwatchedCall EndedHasReason
PROPERTIES OnlyParticipantsConnect
CHECK_DEADLOCK FALSE
