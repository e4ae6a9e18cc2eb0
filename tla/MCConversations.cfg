CONSTANTS
  u1 = u1
  u2 = u2
  u3 = u3
  u4 = u4
  Starts <- MCStarts
  User = {u1, u2, u3, u4}
  NumConvs = 3
  Handler = {h1, h2}
  MaxParticipants = 3
  MaxBatch = 2
  MaxRequests = 2
  MaxFaults = 1
SPECIFICATION Spec
SYMMETRY Symmetry
INVARIANTS TypeOK NoSecondDirect GroupKeepsManager GroupKeepsLimit
CHECK_DEADLOCK FALSE
