CONSTANTS
  User = {alice, bob}
  Handler = {h1, h2}
  MaxRequests = 4
  MaxFaults = 1
SPECIFICATION Spec
SYMMETRY Symmetry
INVARIANTS TypeOK ListIsMutual FriendsAgreed BlockStands
PROPERTY ActsAsOneRelation
CHECK_DEADLOCK FALSE
